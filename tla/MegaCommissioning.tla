--------------------------- MODULE MegaCommissioning ---------------------------
(***************************************************************************)
(* The Mega's persistent configuration: MegaCommissioningSession, the      *)
(* draft it edits from serial lines, EepromConfigurationRepository and the *)
(* EEPROM below it, and the stations, which are built once, at boot, from  *)
(* the draft of that moment.                                               *)
(*                                                                         *)
(* EEPROM.put writes one byte after another and the power may go between   *)
(* any two.  A byte has Base values (256 on the board); an address is an   *)
(* int of two bytes, low byte first, and a name is one byte here.          *)
(***************************************************************************)
EXTENDS Integers, Sequences, FiniteSets

CONSTANTS
    Base,           \* values of a byte; Base - 1 is an erased one
    StationCount,   \* MegaConfig::kStationCount
    MaxAddress,     \* MegaConfig::kMaxAddress; kMinAddress is 1
    DefaultAddress, \* STATION_CONFIGS[s].address
    DefaultName,    \* a name, as the byte that stands for it
    TypedAddresses, \* the addresses users type, good and bad
    TypedNames      \* the names they type

Stations == 1 .. StationCount
Bytes == 0 .. Base - 1
Blank == Base - 1
Configs == [Stations -> [address : 1 .. MaxAddress, name : Bytes]]
Defaults == [s \in Stations |->
                [address |-> DefaultAddress[s], name |-> DefaultName]]

ASSUME CommissioningAssumption ==
    /\ Base \in Nat /\ Base > 3
    /\ StationCount \in Nat \ {0}
    /\ MaxAddress \in 1 .. (Base \div 2) * Base - 1
    /\ DefaultAddress \in [Stations -> 1 .. MaxAddress]
    /\ \A s, t \in Stations : DefaultAddress[s] = DefaultAddress[t] => s = t
    /\ DefaultName \in Bytes /\ TypedNames \subseteq Bytes
    /\ TypedAddresses \subseteq Int

VARIABLES
    eeprom,     \* the bytes, at offsets 0 .. ImageSize - 1
    draft,      \* draft_
    effective,  \* the configuration the stations were built from
    written,    \* bytes the save in progress has written
    saving,     \* a save is in progress
    lastSaved,  \* history: <<the configuration last answered "OK">> or <<>>
    torn        \* history: a later save was cut off by a power failure

vars == <<eeprom, draft, effective, written, saving, lastSaved, torn>>
-------------------------------------------------------------------------------
\* MegaConfig::validate()
InRange(a) == a >= 1 /\ a <= MaxAddress
Valid(config) ==
    /\ \A s \in Stations : InRange(config[s].address)
    /\ \A s, t \in Stations :
          config[s].address = config[t].address => s = t

\* The layout: magic number (2 bytes), schema version, then the stations.
Header == [o \in 0 .. 2 |-> o + 1]
SlipConfigOffset == 2   \* Slip: the size of the version byte is forgotten.
ConfigOffset == 3
StationSize == 3
AddressOffset(s) == ConfigOffset + (s - 1) * StationSize
ImageSize == ConfigOffset + StationCount * StationSize
Offsets == 0 .. ImageSize - 1

\* The byte a save of config writes at offset o.
ImageByte(config, o) ==
    IF o < ConfigOffset THEN Header[o]
    ELSE LET s == 1 + (o - ConfigOffset) \div StationSize
             field == (o - ConfigOffset) % StationSize
         IN  CASE field = 0 -> config[s].address % Base
               [] field = 1 -> config[s].address \div Base
               [] OTHER     -> config[s].name

\* Two bytes read back as a signed int.
Word(lo, hi) == lo + Base * (IF hi < Base \div 2 THEN hi ELSE hi - Base)

\* Slip: a save goes through the layout from its end.
NextOffsetDown == ImageSize - 1 - written

\* Where a save writes its next byte: it goes through the layout upwards.
NextOffset == written

\* load(): all zeros unless the header is right.
Load ==
    IF \A o \in DOMAIN Header : eeprom[o] = Header[o]
    THEN [s \in Stations |->
             [address |-> Word(eeprom[AddressOffset(s)], eeprom[AddressOffset(s) + 1]),
              name |-> eeprom[AddressOffset(s) + 2]]]
    ELSE [s \in Stations |-> [address |-> 0, name |-> 0]]

\* Slip: what the EEPROM holds is believed.
DraftAtBootUnchecked == Load

\* The constructor of MegaCommissioningSession.
DraftAtBoot == IF Valid(Load) THEN Load ELSE Defaults
-------------------------------------------------------------------------------
TypeOK ==
    /\ eeprom \in [Offsets -> Bytes]
    /\ draft \in Configs
    /\ effective \in Configs
    /\ written \in 0 .. ImageSize - 1
    /\ saving \in BOOLEAN
    /\ lastSaved \in {<<>>} \cup {<<config>> : config \in Configs}
    /\ torn \in BOOLEAN

\* The first start of a board whose EEPROM was never written.
Init ==
    /\ eeprom = [o \in Offsets |-> Blank]
    /\ draft = Defaults
    /\ effective = Defaults
    /\ written = 0
    /\ saving = FALSE
    /\ lastSaved = <<>>
    /\ torn = FALSE

\* Slip: only the lower end of the range is checked.
AddressAcceptedFromOne(s, a) == s \in Stations /\ a >= 1

\* The checks of "address s a"; a line that fails them changes nothing.
AddressAccepted(s, a) == s \in Stations /\ InRange(a)

\* sscanf("%d") keeps the two lower bytes of a number that does not fit.
AsInt(n) == Word(n % Base, (n \div Base) % Base)

SetAddress(s, n) ==
    /\ ~saving
    /\ AddressAccepted(s, AsInt(n))
    /\ draft' = [draft EXCEPT ![s].address = AsInt(n)]
    /\ UNCHANGED <<eeprom, effective, written, saving, lastSaved, torn>>

\* "name s n"
SetName(s, n) ==
    /\ ~saving
    /\ s \in Stations
    /\ draft' = [draft EXCEPT ![s].name = n]
    /\ UNCHANGED <<eeprom, effective, written, saving, lastSaved, torn>>

\* "save": the draft is not validated.  Nothing else runs until it is done.
BeginSave ==
    /\ ~saving
    /\ saving' = TRUE
    /\ written' = 0
    /\ UNCHANGED <<eeprom, draft, effective, lastSaved, torn>>

\* One byte; after the last one the answer is "OK".
WriteByte ==
    /\ saving
    /\ eeprom' = [eeprom EXCEPT ![NextOffset] = ImageByte(draft, NextOffset)]
    /\ IF written = ImageSize - 1
       THEN /\ saving' = FALSE
            /\ written' = 0
            /\ lastSaved' = <<draft>>
            /\ torn' = FALSE
       ELSE written' = written + 1 /\ UNCHANGED <<saving, lastSaved, torn>>
    /\ UNCHANGED <<draft, effective>>

\* The power goes and comes back: only the EEPROM is kept.
PowerCycle ==
    /\ torn' = (torn \/ saving)
    /\ saving' = FALSE
    /\ written' = 0
    /\ draft' = DraftAtBoot
    /\ effective' = DraftAtBoot
    /\ UNCHANGED <<eeprom, lastSaved>>

Next ==
    \/ \E s \in Stations, n \in TypedAddresses : SetAddress(s, n)
    \/ \E s \in Stations, n \in TypedNames : SetName(s, n)
    \/ BeginSave
    \/ WriteByte
    \/ PowerCycle

Spec == Init /\ [][Next]_vars
-------------------------------------------------------------------------------
(***************************************************************************)
(* A valid configuration whose save was answered "OK" is what the next     *)
(* boot finds, unless a later save was interrupted.                        *)
(***************************************************************************)
ValidSaveSurvives ==
    lastSaved # <<>> /\ ~saving /\ ~torn /\ Valid(lastSaved[1])
        => DraftAtBoot = lastSaved[1]

(***************************************************************************)
(* When the power fails during a save, over an intact last one, the next   *)
(* boot finds at most one station that is neither as it was about to be    *)
(* saved nor as it was saved before: those before it are new, those after  *)
(* it are old.  A mixture that is not valid is dropped for the defaults.   *)
(***************************************************************************)
OneStationTorn ==
    [][PowerCycle /\ saving /\ ~torn /\ lastSaved # <<>> =>
         \/ draft' = Defaults
         \/ \E t \in Stations : \A s \in Stations :
                /\ s < t => draft'[s] = draft[s]
                /\ s > t => draft'[s] = lastSaved[1][s]]_vars

(***************************************************************************)
(* Every configuration answered "OK", valid or not, is what the next boot  *)
(* finds, unless a later save was interrupted.                             *)
(***************************************************************************)
SaveSurvives ==
    lastSaved # <<>> /\ ~saving /\ ~torn => DraftAtBoot = lastSaved[1]

(***************************************************************************)
(* No station ever works on an address that is neither its default nor one *)
(* somebody typed, as it was read.                                         *)
(***************************************************************************)
NoGarbageAddress ==
    \A s \in Stations :
        \/ effective[s].address = DefaultAddress[s]
        \/ \E n \in TypedAddresses : effective[s].address = AsInt(n)
===============================================================================
