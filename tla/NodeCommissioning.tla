---------------------------- MODULE NodeCommissioning ----------------------------
(***************************************************************************)
(* Commissioning of an ESP32 node: one BasicCommissioningSession, edited   *)
(* over the serial line in every mode and by the web form in wireless      *)
(* setup, the NVS store it saves to key by key, the request flag that      *)
(* sends the next boot into wireless setup, and the boot that reads both.  *)
(*                                                                         *)
(* The power may go between two writes and a write may fail.  The answer   *)
(* to a save looks at the result of the integers' writes only; at boot the *)
(* request flag may be out of reach, or not be cleared, and nobody looks.  *)
(*                                                                         *)
(* A configuration is the fields that differ in kind: the node id stands   *)
(* for the integers (id, broker port), the ssid for the strings (ssid,     *)
(* password, broker host), then come the channels' addresses.  0 is the    *)
(* default of each: no id, an empty string, an unconfigured channel.       *)
(***************************************************************************)
EXTENDS Naturals, Sequences

CONSTANTS
    ChannelCount,   \* kChannelCount
    MaxNodeId, MaxAddress,                      \* kMaxNodeId, kMaxTurnoutAddress
    TypedIds, TypedSsids, TypedAddresses        \* what users type, good and bad

ASSUME NodeCommissioningAssumption ==
    /\ ChannelCount \in Nat \ {0}
    /\ MaxNodeId \in Nat \ {0} /\ MaxAddress \in Nat \ {0}
    /\ TypedIds \subseteq Nat /\ TypedSsids \subseteq Nat
    /\ TypedAddresses \subseteq Nat

\* The keys in the order of save(): id, ssid, then the channels.
IdKey == 1
SsidKey == 2
Channels == 3 .. ChannelCount + 2
Keys == 1 .. ChannelCount + 2
Configs == [Keys -> {0} \cup TypedIds \cup TypedSsids \cup TypedAddresses]
FactoryDefault == [k \in Keys |-> 0]

VARIABLES
    nvs,        \* the stored configuration
    flag,       \* the stored request for wireless setup
    draft,      \* draft_
    mode,       \* bootMode
    writing,    \* the key a save in progress writes next; 0 without one
    ok,         \* ok of that save
    byWeb,      \* the web form saves, and asks for a reboot after it
    reboot,     \* "requested": rebootRequested_; "now": in ESP.restart()
    lastSaved,  \* history: <<the configuration last answered "saved">> or <<>>
    damaged,    \* history: since then a save was cut off or answered as failed,
                \* or a write of one in progress failed and shows in ok
    owed,       \* history: a request was stored and no boot has cleared it
    webDone     \* history: the web form's answer was "rebooting"

stored == <<nvs, flag>>
save == <<writing, ok, byWeb>>
history == <<lastSaved, damaged, owed, webDone>>
vars == <<stored, draft, mode, save, reboot, history>>

Modes == {"Normal", "NeedsCommissioning", "WirelessSetup"}

TypeOK ==
    /\ nvs \in Configs /\ draft \in Configs
    /\ mode \in Modes
    /\ writing \in {0} \cup Keys
    /\ lastSaved \in {<<>>} \cup {<<c>> : c \in Configs}
    /\ reboot \in {"no", "requested", "now"}
    /\ {flag, ok, byWeb, damaged, owed, webDone} \subseteq BOOLEAN

\* A new board.
Init ==
    /\ nvs = FactoryDefault /\ draft = FactoryDefault
    /\ flag = FALSE /\ mode = "NeedsCommissioning"
    /\ writing = 0 /\ ok = TRUE /\ byWeb = FALSE
    /\ reboot = "no"
    /\ lastSaved = <<>> /\ damaged = FALSE /\ owed = FALSE /\ webDone = FALSE
--------------------------------------------------------------------------------
\* validate()
Valid(c) ==
    /\ c[IdKey] \in 1 .. MaxNodeId
    /\ c[SsidKey] # 0
    /\ \A k \in Channels : c[k] <= MaxAddress
    /\ \A k, l \in Channels : k < l /\ c[k] # 0 => c[k] # c[l]

\* BootModeSelector::select()
Selected(c, requested) ==
    IF requested THEN "WirelessSetup"
    ELSE IF Valid(c) THEN "Normal" ELSE "NeedsCommissioning"

\* Serial lines are read before loop() looks whether a reboot was requested,
\* and so also after one was; the web server and the button come after that.
SerialReady == writing = 0 /\ reboot # "now"
Ready == writing = 0 /\ reboot = "no"

Typed(key) == IF key = IdKey THEN TypedIds
              ELSE IF key = SsidKey THEN TypedSsids ELSE TypedAddresses

\* "id", "wifi" and "turnout address" lines; the values are not looked at.
SetField(key, value) ==
    /\ SerialReady
    /\ draft' = [draft EXCEPT ![key] = value]
    /\ UNCHANGED <<stored, mode, save, reboot, history>>

\* Slip: what is saved is not validated, as on the Mega.
BeginSaveUnchecked(c, web) ==
    IF c \in Configs
    THEN writing' = 1 /\ ok' = TRUE /\ byWeb' = web
    ELSE UNCHANGED save

\* The save command: an invalid draft is refused.
BeginSave(c, web) ==
    IF Valid(c)
    THEN writing' = 1 /\ ok' = TRUE /\ byWeb' = web
    ELSE UNCHANGED save

SerialSave ==
    /\ SerialReady
    /\ BeginSave(draft, FALSE)
    /\ UNCHANGED <<stored, draft, mode, reboot, history>>

SerialReboot ==
    /\ SerialReady
    /\ reboot' = "requested"
    /\ UNCHANGED <<stored, draft, mode, save, history>>

\* The prefix of the form's fields that is applied before one is not a number.
\* The ssid is always a legal value.
Prefixes == {0 .. n : n \in {0, 2} \cup Channels}

\* submit(): the fields go into the draft one by one, then it is saved.
Submit(form, prefix) ==
    /\ Ready /\ mode = "WirelessSetup"
    /\ draft' = [k \in Keys |-> IF k \in prefix THEN form[k] ELSE draft[k]]
    /\ IF Keys \subseteq prefix THEN BeginSave(draft', TRUE) ELSE UNCHANGED save
    /\ UNCHANGED <<stored, mode, reboot, history>>
--------------------------------------------------------------------------------
\* Slip: the loop over the channels runs once too often.
LastKeyPast == ChannelCount + 3
LastKey == ChannelCount + 2

\* Slip: a write that failed is only seen if it is the last one.
OkAfterLast(key, written) == written \/ key = SsidKey
OkAfter(key, written) == ok /\ (written \/ key = SsidKey)

\* What save() has answered, and what is done about it.
EndSave(fine) ==
    /\ writing' = 0
    /\ reboot' = IF fine /\ byWeb THEN "requested" ELSE reboot
    /\ webDone' = (webDone \/ (fine /\ byWeb))
    /\ lastSaved' = IF fine THEN <<draft>> ELSE lastSaved
    /\ damaged' = ~fine

\* Slip: the last channel's key is not written.
StoredShort(key) == [nvs EXCEPT ![key] = IF key = LastKey THEN nvs[key] ELSE draft[key]]
Stored(key) == [nvs EXCEPT ![key] = draft[key]]

\* One key, written or not.
WriteKey(written) ==
    /\ writing # 0
    /\ nvs' = IF written THEN Stored(writing) ELSE nvs
    /\ ok' = OkAfter(writing, written)
    /\ IF writing = LastKey
       THEN EndSave(OkAfter(writing, written))
       ELSE /\ writing' = writing + 1
            /\ damaged' = (damaged \/ ~OkAfter(writing, written))
            /\ UNCHANGED <<reboot, webDone, lastSaved>>
    /\ UNCHANGED <<flag, draft, mode, byWeb, owed>>

\* consumeRequest(): the flag cannot be reached, or is read and kept, as the
\* write of its new value failed, or is read and cleared.
Readings == {"unread", "kept", "cleared"}

\* Slip: the request is read and not cleared.
FlagAfterBootKept(reading) == flag
FlagAfterBoot(reading) == flag /\ reading # "cleared"

\* The globals' constructors.
Boot(reading) ==
    /\ mode' = Selected(nvs, flag /\ reading # "unread")
    /\ flag' = FlagAfterBoot(reading)
    /\ owed' = (owed /\ reading # "cleared")
    /\ draft' = nvs
    /\ writing' = 0 /\ ok' = TRUE /\ byWeb' = FALSE
    /\ reboot' = "no"
    /\ webDone' = FALSE
    /\ UNCHANGED <<nvs, lastSaved>>

\* loop() restarts the board when somebody asked for it, ...
Restart(reading) ==
    writing = 0 /\ reboot # "no" /\ Boot(reading) /\ UNCHANGED damaged

\* ... and the power goes when it likes.
PowerCycle(reading) ==
    Boot(reading) /\ damaged' = (damaged \/ writing # 0)

\* The setup button was held: requestOnNextBoot(), and a restart if it worked.
SetupRequested ==
    /\ Ready /\ mode # "WirelessSetup"
    /\ flag' = TRUE /\ owed' = TRUE
    /\ reboot' = "now"
    /\ UNCHANGED <<nvs, draft, mode, save, lastSaved, damaged, webDone>>

Forms == {f \in [Keys -> TypedIds \cup TypedSsids \cup TypedAddresses] :
             \A k \in Keys : f[k] \in Typed(k)}

Next ==
    \/ \E k \in Keys : \E v \in Typed(k) : SetField(k, v)
    \/ SerialSave
    \/ SerialReboot
    \/ \E form \in Forms, prefix \in Prefixes : Submit(form, prefix)
    \/ \E written \in BOOLEAN : WriteKey(written)
    \/ \E reading \in Readings : Restart(reading) \/ PowerCycle(reading)
    \/ SetupRequested

Spec == Init /\ [][Next]_vars
--------------------------------------------------------------------------------
(***************************************************************************)
(* A store that no save has left in pieces, cut off or answered as failed, *)
(* is that of a new board or valid, but for its ssid: whatever was typed,  *)
(* however often a form was refused halfway, and though a write of the     *)
(* ssid that fails is not noticed.                                         *)
(***************************************************************************)
ValidButSsid(c) == Valid([c EXCEPT ![SsidKey] = 1])
StoredValid == writing = 0 /\ ~damaged => nvs = FactoryDefault \/ ValidButSsid(nvs)

(***************************************************************************)
(* The integers stored are those last answered "saved", and during a save  *)
(* those before its key are new: so, if the power goes then, the mixture   *)
(* the next boot reads is a beginning of the one and the rest of the other *)
(* configuration.  The ssid is left out, and what follows a save that was  *)
(* cut off or answered as failed, until one is answered "saved" again.     *)
(***************************************************************************)
SavedIsStored ==
    ~damaged /\ lastSaved # <<>> =>
        \A k \in Keys \ {SsidKey} :
            nvs[k] = IF k < writing THEN draft[k] ELSE lastSaved[1][k]

(***************************************************************************)
(* A save of which an integer was not written is not answered "saved".     *)
(***************************************************************************)
FailureReported ==
    [][lastSaved' # lastSaved => \A k \in Keys \ {SsidKey} : nvs'[k] = draft[k]]_vars

(***************************************************************************)
(* A boot goes into wireless setup if and only if it can read the flag and *)
(* that was asked for with no boot that cleared the request since.  (A     *)
(* request that cannot be cleared is thus followed again.)                 *)
(***************************************************************************)
SetupOnRequest ==
    [][\A reading \in Readings : Boot(reading) =>
          (mode' = "WirelessSetup" <=> owed /\ reading # "unread")]_vars

(***************************************************************************)
(* When the last save was that of a form answered "rebooting", and no old  *)
(* request still stands, the boot that follows leads to normal operation   *)
(* if an ssid is stored.  None is, although the form has one, only when    *)
(* its write failed, which the answer does not tell, and none was before.  *)
(***************************************************************************)
FormLeadsToNormal ==
    [][webDone /\ ~webDone' /\ byWeb /\ writing = 0 /\ ~owed
          => (mode' = "Normal" <=> nvs[SsidKey] # 0)]_vars
================================================================================
