------------------------ MODULE NodeCommissioningProofs ------------------------
(***************************************************************************)
(* What is stored is what was answered, for every number of channels,      *)
(* every range of ids and addresses and whatever is typed.  A save writes  *)
(* key by key and may be cut off: the invariant says how far the store     *)
(* agrees with the draft while one is going on (Writing), what is true of  *)
(* the store between saves (Stands), and when the form's answer speaks of  *)
(* what is stored (Answered).                                              *)
(***************************************************************************)
EXTENDS NodeCommissioning, TLAPS

\* A save in progress: of a valid draft, and what it has written so far.
Writing ==
    writing # 0 =>
        /\ Valid(draft)
        /\ writing = 1 => ok
        /\ ~damaged => ok
        /\ ok => \A k \in Keys \ {SsidKey} : k < writing => nvs[k] = draft[k]

\* Between saves, and what is left of the last one.
Stands == StoredValid /\ SavedIsStored

\* The form that was answered is the one that is stored: no other one comes
\* before the restart.
Answered ==
    /\ webDone => reboot # "no"
    /\ webDone /\ byWeb => writing = 0 /\ ValidButSsid(nvs)

\* A request that is stored is one that was made.
Requested == flag = owed

StoreInv == TypeOK /\ Writing /\ Stands /\ Answered /\ Requested

LEMMA KeyNumbers ==
    /\ LastKey \in Nat /\ LastKey >= 3
    /\ Keys = 1 .. LastKey /\ SsidKey \in Keys /\ IdKey \in Keys
    /\ 1 \in Keys /\ 0 \notin Keys
BY NodeCommissioningAssumption DEF LastKey, Keys, SsidKey, IdKey

LEMMA DefaultIsConfig == FactoryDefault \in Configs
BY DEF FactoryDefault, Configs

LEMMA TypedIsConfig ==
    ASSUME NEW k \in Keys
    PROVE  Typed(k) \subseteq {0} \cup TypedIds \cup TypedSsids \cup TypedAddresses
BY DEF Typed

\* The ssid is the only key that is no integer.
LEMMA SsidApart == SsidKey # IdKey /\ SsidKey \notin Channels
BY NodeCommissioningAssumption DEF SsidKey, IdKey, Channels

\* Whether a configuration is valid but for its ssid shows in its integers.
LEMMA ValidIntegers ==
    ASSUME NEW c \in Configs, NEW d \in Configs, Valid(d),
           \A k \in Keys \ {SsidKey} : c[k] = d[k]
    PROVE  ValidButSsid(c)
<1>1. IdKey \in Keys /\ Channels \subseteq Keys /\ SsidKey \in Keys
      BY NodeCommissioningAssumption DEF Keys, Channels, IdKey, SsidKey
<1> DEFINE e == [c EXCEPT ![SsidKey] = 1]
<1>2. \A k \in Keys \ {SsidKey} : e[k] = d[k]
      BY DEF Configs
<1>3. e[SsidKey] # 0
      BY <1>1 DEF Configs
<1>4. e[IdKey] = d[IdKey] /\ \A k \in Channels : e[k] = d[k]
      BY <1>1, <1>2, SsidApart
<1> HIDE DEF e
<1>5. Valid(e)
      BY <1>3, <1>4 DEF Valid
<1> QED BY <1>5 DEF ValidButSsid, e

\* With an ssid such a configuration is valid.
LEMMA SsidDecides ==
    ASSUME NEW c \in Configs, ValidButSsid(c)
    PROVE  Valid(c) <=> c[SsidKey] # 0
<1>1. IdKey \in Keys /\ Channels \subseteq Keys /\ SsidKey \in Keys
      BY NodeCommissioningAssumption DEF Keys, Channels, IdKey, SsidKey
<1> DEFINE e == [c EXCEPT ![SsidKey] = 1]
<1>2. e[IdKey] = c[IdKey] /\ \A k \in Channels : e[k] = c[k]
      BY <1>1, SsidApart DEF Configs
<1> HIDE DEF e
<1>3. Valid(e)
      BY DEF ValidButSsid, e
<1> QED BY <1>2, <1>3 DEF Valid

--------------------------------------------------------------------------------
LEMMA InitStoreInv == Init => StoreInv
<1> SUFFICES ASSUME Init PROVE StoreInv
    OBVIOUS
<1>1. TypeOK
      BY DefaultIsConfig DEF Init, TypeOK, Modes
<1>2. Writing /\ Stands /\ Answered /\ Requested
      BY DEF Init, Writing, Stands, StoredValid, SavedIsStored, Answered, Requested
<1> QED BY <1>1, <1>2 DEF StoreInv

\* Steps between saves that leave store and history alone and perhaps begin
\* a save of the draft.
LEMMA EditKeeps ==
    ASSUME StoreInv, writing = 0, draft' \in Configs,
           UNCHANGED <<nvs, flag, mode, history>>,
           reboot' \in {"no", "requested", "now"}, reboot' = "no" => reboot = "no",
           \/ UNCHANGED save
           \/ BeginSave(draft', FALSE)
           \/ reboot = "no" /\ BeginSave(draft', TRUE)
    PROVE  StoreInv'
<1>1. /\ nvs' = nvs /\ flag' = flag /\ lastSaved' = lastSaved
      /\ damaged' = damaged /\ owed' = owed /\ webDone' = webDone
      BY DEF history
<1>2. \A k \in Keys : ~(k < 0) /\ ~(k < 1)
      BY KeyNumbers
<1>3. Requested'
      BY <1>1 DEF StoreInv, Requested
<1>4. CASE UNCHANGED save
  <2>1. writing' = writing /\ ok' = ok /\ byWeb' = byWeb
        BY <1>4 DEF save
  <2>2. TypeOK'
        BY <2>1 DEF StoreInv, TypeOK, history
  <2>3. Writing' /\ Answered'
        BY <1>1, <2>1 DEF StoreInv, Writing, Answered, ValidButSsid, Valid
  <2>4. Stands'
        BY <1>1, <1>2, <2>1
           DEF StoreInv, Stands, StoredValid, SavedIsStored, ValidButSsid, Valid
  <2> QED BY <1>3, <2>2, <2>3, <2>4 DEF StoreInv
<1>5. CASE ~UNCHANGED save
  <2>1. /\ Valid(draft') /\ writing' = 1 /\ ok' = TRUE /\ byWeb' \in BOOLEAN
        /\ byWeb' => reboot = "no"
        BY <1>5 DEF BeginSave
  <2>2. TypeOK'
        BY <2>1, KeyNumbers DEF StoreInv, TypeOK, history
  <2>3. Writing'
        BY <1>2, <2>1 DEF Writing
  <2>4. Answered'
        BY <1>1, <2>1 DEF StoreInv, Answered
  <2>5. Stands'
        BY <1>1, <1>2, <2>1 DEF StoreInv, Stands, StoredValid, SavedIsStored
  <2> QED BY <1>3, <2>2, <2>3, <2>4, <2>5 DEF StoreInv
<1> QED BY <1>4, <1>5

LEMMA SetFieldKeeps ==
    ASSUME StoreInv, NEW k \in Keys, NEW v \in Typed(k), SetField(k, v)
    PROVE  StoreInv'
<1>1. draft' \in Configs
      BY TypedIsConfig DEF SetField, StoreInv, TypeOK, Configs
<1> QED BY <1>1, EditKeeps DEF SetField, SerialReady, StoreInv, TypeOK, stored

LEMMA SubmitKeeps ==
    ASSUME StoreInv, NEW form \in Forms, NEW prefix \in Prefixes, Submit(form, prefix)
    PROVE  StoreInv'
<1>1. draft' \in Configs
      BY DEF Submit, StoreInv, TypeOK, Configs, Forms
<1> QED BY <1>1, EditKeeps DEF Submit, Ready, StoreInv, TypeOK, stored

\* One key of a save: the part that agrees grows by one.
LEMMA WriteKeyKeeps ==
    ASSUME StoreInv, NEW written \in BOOLEAN, WriteKey(written)
    PROVE  StoreInv'
<1>1. writing \in Keys /\ writing # 0 /\ Valid(draft)
      BY DEF WriteKey, StoreInv, TypeOK, Writing
<1>2. draft' = draft /\ flag' = flag /\ owed' = owed /\ mode' = mode /\ byWeb' = byWeb
      BY DEF WriteKey
<1>3. nvs' \in Configs
      BY <1>1 DEF WriteKey, Stored, StoreInv, TypeOK, Configs
<1>4. ok' \in BOOLEAN /\ damaged' \in BOOLEAN
      BY DEF WriteKey, EndSave, OkAfter, StoreInv, TypeOK
<1>5. ok' => ok /\ (written \/ writing = SsidKey)
      BY DEF WriteKey, OkAfter
<1>6. ~damaged' => ok'
      BY DEF WriteKey, EndSave
<1>7. \A k \in Keys : k # writing => nvs'[k] = nvs[k]
      BY <1>1 DEF WriteKey, Stored, StoreInv, TypeOK, Configs
<1>8. written => nvs'[writing] = draft[writing]
      BY <1>1 DEF WriteKey, Stored, StoreInv, TypeOK, Configs
<1>9. ok' => \A k \in Keys \ {SsidKey} : k < writing + 1 => nvs'[k] = draft[k]
  <2> SUFFICES ASSUME ok', NEW k \in Keys \ {SsidKey}, k < writing + 1
               PROVE  nvs'[k] = draft[k]
      OBVIOUS
  <2>1. k < writing => nvs[k] = draft[k]
        BY <1>1, <1>5 DEF StoreInv, Writing
  <2>2. CASE k = writing
        BY <1>5, <1>8, <2>2
  <2>3. CASE k # writing
        BY <1>1, <1>7, <2>1, <2>3, KeyNumbers
  <2> QED BY <2>2, <2>3
<1>10. Requested'
      BY <1>2 DEF StoreInv, Requested
<1>11. CASE writing = LastKey
  <2>1. EndSave(ok') /\ writing' = 0
        BY <1>11 DEF WriteKey, EndSave
  <2>2. TypeOK'
        BY <1>2, <1>3, <1>4, <2>1 DEF StoreInv, TypeOK, EndSave
  <2>3. ok' => \A k \in Keys \ {SsidKey} : nvs'[k] = draft[k]
        BY <1>9, <1>11, KeyNumbers
  <2>4. ok' => ValidButSsid(nvs')
        BY <1>1, <1>3, <2>3, ValidIntegers DEF StoreInv, TypeOK
  <2>5. \A k \in Keys : ~(k < 0)
        BY KeyNumbers
  <2>6. StoredValid'
        BY <1>6, <2>4 DEF StoredValid, ValidButSsid, Valid
  <2>7. SavedIsStored'
        BY <1>6, <2>1, <2>3, <2>5 DEF SavedIsStored, EndSave
  <2>8. Answered'
    <3>1. /\ webDone' = (webDone \/ (ok' /\ byWeb))
          /\ reboot' = IF ok' /\ byWeb THEN "requested" ELSE reboot
          BY <2>1 DEF EndSave
    <3>2. ~(webDone /\ byWeb) /\ (webDone => reboot # "no")
          BY <1>1 DEF StoreInv, Answered
    <3>3. webDone' => reboot' # "no"
          BY <3>1, <3>2
    <3>4. webDone' /\ byWeb' => ok'
          BY <1>2, <3>1, <3>2
    <3> QED BY <2>1, <2>4, <3>3, <3>4 DEF Answered, ValidButSsid, Valid
  <2> QED BY <1>10, <2>1, <2>2, <2>6, <2>7, <2>8 DEF StoreInv, Writing, Stands
<1>12. CASE writing # LastKey
  <2>1. /\ writing' = writing + 1 /\ writing' \in Keys /\ writing' # 1 /\ writing' # 0
        /\ UNCHANGED <<reboot, webDone, lastSaved>>
        /\ damaged' = (damaged \/ ~ok')
        BY <1>1, <1>12, KeyNumbers DEF WriteKey
  <2>2. TypeOK'
        BY <1>2, <1>3, <1>4, <2>1 DEF StoreInv, TypeOK
  <2>3. Writing'
        BY <1>1, <1>2, <1>6, <1>9, <2>1 DEF Writing, Valid
  <2>4. StoredValid'
        BY <2>1 DEF StoredValid
  <2>5. Answered'
        BY <1>1, <1>2, <2>1 DEF StoreInv, Answered
  <2>6. ASSUME ~damaged', lastSaved' # <<>>, NEW k \in Keys \ {SsidKey}
        PROVE  nvs'[k] = IF k < writing + 1 THEN draft[k] ELSE lastSaved[1][k]
    <3>1. ~damaged /\ ok'
          BY <1>6, <2>1, <2>6
    <3>2. nvs[k] = IF k < writing THEN draft[k] ELSE lastSaved[1][k]
          BY <2>1, <2>6, <3>1 DEF StoreInv, Stands, SavedIsStored
    <3>3. CASE k < writing + 1
          BY <1>9, <3>1, <3>3
    <3>4. CASE ~(k < writing + 1)
      <4>1. ~(k < writing) /\ k # writing
            BY <1>1, <3>4, KeyNumbers
      <4> QED BY <1>7, <3>2, <3>4, <4>1
    <3> QED BY <3>3, <3>4
  <2>7. SavedIsStored'
        BY <1>2, <2>1, <2>6, Zenon DEF SavedIsStored, Keys
  <2> QED BY <1>10, <2>2, <2>3, <2>4, <2>5, <2>7 DEF StoreInv, Stands
<1> QED BY <1>11, <1>12

\* A boot: the draft is what is stored, and a save that was going on is over.
LEMMA BootKeeps ==
    ASSUME StoreInv, NEW reading \in Readings, Boot(reading), damaged' \in BOOLEAN,
           ~damaged' => ~damaged /\ writing = 0
    PROVE  StoreInv'
<1>1. nvs' = nvs /\ lastSaved' = lastSaved /\ writing' = 0 /\ ~webDone'
      BY DEF Boot
<1>2. TypeOK'
  <2>1. mode' \in Modes
        BY DEF Boot, Selected, Modes
  <2> QED BY <2>1 DEF StoreInv, TypeOK, Boot, FlagAfterBoot
<1>3. \A k \in Keys : ~(k < 0)
      BY KeyNumbers
<1>4. Writing' /\ Answered'
      BY <1>1 DEF Writing, Answered
<1>5. Stands'
      BY <1>1, <1>3 DEF StoreInv, Stands, StoredValid, SavedIsStored, ValidButSsid, Valid
<1>6. Requested'
  <2>1. flag = owed
        BY DEF StoreInv, Requested
  <2> QED BY <2>1, Zenon DEF Requested, Boot, FlagAfterBoot
<1> QED BY <1>2, <1>4, <1>5, <1>6 DEF StoreInv

LEMMA NextStoreInv == StoreInv /\ [Next]_vars => StoreInv'
<1> SUFFICES ASSUME StoreInv, [Next]_vars PROVE StoreInv'
    OBVIOUS
<1>1. ASSUME NEW k \in Keys, NEW v \in Typed(k), SetField(k, v) PROVE StoreInv'
      BY <1>1, SetFieldKeeps
<1>2. CASE SerialSave
      BY <1>2, EditKeeps DEF SerialSave, SerialReady, StoreInv, TypeOK, stored
<1>3. CASE SerialReboot
      BY <1>3, EditKeeps DEF SerialReboot, SerialReady, StoreInv, TypeOK, stored
<1>4. ASSUME NEW form \in Forms, NEW prefix \in Prefixes, Submit(form, prefix)
      PROVE  StoreInv'
      BY <1>4, SubmitKeeps
<1>5. ASSUME NEW written \in BOOLEAN, WriteKey(written) PROVE StoreInv'
      BY <1>5, WriteKeyKeeps
<1>6. ASSUME NEW reading \in Readings, Restart(reading) PROVE StoreInv'
      BY <1>6, BootKeeps DEF Restart, StoreInv, TypeOK
<1>7. ASSUME NEW reading \in Readings, PowerCycle(reading) PROVE StoreInv'
      BY <1>7, BootKeeps DEF PowerCycle, StoreInv, TypeOK
<1>8. CASE SetupRequested
  <2>1. TypeOK'
        BY <1>8 DEF SetupRequested, StoreInv, TypeOK, save
  <2>2. /\ nvs' = nvs /\ lastSaved' = lastSaved /\ damaged' = damaged /\ webDone' = webDone
        /\ writing = 0 /\ writing' = 0 /\ byWeb' = byWeb /\ draft' = draft
        /\ flag' = TRUE /\ owed' = TRUE /\ reboot' = "now"
        BY <1>8 DEF SetupRequested, Ready, save
  <2>3. Writing' /\ Answered' /\ Requested'
        BY <2>2 DEF StoreInv, Writing, Answered, Requested, ValidButSsid, Valid
  <2>4. Stands'
        BY <2>2, Zenon DEF StoreInv, Stands, StoredValid, SavedIsStored, ValidButSsid, Valid
  <2> QED BY <2>1, <2>3, <2>4 DEF StoreInv
<1>9. CASE UNCHANGED vars
  <2>1. TypeOK'
        BY <1>9 DEF vars, stored, save, history, StoreInv, TypeOK
  <2>2. /\ nvs' = nvs /\ lastSaved' = lastSaved /\ damaged' = damaged /\ webDone' = webDone
        /\ writing' = writing /\ byWeb' = byWeb /\ draft' = draft /\ ok' = ok
        /\ flag' = flag /\ owed' = owed /\ reboot' = reboot
        BY <1>9 DEF vars, stored, save, history
  <2>3. Writing' /\ Answered' /\ Requested'
        BY <2>2 DEF StoreInv, Writing, Answered, Requested, ValidButSsid, Valid
  <2>4. Stands'
        BY <2>2, Zenon DEF StoreInv, Stands, StoredValid, SavedIsStored, ValidButSsid, Valid
  <2> QED BY <2>1, <2>3, <2>4 DEF StoreInv
<1> QED BY <1>1, <1>2, <1>3, <1>4, <1>5, <1>6, <1>7, <1>8, <1>9 DEF Next

LEMMA AlwaysStoreInv == Spec => []StoreInv
<1>1. Init => StoreInv
      BY InitStoreInv
<1>2. StoreInv /\ [Next]_vars => StoreInv'
      BY NextStoreInv
<1> QED BY <1>1, <1>2, PTL DEF Spec

--------------------------------------------------------------------------------
\* The draft, the store and the answer keep their types.
THEOREM TypeCorrect == Spec => []TypeOK
<1>1. StoreInv => TypeOK
      BY DEF StoreInv
<1> QED BY <1>1, AlwaysStoreInv, PTL

\* A store that no save has left cut off or answered as failed is that of a
\* new board or valid but for its ssid: save validates the draft it writes.
THEOREM StoreIsValid == Spec => []StoredValid
<1>1. StoreInv => StoredValid
      BY DEF StoreInv, Stands
<1> QED BY <1>1, AlwaysStoreInv, PTL

\* The integers that were answered "saved" are what is stored, those before
\* the key of a save in progress excepted, until a save fails or is cut off.
THEOREM AnswersAreStored == Spec => []SavedIsStored
<1>1. StoreInv => SavedIsStored
      BY DEF StoreInv, Stands
<1> QED BY <1>1, AlwaysStoreInv, PTL

\* No save is answered "saved" that did not write one of the integers.
THEOREM FailuresReported == Spec => FailureReported
<1> DEFINE Reported ==
        lastSaved' # lastSaved => \A k \in Keys \ {SsidKey} : nvs'[k] = draft[k]
<1>1. ASSUME StoreInv, [Next]_vars PROVE [Reported]_vars
  <2> SUFFICES ASSUME Next, lastSaved' # lastSaved PROVE Reported
      BY <1>1
  <2>1. PICK written \in BOOLEAN : WriteKey(written)
    <3>1. \A reading \in Readings : ~Restart(reading) /\ ~PowerCycle(reading)
          BY Zenon DEF Restart, PowerCycle, Boot
    <3>2. /\ ~SerialSave /\ ~SerialReboot /\ ~SetupRequested
          /\ \A k \in Keys : \A v \in Typed(k) : ~SetField(k, v)
          /\ \A form \in Forms, prefix \in Prefixes : ~Submit(form, prefix)
          BY Zenon DEF SerialSave, SerialReboot, SetupRequested, SetField, Submit, history
    <3> QED BY <3>1, <3>2, Zenon DEF Next
  <2>2. writing = LastKey /\ OkAfter(writing, written)
        BY <2>1 DEF WriteKey, EndSave
  <2>3. writing # 0 /\ ok /\ (written \/ writing = SsidKey)
        BY <2>1, <2>2 DEF WriteKey, OkAfter
  <2>4. ASSUME NEW k \in Keys \ {SsidKey} PROVE nvs'[k] = draft[k]
    <3>1. k < writing \/ k = writing
          BY <2>2, KeyNumbers
    <3>2. k < writing => nvs[k] = draft[k]
          BY <1>1, <2>3 DEF StoreInv, Writing
    <3>3. nvs \in Configs
          BY <1>1 DEF StoreInv, TypeOK
    <3> QED BY <2>1, <2>3, <3>1, <3>2, <3>3, KeyNumbers DEF WriteKey, Stored, Configs
  <2> QED BY <2>4
<1> QED BY <1>1, AlwaysStoreInv, PTL DEF Spec, FailureReported, Reported

\* A boot that can read the flag goes into wireless setup if and only if a
\* request that no boot has cleared was made.
THEOREM SetupAskedFor == Spec => SetupOnRequest
<1> DEFINE Asked ==
        \A reading \in Readings : Boot(reading) =>
            (mode' = "WirelessSetup" <=> owed /\ reading # "unread")
<1>1. ASSUME StoreInv PROVE [Asked]_vars
  <2> SUFFICES ASSUME NEW reading \in Readings, Boot(reading)
               PROVE  mode' = "WirelessSetup" <=> owed /\ reading # "unread"
      OBVIOUS
  <2>1. mode' = Selected(nvs, owed /\ reading # "unread")
        BY <1>1, Zenon DEF Boot, StoreInv, Requested
  <2> QED BY <2>1 DEF Selected
<1> QED BY <1>1, AlwaysStoreInv, PTL DEF SetupOnRequest, Asked

\* A form answered "rebooting", and saved last, brings the node up if an ssid
\* is stored, unless an old request still stands.
THEOREM FormBringsUp == Spec => FormLeadsToNormal
<1> DEFINE Up == webDone /\ ~webDone' /\ byWeb /\ writing = 0 /\ ~owed
                    => (mode' = "Normal" <=> nvs[SsidKey] # 0)
<1>1. ASSUME StoreInv, [Next]_vars PROVE [Up]_vars
  <2> SUFFICES ASSUME Next, webDone, ~webDone', byWeb, writing = 0, ~owed
               PROVE  mode' = "Normal" <=> nvs[SsidKey] # 0
      BY <1>1
  <2>1. PICK reading \in Readings : Restart(reading) \/ PowerCycle(reading)
    <3>1. \A written \in BOOLEAN : ~WriteKey(written)
          BY Zenon DEF WriteKey
    <3>2. /\ ~SerialSave /\ ~SerialReboot /\ ~SetupRequested
          /\ \A k \in Keys : \A v \in Typed(k) : ~SetField(k, v)
          /\ \A form \in Forms, prefix \in Prefixes : ~Submit(form, prefix)
          BY Zenon DEF SerialSave, SerialReboot, SetupRequested, SetField, Submit, history
    <3> QED BY <3>1, <3>2, Zenon DEF Next
  <2>2. mode' = Selected(nvs, flag /\ reading # "unread")
        BY <2>1, Zenon DEF Restart, PowerCycle, Boot
  <2>3. ~flag /\ ValidButSsid(nvs) /\ nvs \in Configs
        BY <1>1 DEF StoreInv, Requested, Answered, TypeOK
  <2>4. Valid(nvs) <=> nvs[SsidKey] # 0
        BY <2>3, SsidDecides
  <2>5. mode' = IF Valid(nvs) THEN "Normal" ELSE "NeedsCommissioning"
        BY <2>2, <2>3 DEF Selected
  <2> QED BY <2>4, <2>5
<1> QED BY <1>1, AlwaysStoreInv, PTL DEF Spec, FormLeadsToNormal, Up
================================================================================
