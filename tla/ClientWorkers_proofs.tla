------------------------- MODULE ClientWorkers_proofs --------------------------
(***************************************************************************)
(* Proofs about what goes on behind the windows of the desktop client      *)
(* (module ClientWorkers): the update of the client, for any releases,     *)
(* models, faults and clicks (module Updater); its upload queue, for any   *)
(* windows, submissions and troubles (module UploadQueue); and the reading *)
(* of names, for any windows, rosters and mishaps (module OcrQuery).       *)
(***************************************************************************)
EXTENDS ClientWorkers, FiniteSetTheorems, SequenceTheorems, TLAPS

-----------------------------------------------------------------------------
(* The update of the client.                                               *)

UpdaterSpec == UpdaterInit /\ [][UpdaterNext]_update

-----------------------------------------------------------------------------
(* The update: the inductive invariant.                                    *)

VersionsOrNone == 0..MaxVersion

Clients ==
    [at : {"off", "restoring", "idle"} \cup Working, version : VersionsOrNone,
     release : VersionsOrNone, program : VersionsOrNone, models : VersionsOrNone,
     ready : BOOLEAN, checked : BOOLEAN, signed : SUBSET Files,
     kind : {"program", "models"}, mirror : BOOLEAN, manual : BOOLEAN,
     recheck : {"no", "auto", "manual"}, due : SUBSET {"download", "prepare"}, auto : BOOLEAN]

Keepsakes == [release : VersionsOrNone, program : VersionsOrNone, models : VersionsOrNone]

Scripts ==
    [at : {"none", "waiting", "staged", "backed", "copying", "copied", "proving", "cleaning",
           "failed", "rolling"},
     target : VersionsOrNone, program : VersionsOrNone, models : VersionsOrNone]

Installs == [program : VersionsOrNone, models : VersionsOrNone]

Chances == [publishes : 0..MaxPublishes, clicks : 0..MaxClicks, faults : 0..MaxUpdateFaults]

FilesTyped ==
    /\ packages \in [Files -> {"none", "good", "bad"}]
    /\ parts \in [Files -> {"none", "some", "whole", "bad"}]

ScriptTyped ==
    /\ script \in Scripts /\ scriptFile \in BOOLEAN
    /\ install \in Installs /\ backup \in Installs \cup {NoKeepsake}

\* The types; a script that goes on to replace files has made its backup.
UpdaterTyped ==
    /\ updater \in Clients
    /\ FilesTyped /\ keepsake \in Keepsakes /\ ScriptTyped
    /\ published \in Versions /\ chances \in Chances
    /\ regrets \subseteq {"torn", "untried"}
    /\ script.at \notin {"none", "waiting", "staged"} => backup \in Installs

Replacing == script.at \in {"copying", "failed", "rolling"}

Running == updater.at # "off"

\* The version that stays if the script goes no further, and its models.
Home == IF Replacing THEN backup ELSE install

\* What is or will be in the place of the program is whole.
HomeIsWhole == Home.program \in Versions

\* How far the script has come shows in what is installed.
ScriptGoesOn ==
    /\ script.at \in {"waiting", "staged", "backed"} => script.target > install.program
    /\ script.at = "backed" => backup = install
    /\ script.at \in {"copying", "failed", "rolling", "copied", "proving", "cleaning"} =>
        backup.program \in Versions /\ script.target > backup.program
    /\ script.at \notin {"none", "waiting"} =>
        script.target \in Versions /\ script.program = script.target
    /\ script.at \in {"staged", "backed", "copying"} =>
        /\ packages[Program(script.target)] = "good"
        /\ script.models \in {0, ModelOf[script.target]}
    /\ script.at \in {"copied", "proving", "cleaning"} => install.program = script.target
    /\ script.at = "failed" /\ install # Torn => install.program = script.target
    /\ script.at \in {"copying", "rolling"} => install = Torn

\* The client that runs is the installed one, and looks for a newer release.
ClientIsInstalled ==
    Running =>
        /\ updater.version = Home.program
        /\ updater.release = 0 \/ updater.release > updater.version
        /\ script.at # "copied"

\* What the client is about to do, it can.
ClientGoesOn ==
    /\ updater.at = "restoring" => updater.program = 0
    /\ updater.ready => updater.program # 0 /\ Running
    /\ updater.at = "verifying" => updater.ready
    /\ updater.at \in {"fetching", "refused"} =>
        updater.release # 0 /\ (updater.kind = "program" <=> updater.program = 0)
    /\ updater.recheck # "no" => updater.at \in {"restoring", "verifying"}

\* The check 1.5 s after the start is the last but those by the user.
ChecksEnd ==
    /\ "download" \in updater.due => ~updater.auto
    /\ updater.at = "checking" /\ ~updater.manual => ~updater.auto
    /\ updater.recheck = "auto" => ~updater.auto
    /\ ~updater.ready /\ updater.program # 0
            /\ (updater.release # updater.program \/ updater.at = "checking") =>
        ~updater.auto

\* The release that the client knows stays the same until it is started again.
ReleaseStays ==
    ~updater.auto /\ updater.recheck = "no" /\ updater.at \notin {"restoring", "checking"}

\* A program that is ready without models goes with the installed ones, or is not
\* that of the release, and never will be.
ReadyFits ==
    updater.ready /\ updater.models = 0 =>
        \/ ModelOf[updater.program] = Home.models
        \/ updater.program # updater.release /\ ReleaseStays

KeepsakeFits ==
    keepsake.release = keepsake.program /\ keepsake.models = 0 /\ keepsake.program > Home.program =>
        ModelOf[keepsake.program] = Home.models

\* The script installs what was remembered last, which cannot be restored while
\* the new client is on trial.
ScriptFits ==
    /\ updater.ready => keepsake.program \in {0, updater.program}
    /\ script.at # "none" /\ script.program = script.target =>
        keepsake.program \in {0, script.program}
    /\ script.at \in {"waiting", "staged", "backed", "copying"}
            /\ script.program = script.target /\ script.models = 0 =>
        ModelOf[script.target] = Home.models
    /\ script.at \in {"copied", "proving", "cleaning"} /\ keepsake.program = script.target
            /\ keepsake.release = keepsake.program /\ keepsake.models = 0 =>
        ModelOf[script.target] = backup.models

\* What the script goes back to, or away from, has its models.
TrialFits ==
    /\ script.at = "failed" /\ install # Torn => install.models = ModelOf[install.program]
    /\ script.at \in {"copied", "proving", "cleaning"} =>
        backup.models = ModelOf[backup.program]

ModelsFit ==
    /\ Home.models = ModelOf[Home.program] /\ TrialFits
    /\ ReadyFits /\ KeepsakeFits /\ ScriptFits

UpdaterInv ==
    /\ UpdaterTyped
    /\ ClientGoesOn /\ ChecksEnd
    /\ "torn" \notin regrets =>
        /\ HomeIsWhole /\ ScriptGoesOn /\ ClientIsInstalled
        /\ "untried" \notin regrets => ModelsFit

-----------------------------------------------------------------------------
(* What the operators of the module give.                                  *)

\* What the versions and the files are.
LEMMA Bounds ==
    /\ VersionsOrNone \subseteq Int /\ 0 \in VersionsOrNone /\ 1 \in Versions
    /\ \A v \in VersionsOrNone : v # 0 => v \in Versions
    /\ \A v \in Versions : v \in VersionsOrNone /\ v # 0
    /\ \A v \in Versions : ModelOf[v] \in Versions
    /\ \A v \in Versions : Program(v) \in Files /\ Models(ModelOf[v]) \in Files
BY UpdaterAssumption DEF VersionsOrNone, Versions, Files

\* What the client has of a release, and what it still means to do, are as before.
AsBefore(v, u) ==
    /\ v.version = u.version /\ v.release = u.release /\ v.program = u.program
    /\ v.models = u.models /\ v.ready = u.ready /\ v.due = u.due /\ v.auto = u.auto

\* A client that is closed.
LEMMA OffIs ==
    /\ Off \in Clients
    /\ Off.at = "off" /\ Off.version = 0 /\ Off.release = 0 /\ Off.program = 0
    /\ Off.models = 0 /\ Off.recheck = "no" /\ Off.due = {}
    /\ ~Off.ready /\ ~Off.auto
<1>1. Off \in Clients
  BY Bounds, Zenon DEF Off, Clients
<1>2. /\ Off.at = "off" /\ Off.version = 0 /\ Off.release = 0 /\ Off.program = 0
      /\ Off.models = 0 /\ Off.recheck = "no" /\ Off.due = {}
  BY Zenon DEF Off
<1>3. ~Off.ready /\ ~Off.auto
  BY Zenon DEF Off
<1>4. QED
  BY <1>1, <1>2, <1>3

\* A client that has just started.
LEMMA StartedIs ==
    ASSUME NEW v \in VersionsOrNone, NEW u, u = [Off EXCEPT !.at = "restoring", !.version = v, !.auto = TRUE]
    PROVE  /\ u \in Clients
           /\ u.at = "restoring" /\ u.version = v /\ u.release = 0 /\ u.program = 0
           /\ u.models = 0 /\ u.recheck = "no" /\ u.due = {}
           /\ ~u.ready /\ u.auto
<1>1. u \in Clients
  BY OffIs, Zenon DEF Clients
<1>2. /\ u.at = "restoring" /\ u.version = v /\ u.release = 0 /\ u.program = 0
      /\ u.models = 0 /\ u.recheck = "no" /\ u.due = {}
  BY OffIs, Zenon DEF Clients
<1>3. ~u.ready /\ u.auto
  BY OffIs, Zenon DEF Clients
<1>4. QED
  BY <1>1, <1>2, <1>3

\* A fault uses up a chance.
LEMMA FaultUses ==
    ASSUME chances \in Chances, Fault
    PROVE  chances' \in Chances
BY UpdaterAssumption DEF Fault, Chances

\* Packages that match are those of a release.
LEMMA MatchesIs ==
    ASSUME NEW r \in VersionsOrNone, NEW p \in VersionsOrNone, NEW m \in VersionsOrNone,
           Matches(r, p, m)
    PROVE  /\ r \in Versions /\ p = r /\ packages[Program(r)] = "good"
           /\ m \in {0, ModelOf[r]}
           /\ Program(p) \in Files
           /\ m # 0 => Models(m) \in Files
BY Bounds DEF Matches

\* On to a check that had to wait.
LEMMA RecheckIs ==
    ASSUME NEW u \in Clients, NEW v, v = Recheck(u)
    PROVE  /\ v \in Clients /\ AsBefore(v, u) /\ v.recheck = "no"
           /\ u.recheck = "no" => v.at = u.at
           /\ u.recheck # "no" => v.at = "checking"
           /\ u.recheck = "manual" => v.manual
<1>1. CASE u.recheck = "no"
  BY <1>1 DEF Recheck, AsBefore
<1>2. CASE u.recheck # "no"
  <2>1. v = [u EXCEPT !.at = "checking", !.manual = u.recheck = "manual", !.recheck = "no"]
    BY <1>2, Zenon DEF Recheck
  <2>2. PICK b \in BOOLEAN : b = (u.recheck = "manual")
    OBVIOUS
  <2>3. v = [u EXCEPT !.at = "checking", !.manual = b, !.recheck = "no"]
    BY <2>1, <2>2, Zenon
  <2>4. v \in Clients
    BY <2>3, Zenon DEF Clients, Working
  <2>5. AsBefore(v, u) /\ v.recheck = "no" /\ v.at = "checking"
    BY <2>3, Zenon DEF Clients, AsBefore
  <2>6. u.recheck = "manual" => v.manual
    BY <2>2, <2>3, Zenon DEF Clients
  <2>7. QED
    BY <1>2, <2>4, <2>5, <2>6, Zenon
<1>3. QED
  BY <1>1, <1>2, Zenon

\* A check begins, waits, or is not made.
LEMMA CheckFromIs ==
    ASSUME NEW u \in Clients, NEW byUser \in BOOLEAN, NEW v, v = CheckFrom(u, byUser)
    PROVE  /\ v \in Clients /\ AsBefore(v, u)
           /\ u.at = "restoring" =>
                /\ v.at = u.at
                /\ byUser => v.recheck = "manual"
                /\ ~byUser => v.recheck = "auto"
           /\ u.at = "idle" =>
                /\ v.at = "checking" /\ v.recheck = u.recheck
                /\ byUser => v.manual
           /\ u.at \notin {"restoring", "idle"} => v = u
<1>1. CASE u.at = "restoring"
  <2>1. v = [u EXCEPT !.recheck = IF byUser THEN "manual" ELSE "auto"]
    BY <1>1, Zenon DEF CheckFrom
  <2>2. PICK c \in {"no", "auto", "manual"} : c = IF byUser THEN "manual" ELSE "auto"
    BY Zenon
  <2>3. v = [u EXCEPT !.recheck = c]
    BY <2>1, <2>2, Zenon
  <2>4. v \in Clients
    BY <2>3, Zenon DEF Clients
  <2>5. AsBefore(v, u) /\ v.recheck = c /\ v.at = u.at
    BY <2>3, Zenon DEF Clients, AsBefore
  <2>6. QED
    BY <1>1, <2>2, <2>4, <2>5, Zenon
<1>2. CASE u.at = "idle"
  <2>1. v = [u EXCEPT !.at = "checking", !.manual = byUser]
    BY <1>2, Zenon DEF CheckFrom
  <2>2. v \in Clients
    BY <2>1, Zenon DEF Clients, Working
  <2>3. AsBefore(v, u) /\ v.recheck = u.recheck /\ v.at = "checking" /\ v.manual = byUser
    BY <2>1, Zenon DEF Clients, AsBefore
  <2>4. QED
    BY <1>2, <2>2, <2>3, Zenon
<1>3. CASE u.at \notin {"restoring", "idle"}
  <2>1. v = u
    BY <1>3, Zenon DEF CheckFrom
  <2>2. QED
    BY <1>3, <2>1, Zenon DEF AsBefore
<1>4. QED
  BY <1>1, <1>2, <1>3, Zenon

\* The packages are to be verified again.
LEMMA PreparingIs ==
    ASSUME NEW u \in Clients, NEW v, v = Preparing(u)
    PROVE  /\ v \in Clients /\ AsBefore(v, u)
           /\ v.recheck = u.recheck /\ v.manual = u.manual /\ v.kind = u.kind
           /\ v.at = u.at \/ (u.at = "idle" /\ u.ready /\ v.at = "verifying")
<1>1. CASE u.at = "idle" /\ u.ready /\ u.release # 0
  <2>1. v = [u EXCEPT !.at = "verifying", !.checked = FALSE]
    BY <1>1, Zenon DEF Preparing
  <2>2. v \in Clients
    BY <2>1, Zenon DEF Clients, Working
  <2>3. /\ AsBefore(v, u) /\ v.recheck = u.recheck /\ v.manual = u.manual
        /\ v.kind = u.kind /\ v.at = "verifying"
    BY <2>1, Zenon DEF Clients, AsBefore
  <2>4. QED
    BY <1>1, <2>2, <2>3, Zenon
<1>2. CASE ~(u.at = "idle" /\ u.ready /\ u.release # 0)
  <2>1. v = u
    BY <1>2, Zenon DEF Preparing
  <2>2. QED
    BY <2>1, Zenon DEF AsBefore
<1>3. QED
  BY <1>1, <1>2, Zenon

\* A download of one file begins.
LEMMA BegunIs ==
    ASSUME NEW u \in Clients, NEW kind \in {"program", "models"}, NEW v, v = Begun(u, kind)
    PROVE  /\ v \in Clients /\ AsBefore(v, u)
           /\ v.recheck = u.recheck /\ v.manual = u.manual /\ v.kind = kind
           /\ v.at \in {"fetching", "refused"}
<1>1. PICK at \in {"fetching", "refused"} :
        v = [u EXCEPT !.at = at, !.kind = kind, !.mirror = TRUE]
  BY Zenon DEF Begun
<1>2. v \in Clients
  BY <1>1, Zenon DEF Clients, Working
<1>3. /\ AsBefore(v, u) /\ v.recheck = u.recheck /\ v.manual = u.manual
      /\ v.kind = kind /\ v.at = at
  BY <1>1, Zenon DEF Clients, AsBefore
<1>4. QED
  BY <1>2, <1>3, Zenon

-----------------------------------------------------------------------------
(* The first state, and the steps that leave the installation alone.       *)

\* The invariant holds at first.
LEMMA UpdaterStarts == UpdaterInit => UpdaterInv
<1> SUFFICES ASSUME UpdaterInit PROVE UpdaterInv
  OBVIOUS
<1> USE DEF UpdaterInit
<1>1. UpdaterTyped
  <2>1. FilesTyped /\ keepsake \in Keepsakes
    BY Bounds DEF FilesTyped, Keepsakes, NoKeepsake
  <2>2. script \in Scripts /\ install \in Installs /\ backup \in Installs \cup {NoKeepsake}
    BY Bounds DEF Scripts, NoScript, Installs, VersionsOrNone, Versions
  <2>3. scriptFile \in BOOLEAN
    BY Zenon
  <2>4. published \in Versions /\ chances \in Chances
    BY Bounds, UpdaterAssumption DEF Chances
  <2>5. regrets \subseteq {"torn", "untried"} /\ script.at = "none"
    BY DEF NoScript
  <2>6. QED
    BY <2>1, <2>2, <2>3, <2>4, <2>5, OffIs, Zenon DEF UpdaterTyped, ScriptTyped
<1>2. ClientGoesOn /\ ChecksEnd
  BY OffIs, Zenon DEF ClientGoesOn, ChecksEnd, Running, Working
<1>3. /\ script.at = "none" /\ ~Replacing /\ Home = install /\ ~Running
      /\ Home.program = 1 /\ Home.models = ModelOf[1] /\ script.program = 0 /\ script.target = 0
  BY OffIs DEF NoScript, Replacing, Home, Running
<1>4. HomeIsWhole /\ ScriptGoesOn /\ ClientIsInstalled
  BY <1>3, Bounds DEF HomeIsWhole, ScriptGoesOn, ClientIsInstalled
<1>5. ReadyFits
  BY OffIs, Zenon DEF ReadyFits
<1>6. KeepsakeFits /\ ScriptFits
  <2>1. KeepsakeFits
    BY <1>3, Bounds DEF KeepsakeFits, NoKeepsake
  <2>2. ScriptFits
    BY <1>3, OffIs, Bounds, Zenon DEF ScriptFits, NoKeepsake
  <2>3. QED
    BY <2>1, <2>2
<1>7. QED
  BY <1>1, <1>2, <1>3, <1>4, <1>5, <1>6 DEF UpdaterInv, ModelsFit, TrialFits

\* A step of the client that leaves what is installed, the script and what is
\* remembered alone keeps the invariant if it keeps what is the client's own.
LEMMA ClientStep ==
    ASSUME UpdaterInv, UNCHANGED <<keepsake, installed, regrets>>,
           UpdaterTyped', ClientGoesOn', ChecksEnd',
           "torn" \notin regrets /\ script.at \in {"staged", "backed", "copying"} =>
               packages'[Program(script.target)] = packages[Program(script.target)],
           Running' => Running /\ updater'.version = updater.version,
           updater'.release \in {0, updater.release} \/ updater'.release > updater.version,
           ReadyFits => ReadyFits',
           updater'.ready => updater.ready /\ updater'.program = updater.program
    PROVE  UpdaterInv'
<1>1. /\ UNCHANGED <<keepsake, script, scriptFile, install, backup, regrets>>
      /\ Home' = Home /\ (Replacing' <=> Replacing)
  BY DEF installed, Home, Replacing
<1>2. ASSUME "torn" \notin regrets
      PROVE  HomeIsWhole' /\ ScriptGoesOn' /\ ClientIsInstalled'
  <2>1. HomeIsWhole /\ ScriptGoesOn /\ ClientIsInstalled
    BY <1>2 DEF UpdaterInv
  <2>2. HomeIsWhole'
    BY <1>1, <2>1 DEF HomeIsWhole
  <2>3. ScriptGoesOn'
    BY <1>1, <1>2, <2>1 DEF ScriptGoesOn
  <2>4. ClientIsInstalled'
    BY <1>1, <2>1 DEF ClientIsInstalled
  <2>5. QED
    BY <2>2, <2>3, <2>4
<1>3. ASSUME ModelsFit PROVE ModelsFit'
  <2>1. ReadyFits' /\ KeepsakeFits'
    BY <1>1, <1>3 DEF ModelsFit, KeepsakeFits
  <2>2. ScriptFits'
    BY <1>1, <1>3, Zenon DEF ModelsFit, ScriptFits
  <2>3. QED
    BY <1>1, <1>3, <2>1, <2>2 DEF ModelsFit, TrialFits
<1>4. QED
  BY <1>1, <1>2, <1>3 DEF UpdaterInv

\* The types of a step that leaves the script and the installation alone.
LEMMA ClientStepTyped ==
    ASSUME UpdaterTyped, UNCHANGED <<keepsake, installed, regrets>>,
           updater' \in Clients, FilesTyped', published' \in Versions, chances' \in Chances
    PROVE  UpdaterTyped'
BY Zenon DEF UpdaterTyped, ScriptTyped, installed

\* The check that follows the start.
LEMMA AutoCheckKeeps == ASSUME UpdaterInv, AutoCheck PROVE UpdaterInv'
<1> DEFINE u == [updater EXCEPT !.auto = FALSE]
<1>1. updater \in Clients /\ updater.auto
  BY DEF UpdaterInv, UpdaterTyped, AutoCheck
<1>2. u \in Clients
  BY <1>1, Zenon DEF Clients
<1>3. /\ u.at = updater.at /\ u.version = updater.version /\ u.release = updater.release
      /\ u.program = updater.program /\ u.models = updater.models /\ u.ready = updater.ready
      /\ u.recheck = updater.recheck /\ u.due = updater.due /\ ~u.auto /\ u.kind = updater.kind
  BY <1>1, Zenon DEF Clients
<1>4. updater' = CheckFrom(u, FALSE)
  BY DEF AutoCheck
<1> HIDE DEF u
<1>5. PICK byUser \in BOOLEAN : updater' = CheckFrom(u, byUser) /\ ~byUser
  BY <1>4, Zenon
<1>6. UNCHANGED <<downloads, installed, published, chances, regrets>>
  BY DEF AutoCheck
<1>7. /\ updater' \in Clients /\ AsBefore(updater', u)
      /\ u.at = "restoring" => updater'.at = "restoring" /\ updater'.recheck = "auto"
      /\ u.at = "idle" => updater'.at = "checking" /\ updater'.recheck = u.recheck
      /\ u.at \notin {"restoring", "idle"} => updater' = u
  BY <1>2, <1>5, CheckFromIs, Zenon
<1>8. UpdaterTyped'
  BY <1>6, <1>7, ClientStepTyped, Zenon DEF UpdaterInv, UpdaterTyped, FilesTyped, downloads
<1>9. ClientGoesOn' /\ ChecksEnd'
  BY <1>3, <1>7 DEF UpdaterInv, ClientGoesOn, ChecksEnd, Running, AsBefore
<1>10. ReadyFits => ReadyFits'
  BY <1>1, <1>3, <1>6, <1>7 DEF ReadyFits, ReleaseStays, Home, Replacing, installed, AsBefore
<1>11. QED
  BY <1>3, <1>6, <1>7, <1>8, <1>9, <1>10, ClientStep DEF downloads, Running, AsBefore

\* The answer to a check.
LEMMA FinishCheckKeeps == ASSUME UpdaterInv, FinishCheck PROVE UpdaterInv'
<1>1. updater \in Clients /\ updater.at = "checking" /\ published \in Versions
  BY DEF UpdaterInv, UpdaterTyped, FinishCheck
<1>2. UNCHANGED <<downloads, installed, published, chances, regrets>>
  BY DEF FinishCheck
<1>3. PICK release \in VersionsOrNone : \E due \in SUBSET {"download", "prepare"} :
        /\ updater' = [updater EXCEPT !.at = "idle", !.release = release, !.due = due]
        /\ release = 0 \/ release > updater.version
        /\ due \subseteq updater.due \cup IF updater.manual THEN {} ELSE {"download"}
  <2>1. CASE published > updater.version
    <3>1. PICK due \in SUBSET {"download", "prepare"} :
            due = IF updater.manual THEN updater.due ELSE updater.due \cup {"download"}
      <4>1. updater.due \in SUBSET {"download", "prepare"}
        BY <1>1, Zenon DEF Clients
      <4>2. QED
        BY <4>1, Zenon
    <3>2. updater' = [updater EXCEPT !.at = "idle", !.release = published, !.due = due]
      BY <2>1, <3>1, Zenon DEF FinishCheck
    <3>3. due \subseteq updater.due \cup IF updater.manual THEN {} ELSE {"download"}
      BY <3>1, Zenon
    <3>4. QED
      BY <1>1, <2>1, <3>2, <3>3, Bounds, Zenon
  <2>2. CASE ~(published > updater.version)
    <3>1. updater' = [updater EXCEPT !.at = "idle", !.release = 0]
      BY <2>2, Zenon DEF FinishCheck
    <3>2. [updater EXCEPT !.at = "idle", !.release = 0]
            = [updater EXCEPT !.at = "idle", !.release = 0, !.due = updater.due]
      BY <1>1, Zenon DEF Clients
    <3>3. updater.due \in SUBSET {"download", "prepare"}
      BY <1>1, Zenon DEF Clients
    <3>4. QED
      BY <3>1, <3>2, <3>3, Bounds, Zenon
  <2>3. QED
    BY <2>1, <2>2, Zenon
<1>4. PICK due \in SUBSET {"download", "prepare"} :
        /\ updater' = [updater EXCEPT !.at = "idle", !.release = release, !.due = due]
        /\ release = 0 \/ release > updater.version
        /\ due \subseteq updater.due \cup IF updater.manual THEN {} ELSE {"download"}
  BY <1>3, Zenon
<1>5. updater' \in Clients
  BY <1>1, <1>4, Zenon DEF Clients
<1>6. /\ updater'.at = "idle" /\ updater'.version = updater.version
      /\ updater'.release = release /\ updater'.due = due
      /\ updater'.program = updater.program /\ updater'.models = updater.models
      /\ updater'.ready = updater.ready /\ updater'.recheck = updater.recheck
      /\ updater'.auto = updater.auto
  BY <1>1, <1>4, Zenon DEF Clients
<1>7. "download" \in due => "download" \in updater.due \/ ~updater.manual
  BY <1>4, Zenon
<1>8. UpdaterTyped'
  BY <1>2, <1>5, ClientStepTyped, Zenon DEF UpdaterInv, UpdaterTyped, FilesTyped, downloads
<1>9. ClientGoesOn' /\ ChecksEnd'
  BY <1>1, <1>6, <1>7 DEF UpdaterInv, ClientGoesOn, ChecksEnd, Running
<1>10. ReadyFits => ReadyFits'
  BY <1>1, <1>2, <1>6 DEF ReadyFits, ReleaseStays, Home, Replacing, installed
<1>11. QED
  BY <1>1, <1>2, <1>4, <1>6, <1>8, <1>9, <1>10, ClientStep DEF downloads, Running

\* No answer to a check.
LEMMA FailCheckKeeps == ASSUME UpdaterInv, FailCheck PROVE UpdaterInv'
<1>1. updater \in Clients /\ updater.at = "checking" /\ chances \in Chances
  BY DEF UpdaterInv, UpdaterTyped, FailCheck
<1>2. updater' = [updater EXCEPT !.at = "idle"] /\ Fault
      /\ UNCHANGED <<downloads, installed, published, regrets>>
  BY DEF FailCheck
<1>3. updater' \in Clients
  BY <1>1, <1>2, Zenon DEF Clients
<1>4. /\ updater'.at = "idle" /\ updater'.version = updater.version
      /\ updater'.release = updater.release /\ updater'.due = updater.due
      /\ updater'.program = updater.program /\ updater'.models = updater.models
      /\ updater'.ready = updater.ready /\ updater'.recheck = updater.recheck
      /\ updater'.auto = updater.auto
  BY <1>1, <1>2, Zenon DEF Clients
<1>5. chances' \in Chances
  BY <1>1, <1>2, FaultUses
<1>6. UpdaterTyped'
  BY <1>2, <1>3, <1>5, ClientStepTyped, Zenon DEF UpdaterInv, UpdaterTyped, FilesTyped, downloads
<1>7. ClientGoesOn' /\ ChecksEnd'
  BY <1>1, <1>4 DEF UpdaterInv, ClientGoesOn, ChecksEnd, Running
<1>8. ReadyFits => ReadyFits'
  BY <1>1, <1>2, <1>4 DEF ReadyFits, ReleaseStays, Home, Replacing, installed
<1>9. QED
  BY <1>1, <1>2, <1>4, <1>6, <1>7, <1>8, ClientStep DEF downloads, Running

\* The packages are to be verified once more.
LEMMA AutoPrepareKeeps == ASSUME UpdaterInv, AutoPrepare PROVE UpdaterInv'
<1> DEFINE u == [updater EXCEPT !.due = @ \ {"prepare"}]
<1>1. updater \in Clients
  BY DEF UpdaterInv, UpdaterTyped
<1>2. u \in Clients
  <2>1. updater.due \ {"prepare"} \in SUBSET {"download", "prepare"}
    BY <1>1, Zenon DEF Clients
  <2>2. QED
    BY <1>1, <2>1, Zenon DEF Clients
<1>3. /\ u.at = updater.at /\ u.version = updater.version /\ u.release = updater.release
      /\ u.program = updater.program /\ u.models = updater.models /\ u.ready = updater.ready
      /\ u.recheck = updater.recheck /\ u.due = updater.due \ {"prepare"}
      /\ u.auto = updater.auto /\ u.kind = updater.kind /\ u.manual = updater.manual
  BY <1>1, Zenon DEF Clients
<1>4. updater' = Preparing(u) /\ UNCHANGED <<downloads, installed, published, chances, regrets>>
  BY DEF AutoPrepare
<1> HIDE DEF u
<1>5. /\ updater' \in Clients /\ AsBefore(updater', u)
      /\ updater'.recheck = u.recheck /\ updater'.manual = u.manual /\ updater'.kind = u.kind
      /\ updater'.at = u.at \/ (u.at = "idle" /\ u.ready /\ updater'.at = "verifying")
  BY <1>2, <1>4, PreparingIs, Zenon
<1>6. UpdaterTyped'
  BY <1>4, <1>5, ClientStepTyped, Zenon DEF UpdaterInv, UpdaterTyped, FilesTyped, downloads
<1>7. ClientGoesOn' /\ ChecksEnd'
  BY <1>3, <1>5 DEF UpdaterInv, ClientGoesOn, ChecksEnd, Running, AsBefore
<1>8. ReadyFits => ReadyFits'
  BY <1>3, <1>4, <1>5 DEF ReadyFits, ReleaseStays, Home, Replacing, installed, AsBefore
<1>9. QED
  BY <1>3, <1>4, <1>5, <1>6, <1>7, <1>8, ClientStep DEF downloads, Running, AsBefore

\* The packages have been verified.
LEMMA VerifyKeeps == ASSUME UpdaterInv, Verify PROVE UpdaterInv'
<1>1. updater \in Clients /\ updater.at = "verifying"
  BY DEF UpdaterInv, UpdaterTyped, Verify
<1>2. UNCHANGED <<downloads, installed, published, chances, regrets>>
  BY DEF Verify
<1>3. PICK sound \in BOOLEAN : sound = Matches(updater.release, updater.program, updater.models)
  BY Zenon DEF Matches
<1>4. PICK signed : 
        /\ signed \in SUBSET Files
        /\ signed = IF ~sound THEN updater.signed ELSE {Program(updater.program)} \cup
                (IF updater.models = 0 THEN {} ELSE {Models(updater.models)})
  <2>1. updater.signed \in SUBSET Files
    BY <1>1, Zenon DEF Clients
  <2>2. updater.release \in VersionsOrNone /\ updater.program \in VersionsOrNone
        /\ updater.models \in VersionsOrNone
    BY <1>1, Zenon DEF Clients
  <2>3. sound => Program(updater.program) \in Files
                 /\ (updater.models # 0 => Models(updater.models) \in Files)
    BY <1>3, <2>2, MatchesIs
  <2>4. QED
    BY <2>1, <2>3, Zenon
<1> DEFINE u == [updater EXCEPT !.at = "idle", !.checked = sound, !.signed = signed]
<1>5. u \in Clients
  BY <1>1, <1>4, Zenon DEF Clients
<1>6. /\ u.at = "idle" /\ u.version = updater.version /\ u.release = updater.release
      /\ u.program = updater.program /\ u.models = updater.models /\ u.ready = updater.ready
      /\ u.recheck = updater.recheck /\ u.due = updater.due /\ u.auto = updater.auto
  BY <1>1, <1>4, Zenon DEF Clients
<1>7. updater' = Recheck(u)
  BY <1>3, <1>4, Zenon DEF Verify
<1> HIDE DEF u
<1>8. /\ updater' \in Clients /\ AsBefore(updater', u) /\ updater'.recheck = "no"
      /\ u.recheck = "no" => updater'.at = u.at
      /\ u.recheck # "no" => updater'.at = "checking"
      /\ u.recheck = "manual" => updater'.manual
  BY <1>5, <1>7, RecheckIs, Zenon
<1>9. UpdaterTyped'
  BY <1>2, <1>8, ClientStepTyped, Zenon DEF UpdaterInv, UpdaterTyped, FilesTyped, downloads
<1>10. updater.recheck \in {"no", "auto", "manual"}
  BY <1>1, Zenon DEF Clients
<1>11. ClientGoesOn' /\ ChecksEnd'
  BY <1>1, <1>6, <1>8, <1>10 DEF UpdaterInv, ClientGoesOn, ChecksEnd, Running, AsBefore
<1>12. ReadyFits => ReadyFits'
  BY <1>1, <1>2, <1>6, <1>8 DEF ReadyFits, ReleaseStays, Home, Replacing, installed, AsBefore
<1>13. QED
  BY <1>1, <1>2, <1>6, <1>8, <1>9, <1>11, <1>12, ClientStep DEF downloads, Running, AsBefore

\* More of a file, or something else in its place.
LEMMA ReceiveKeeps == ASSUME UpdaterInv, ReceiveData \/ ReceiveOther PROVE UpdaterInv'
<1>1. /\ UNCHANGED <<updater, packages, keepsake, installed, published, regrets>>
      /\ UNCHANGED chances \/ Fault
      /\ \E state \in {"some", "whole", "bad"} : parts' = [parts EXCEPT ![Target] = state]
  BY Zenon DEF ReceiveData, ReceiveOther
<1>2. FilesTyped' /\ chances' \in Chances
  BY <1>1, FaultUses DEF UpdaterInv, UpdaterTyped, FilesTyped
<1>3. UpdaterTyped'
  BY <1>1, <1>2, ClientStepTyped, Zenon DEF UpdaterInv, UpdaterTyped
<1>4. ClientGoesOn' /\ ChecksEnd' /\ (ReadyFits => ReadyFits')
  BY <1>1 DEF UpdaterInv, ClientGoesOn, ChecksEnd, Running, ReadyFits, ReleaseStays, Home,
    Replacing, installed
<1>5. QED
  BY <1>1, <1>3, <1>4, ClientStep DEF Running

\* The other source is tried, or the download is given up.
LEMMA FallbackKeeps ==
    ASSUME UpdaterInv, updater.at \in {"fetching", "refused"}, Fallback,
           UNCHANGED <<packages, keepsake, installed, published, regrets>>,
           FilesTyped', chances' \in Chances
    PROVE  UpdaterInv'
<1>1. updater \in Clients
  BY DEF UpdaterInv, UpdaterTyped
<1>2. PICK at \in {"fetching", "refused", "idle"} :
        \/ updater' = [updater EXCEPT !.at = at]
        \/ updater' = [updater EXCEPT !.mirror = FALSE, !.at = at]
  <2>1. CASE updater.mirror
    <3>1. [[updater EXCEPT !.mirror = FALSE] EXCEPT !.at = "refused"]
            = [updater EXCEPT !.mirror = FALSE, !.at = "refused"]
      BY <1>1, Zenon DEF Clients
    <3>2. [[updater EXCEPT !.mirror = FALSE] EXCEPT !.at = "fetching"]
            = [updater EXCEPT !.mirror = FALSE, !.at = "fetching"]
      BY <1>1, Zenon DEF Clients
    <3>3. QED
      BY <2>1, <3>1, <3>2, Zenon DEF Fallback
  <2>2. CASE ~updater.mirror
    BY <2>2, Zenon DEF Fallback
  <2>3. QED
    BY <2>1, <2>2, Zenon
<1>3. updater' \in Clients
  BY <1>1, <1>2, Zenon DEF Clients, Working
<1>4. /\ AsBefore(updater', updater) /\ updater'.recheck = updater.recheck
      /\ updater'.kind = updater.kind /\ updater'.at = at
  BY <1>1, <1>2, Zenon DEF Clients, AsBefore
<1>5. UpdaterTyped'
  BY <1>3, ClientStepTyped, Zenon DEF UpdaterInv, UpdaterTyped
<1>6. ClientGoesOn' /\ ChecksEnd'
  BY <1>4 DEF UpdaterInv, ClientGoesOn, ChecksEnd, Running, AsBefore
<1>7. ReadyFits => ReadyFits'
  BY <1>4 DEF ReadyFits, ReleaseStays, Home, Replacing, installed, AsBefore
<1>8. QED
  BY <1>4, <1>5, <1>6, <1>7, ClientStep DEF Running, AsBefore

\* A download fails.
LEMMA FailKeeps ==
    ASSUME UpdaterInv, FailIntegrity \/ FailHttp \/ FailTransport PROVE UpdaterInv'
<1>1. /\ updater.at \in {"fetching", "refused"} /\ Fallback
      /\ UNCHANGED <<packages, keepsake, installed, published, regrets>>
      /\ UNCHANGED chances \/ Fault
      /\ parts' \in {parts, [parts EXCEPT ![Target] = "none"]}
  BY DEF FailIntegrity, FailHttp, FailTransport
<1>2. FilesTyped' /\ chances' \in Chances
  BY <1>1, FaultUses DEF UpdaterInv, UpdaterTyped, FilesTyped
<1>3. QED
  BY <1>1, <1>2, FallbackKeeps

\* Another release is published, or a package that no script uses is damaged.
LEMMA WorldKeeps == ASSUME UpdaterInv, Release \/ Damage PROVE UpdaterInv'
<1>1. UNCHANGED <<updater, keepsake, installed, regrets>>
  BY DEF Release, Damage, downloads
<1>2. CASE Release
  <2>1. UNCHANGED <<packages, parts>> /\ published' \in Versions
        /\ chances' = [chances EXCEPT !.publishes = @ - 1] /\ chances.publishes > 0
    BY <1>2 DEF Release, downloads
  <2>2. chances' \in Chances /\ FilesTyped'
    BY <2>1, UpdaterAssumption DEF UpdaterInv, UpdaterTyped, Chances, FilesTyped
  <2>3. UpdaterTyped'
    BY <1>1, <2>1, <2>2, ClientStepTyped, Zenon DEF UpdaterInv, UpdaterTyped
  <2>4. ClientGoesOn' /\ ChecksEnd' /\ (ReadyFits => ReadyFits')
    BY <1>1 DEF UpdaterInv, ClientGoesOn, ChecksEnd, Running, ReadyFits, ReleaseStays, Home,
      Replacing, installed
  <2>5. QED
    BY <1>1, <2>1, <2>3, <2>4, ClientStep DEF Running
<1>3. CASE Damage
  <2>1. /\ UNCHANGED <<parts, published>> /\ Fault /\ script.at \in {"none", "waiting"}
        /\ \E f \in Files : packages' = [packages EXCEPT ![f] = "bad"]
    BY <1>3 DEF Damage
  <2>2. chances' \in Chances /\ FilesTyped'
    BY <2>1, FaultUses DEF UpdaterInv, UpdaterTyped, FilesTyped
  <2>3. UpdaterTyped'
    BY <1>1, <2>1, <2>2, ClientStepTyped, Zenon DEF UpdaterInv, UpdaterTyped
  <2>4. ClientGoesOn' /\ ChecksEnd' /\ (ReadyFits => ReadyFits')
    BY <1>1 DEF UpdaterInv, ClientGoesOn, ChecksEnd, Running, ReadyFits, ReleaseStays, Home,
      Replacing, installed
  <2>5. QED
    BY <1>1, <2>1, <2>3, <2>4, ClientStep DEF Running
<1>4. QED
  BY <1>2, <1>3

\* A check by the user leaves the installation alone,
LEMMA CheckByUserStep ==
    ASSUME UpdaterInv, updater.at \in {"restoring", "idle"}, ~updater.ready,
           AsBefore(updater', updater), updater' \in Clients, ClientGoesOn', ChecksEnd',
           UNCHANGED <<downloads, installed, published, regrets>>, chances' \in Chances
    PROVE  UpdaterInv'
<1>1. UpdaterTyped'
  BY ClientStepTyped, Zenon DEF UpdaterInv, UpdaterTyped, FilesTyped, downloads
<1>2. ReadyFits'
  BY DEF ReadyFits, AsBefore
<1>3. QED
  BY <1>1, <1>2, ClientStep DEF Running, AsBefore, downloads

\* ... and waits for the restoration or begins.
LEMMA CheckByUserKeeps ==
    ASSUME UpdaterInv, updater.at \in {"restoring", "idle"}, ~updater.ready,
           updater.release = 0, updater' = CheckFrom(updater, TRUE),
           UNCHANGED <<downloads, installed, published, regrets>>, chances' \in Chances
    PROVE  UpdaterInv'
<1>1. updater \in Clients
  BY DEF UpdaterInv, UpdaterTyped
<1>2. CASE updater.at = "restoring"
  <2>1. updater' = [updater EXCEPT !.recheck = "manual"]
    BY <1>2, Zenon DEF CheckFrom
  <2>2. updater' \in Clients
    BY <1>1, <2>1, Zenon DEF Clients
  <2>3. AsBefore(updater', updater) /\ updater'.at = updater.at /\ updater'.recheck = "manual"
    BY <1>1, <2>1, Zenon DEF Clients, AsBefore
  <2>4. ClientGoesOn' /\ ChecksEnd'
    BY <1>2, <2>3 DEF UpdaterInv, ClientGoesOn, ChecksEnd, Running, AsBefore
  <2>5. QED
    BY <1>2, <2>2, <2>3, <2>4, CheckByUserStep
<1>3. CASE updater.at = "idle"
  <2>1. updater' = [updater EXCEPT !.at = "checking", !.manual = TRUE]
    BY <1>3, Zenon DEF CheckFrom
  <2>2. updater' \in Clients
    BY <1>1, <2>1, Zenon DEF Clients, Working
  <2>3. /\ AsBefore(updater', updater) /\ updater'.recheck = updater.recheck
        /\ updater'.at = "checking" /\ updater'.manual
    BY <1>1, <2>1, Zenon DEF Clients, AsBefore
  <2>4. ClientGoesOn' /\ ChecksEnd'
    BY <1>3, <2>3 DEF UpdaterInv, ClientGoesOn, ChecksEnd, Running, AsBefore
  <2>5. QED
    BY <1>3, <2>2, <2>3, <2>4, CheckByUserStep
<1>4. QED
  BY <1>2, <1>3

-----------------------------------------------------------------------------
(* The downloads.                                                          *)

\* A complete download that needs no models, or has them, is remembered.
LEMMA CompletedKeeps ==
    ASSUME UpdaterInv, NEW u \in Clients, Completed(u), Running,
           u.version = updater.version, u.release = updater.release, u.auto = updater.auto,
           u.recheck = "no", u.due \subseteq updater.due, u.release # 0, u.program # 0,
           u.models = 0 =>
               ModelOf[u.release] = install.models /\ (u.program = u.release \/ ~u.auto),
           UNCHANGED <<installed, published>>, FilesTyped', chances' \in Chances,
           "torn" \notin regrets /\ script.at \in {"staged", "backed", "copying"} =>
               packages'[Program(script.target)] = packages[Program(script.target)]
    PROVE  UpdaterInv'
<1>1. /\ UNCHANGED <<script, scriptFile, install, backup>>
      /\ Home' = Home /\ (Replacing' <=> Replacing)
  BY DEF installed, Home, Replacing
<1>2. PICK due \in SUBSET {"download", "prepare"} : due = u.due \cup {"prepare"}
  <2>1. u.due \in SUBSET {"download", "prepare"}
    BY Zenon DEF Clients
  <2>2. QED
    BY <2>1, Zenon
<1>3. updater' = [u EXCEPT !.at = "idle", !.ready = TRUE, !.due = due]
  BY <1>2, Zenon DEF Completed
<1>4. updater' \in Clients
  BY <1>3, Zenon DEF Clients
<1>5. /\ updater'.at = "idle" /\ updater'.ready /\ updater'.due = due
      /\ updater'.version = u.version /\ updater'.release = u.release
      /\ updater'.program = u.program /\ updater'.models = u.models
      /\ updater'.auto = u.auto /\ updater'.recheck = u.recheck
  BY <1>3, Zenon DEF Clients
<1>6. keepsake' = [release |-> u.release, program |-> u.program, models |-> u.models]
      /\ regrets' = IF script.at # "none" THEN regrets \cup {"untried"} ELSE regrets
  BY DEF Completed
<1>7. /\ u.release \in VersionsOrNone /\ u.program \in VersionsOrNone
      /\ u.models \in VersionsOrNone
  BY Zenon DEF Clients
<1>8. UpdaterTyped'
  <2>1. keepsake' \in Keepsakes
    BY <1>6, <1>7 DEF Keepsakes
  <2>2. regrets' \subseteq {"torn", "untried"}
    BY <1>6 DEF UpdaterInv, UpdaterTyped
  <2>3. QED
    BY <1>1, <1>4, <2>1, <2>2, Zenon DEF UpdaterInv, UpdaterTyped, ScriptTyped
<1>9. ClientGoesOn' /\ ChecksEnd'
  BY <1>2, <1>5 DEF UpdaterInv, ClientGoesOn, ChecksEnd, Running
<1>10. ASSUME "torn" \notin regrets'
       PROVE  HomeIsWhole' /\ ScriptGoesOn' /\ ClientIsInstalled'
  <2>1. HomeIsWhole /\ ScriptGoesOn /\ ClientIsInstalled
    BY <1>6, <1>10 DEF UpdaterInv
  <2>2. HomeIsWhole'
    BY <1>1, <2>1 DEF HomeIsWhole
  <2>3. ScriptGoesOn'
    BY <1>1, <1>6, <1>10, <2>1 DEF ScriptGoesOn
  <2>4. ClientIsInstalled'
    BY <1>1, <1>5, <2>1 DEF ClientIsInstalled
  <2>5. QED
    BY <2>2, <2>3, <2>4
<1>11. ASSUME "torn" \notin regrets', "untried" \notin regrets'
       PROVE  ModelsFit'
  <2>1. script.at = "none" /\ "torn" \notin regrets /\ "untried" \notin regrets
    BY <1>6, <1>11
  <2>2. ModelsFit
    BY <2>1 DEF UpdaterInv
  <2>3. Home' = install /\ script'.at = "none"
    BY <1>1, <2>1 DEF Home, Replacing
  <2>4. ReadyFits'
    BY <1>1, <1>5, <2>3 DEF ReadyFits, ReleaseStays
  <2>5. /\ keepsake'.release = u.release /\ keepsake'.program = u.program
        /\ keepsake'.models = u.models
    BY <1>6
  <2>6. KeepsakeFits'
    BY <1>1, <2>3, <2>5 DEF KeepsakeFits
  <2>7. ScriptFits'
    BY <1>5, <2>3, <2>5 DEF ScriptFits
  <2>8. QED
    BY <1>1, <2>2, <2>3, <2>4, <2>6, <2>7 DEF ModelsFit, TrialFits
<1>12. QED
  BY <1>8, <1>9, <1>10, <1>11 DEF UpdaterInv

\* A download by the timer or the user; a program that is there but not that of the
\* release means that the checks have ended.
LEMMA DownloadKeeps ==
    ASSUME UpdaterInv, NEW u \in Clients, Download(u),
           u.at = updater.at, u.version = updater.version, u.release = updater.release,
           u.program = updater.program, u.models = updater.models, u.ready = updater.ready,
           u.auto = updater.auto, u.recheck = updater.recheck, u.kind = updater.kind,
           u.manual = updater.manual, u.due \subseteq updater.due,
           u.at = "idle" /\ u.program # 0 /\ u.program # u.release => ~u.auto,
           UNCHANGED <<packages, parts, installed, published>>, chances' \in Chances
    PROVE  UpdaterInv'
<1>1. FilesTyped'
  BY DEF UpdaterInv, UpdaterTyped, FilesTyped
<1>2. CASE UNCHANGED <<keepsake, regrets>> /\
        \/ updater' = u
        \/ /\ u.at = "idle" /\ u.release # 0
           /\ \/ u.program = 0 /\ updater' = Begun(u, "program")
              \/ u.program # 0 /\ updater' = Begun(u, "models")
  <2>1. updater' \in Clients
    BY <1>2, BegunIs, Zenon
  <2>2. AsBefore(updater', u) /\ updater'.recheck = u.recheck /\ updater'.manual = u.manual
    <3>1. CASE updater' = u
      BY <3>1, Zenon DEF AsBefore
    <3>2. ASSUME NEW kind \in {"program", "models"}, updater' = Begun(u, kind)
          PROVE  AsBefore(updater', u) /\ updater'.recheck = u.recheck /\ updater'.manual = u.manual
      BY <3>2, BegunIs, Zenon
    <3>3. QED
      BY <1>2, <3>1, <3>2, Zenon
  <2>3. \/ updater'.at = u.at /\ updater'.kind = u.kind
        \/ /\ u.at = "idle" /\ u.release # 0 /\ updater'.at \in {"fetching", "refused"}
           /\ (updater'.kind = "program" <=> u.program = 0)
    <3>1. ASSUME NEW kind \in {"program", "models"}, updater' = Begun(u, kind)
          PROVE  updater'.at \in {"fetching", "refused"} /\ updater'.kind = kind
      BY <3>1, BegunIs, Zenon
    <3>2. QED
      BY <1>2, <3>1
  <2>4. UpdaterTyped'
    BY <1>1, <1>2, <2>1, ClientStepTyped, Zenon DEF UpdaterInv, UpdaterTyped
  <2>5. ClientGoesOn' /\ ChecksEnd'
    BY <2>2, <2>3 DEF UpdaterInv, ClientGoesOn, ChecksEnd, Running, AsBefore
  <2>6. ReadyFits => ReadyFits'
    BY <2>2, <2>3 DEF ReadyFits, ReleaseStays, Home, Replacing, installed, AsBefore
  <2>7. QED
    BY <1>2, <2>2, <2>3, <2>4, <2>5, <2>6, ClientStep DEF Running, AsBefore
<1>3. CASE /\ u.at = "idle" /\ u.release # 0 /\ u.program # 0 /\ ~NeedsModels(u)
           /\ Completed([u EXCEPT !.models = 0])
  <2> DEFINE v == [u EXCEPT !.models = 0]
  <2>1. v \in Clients
    BY Bounds, Zenon DEF Clients
  <2>2. /\ v.at = u.at /\ v.version = u.version /\ v.release = u.release
        /\ v.program = u.program /\ v.models = 0 /\ v.due = u.due /\ v.recheck = u.recheck
        /\ v.auto = u.auto
    BY Zenon DEF Clients
  <2>3. Completed(v)
    BY <1>3
  <2> HIDE DEF v
  <2>4. u.recheck = "no"
    BY <1>3 DEF UpdaterInv, ClientGoesOn
  <2>5. ModelOf[v.release] = install.models /\ (v.program = v.release \/ ~v.auto)
    BY <1>3, <2>2 DEF NeedsModels
  <2>6. Running
    BY <1>3 DEF Running
  <2>7. QED
    BY <1>1, <1>3, <2>1, <2>2, <2>3, <2>4, <2>5, <2>6, CompletedKeeps
<1>4. QED
  BY <1>2, <1>3, Zenon DEF Download

\* The download that follows the check.
LEMMA AutoDownloadKeeps == ASSUME UpdaterInv, AutoDownload PROVE UpdaterInv'
<1> DEFINE u == [updater EXCEPT !.due = @ \ {"download"}]
<1>1. updater \in Clients /\ "download" \in updater.due
  BY DEF UpdaterInv, UpdaterTyped, AutoDownload
<1>2. PICK due \in SUBSET {"download", "prepare"} : due = updater.due \ {"download"}
  <2>1. updater.due \in SUBSET {"download", "prepare"}
    BY <1>1, Zenon DEF Clients
  <2>2. QED
    BY <2>1, Zenon
<1>3. u = [updater EXCEPT !.due = due]
  BY <1>2, Zenon
<1>4. u \in Clients
  BY <1>1, <1>3, Zenon DEF Clients
<1>5. /\ u.at = updater.at /\ u.version = updater.version /\ u.release = updater.release
      /\ u.program = updater.program /\ u.models = updater.models /\ u.ready = updater.ready
      /\ u.auto = updater.auto /\ u.recheck = updater.recheck /\ u.kind = updater.kind
      /\ u.manual = updater.manual /\ u.due = due
  BY <1>1, <1>3, Zenon DEF Clients
<1>6. Download(u) /\ UNCHANGED <<packages, parts, installed, published, chances>>
  BY DEF AutoDownload
<1> HIDE DEF u
<1>7. ~u.auto
  BY <1>1, <1>5 DEF UpdaterInv, ChecksEnd
<1>8. chances' \in Chances /\ u.due \subseteq updater.due
  BY <1>2, <1>5, <1>6 DEF UpdaterInv, UpdaterTyped
<1>9. QED
  BY <1>4, <1>5, <1>6, <1>7, <1>8, DownloadKeeps, Zenon

\* The download of a file is complete.
LEMMA FinishDownloadKeeps == ASSUME UpdaterInv, FinishDownload PROVE UpdaterInv'
<1>1. /\ updater \in Clients /\ updater.at = "fetching" /\ Running
      /\ UNCHANGED <<installed, published, chances>>
      /\ parts' = [parts EXCEPT ![Target] = "none"]
      /\ packages' = [packages EXCEPT ![Target] = "good"]
  BY DEF UpdaterInv, UpdaterTyped, FinishDownload, Running
<1>2. FilesTyped' /\ chances' \in Chances
  BY <1>1 DEF UpdaterInv, UpdaterTyped, FilesTyped
<1>3. updater.release \in Versions /\ ModelOf[updater.release] \in Versions
  <2>1. updater.release \in VersionsOrNone
    BY <1>1, Zenon DEF Clients
  <2>2. QED
    BY <1>1, <2>1, Bounds DEF UpdaterInv, ClientGoesOn
<1>4. updater.recheck = "no"
  BY <1>1 DEF UpdaterInv, ClientGoesOn
<1>5. \A f \in Files : packages[f] = "good" => packages'[f] = "good"
  BY <1>1 DEF UpdaterInv, UpdaterTyped, FilesTyped
<1>6. ASSUME "torn" \notin regrets, script.at \in {"staged", "backed", "copying"}
      PROVE  packages'[Program(script.target)] = packages[Program(script.target)]
  <2>1. script.target \in Versions /\ packages[Program(script.target)] = "good"
    BY <1>6 DEF UpdaterInv, ScriptGoesOn
  <2>2. QED
    BY <1>5, <2>1, Bounds
<1>7. CASE updater.kind = "models"
  <2> DEFINE u == [updater EXCEPT !.models = ModelOf[updater.release]]
  <2>1. u \in Clients
    BY <1>1, <1>3, Bounds, Zenon DEF Clients
  <2>2. /\ u.version = updater.version /\ u.release = updater.release
        /\ u.program = updater.program /\ u.models = ModelOf[updater.release]
        /\ u.due = updater.due /\ u.recheck = updater.recheck /\ u.auto = updater.auto
    BY <1>1, <1>3, Bounds, Zenon DEF Clients
  <2>3. Completed(u)
    BY <1>7, Zenon DEF FinishDownload
  <2> HIDE DEF u
  <2>4. u.release # 0 /\ u.program # 0 /\ u.models # 0
    BY <1>1, <1>3, <1>7, <2>2, Bounds DEF UpdaterInv, ClientGoesOn
  <2>5. QED
    BY <1>1, <1>2, <1>4, <1>6, <2>1, <2>2, <2>3, <2>4, CompletedKeeps
<1>8. CASE updater.kind = "program"
  <2> DEFINE u == [updater EXCEPT !.program = updater.release]
  <2>1. u \in Clients
    BY <1>1, <1>3, Bounds, Zenon DEF Clients
  <2>2. /\ u.at = updater.at /\ u.version = updater.version /\ u.release = updater.release
        /\ u.program = updater.release /\ u.models = updater.models
        /\ u.due = updater.due /\ u.recheck = updater.recheck /\ u.auto = updater.auto
        /\ u.ready = updater.ready
    BY <1>1, <1>3, Bounds, Zenon DEF Clients
  <2>3. IF NeedsModels(u) THEN updater' = Begun(u, "models") /\ UNCHANGED <<keepsake, regrets>>
        ELSE Completed(u)
    BY <1>8, Zenon DEF FinishDownload
  <2> HIDE DEF u
  <2>4. ~updater.ready /\ updater.release # 0
    BY <1>1, <1>8 DEF UpdaterInv, ClientGoesOn
  <2>5. CASE NeedsModels(u)
    <3>1. PICK kind \in {"program", "models"} : kind = "models" /\ updater' = Begun(u, kind)
      BY <2>3, <2>5, Zenon
    <3>2. /\ updater' \in Clients /\ AsBefore(updater', u) /\ updater'.recheck = u.recheck
          /\ updater'.at \in {"fetching", "refused"} /\ updater'.kind = kind
      BY <2>1, <3>1, BegunIs, Zenon
    <3>3. UpdaterTyped'
      BY <1>1, <1>2, <2>3, <2>5, <3>2, ClientStepTyped, Zenon DEF UpdaterInv, UpdaterTyped
    <3>4. ClientGoesOn' /\ ChecksEnd'
      BY <1>1, <2>2, <2>4, <3>1, <3>2 DEF UpdaterInv, ClientGoesOn, ChecksEnd, Running, AsBefore
    <3>5. ReadyFits'
      BY <2>2, <2>4, <3>2 DEF ReadyFits, AsBefore
    <3>6. UNCHANGED <<keepsake, installed, regrets>>
      BY <1>1, <2>3, <2>5
    <3>7. QED
      BY <1>1, <1>6, <2>2, <2>4, <3>2, <3>3, <3>4, <3>5, <3>6, ClientStep DEF Running, AsBefore
  <2>6. CASE ~NeedsModels(u)
    <3>1. Completed(u) /\ ModelOf[u.release] = install.models
      BY <2>3, <2>6 DEF NeedsModels
    <3>2. QED
      BY <1>1, <1>2, <1>4, <1>6, <2>1, <2>2, <2>4, <3>1, CompletedKeeps
  <2>7. QED
    BY <2>5, <2>6
<1>9. QED
  <2>1. updater.kind \in {"program", "models"}
    BY <1>1, Zenon DEF Clients
  <2>2. QED
    BY <1>7, <1>8, <2>1

-----------------------------------------------------------------------------
(* The client starts and ends.                                             *)

\* A client that has just started, or none, has nothing it could do wrong.
LEMMA FreshClient ==
    ASSUME \/ updater' = Off
           \/ \E v \in VersionsOrNone :
                updater' = [Off EXCEPT !.at = "restoring", !.version = v, !.auto = TRUE]
    PROVE  /\ updater' \in Clients /\ ClientGoesOn' /\ ChecksEnd' /\ ReadyFits'
           /\ ~updater'.ready /\ updater'.release = 0
<1>1. CASE updater' = Off
  <2>1. /\ updater' \in Clients
        /\ updater'.at = "off" /\ updater'.program = 0 /\ updater'.release = 0
        /\ updater'.recheck = "no" /\ updater'.due = {} /\ ~updater'.ready /\ ~updater'.auto
    BY <1>1, OffIs
  <2>2. QED
    BY <2>1 DEF ClientGoesOn, ChecksEnd, ReadyFits, Running
<1>2. CASE \E v \in VersionsOrNone :
        updater' = [Off EXCEPT !.at = "restoring", !.version = v, !.auto = TRUE]
  <2>1. /\ updater' \in Clients
        /\ updater'.at = "restoring" /\ updater'.program = 0 /\ updater'.release = 0
        /\ updater'.recheck = "no" /\ updater'.due = {} /\ ~updater'.ready
    <3>1. PICK v \in VersionsOrNone :
            updater' = [Off EXCEPT !.at = "restoring", !.version = v, !.auto = TRUE]
      BY <1>2, Zenon
    <3>2. updater' \in Clients
      BY <3>1, StartedIs, Zenon
    <3>3. /\ updater'.at = "restoring" /\ updater'.program = 0 /\ updater'.release = 0
          /\ updater'.recheck = "no" /\ updater'.due = {}
      BY <3>1, StartedIs, Zenon
    <3>4. ~updater'.ready
      BY <3>1, StartedIs, Zenon
    <3>5. QED
      BY <3>2, <3>3, <3>4, Zenon
  <2>2. QED
    BY <2>1 DEF ClientGoesOn, ChecksEnd, ReadyFits, Running
<1>3. QED
  BY <1>1, <1>2

\* The client that starts is the installed one.
LEMMA StartedRuns ==
    ASSUME install \in Installs, updater' = Started
    PROVE  /\ \E v \in VersionsOrNone :
                updater' = [Off EXCEPT !.at = "restoring", !.version = v, !.auto = TRUE]
           /\ Running' /\ updater'.version = install.program
<1>1. install.program \in VersionsOrNone
  BY DEF Installs
<1>2. updater' = [Off EXCEPT !.at = "restoring", !.version = install.program, !.auto = TRUE]
  BY DEF Started
<1>3. updater'.at = "restoring" /\ updater'.version = install.program
  BY <1>1, <1>2, StartedIs, Zenon
<1>4. QED
  BY <1>1, <1>2, <1>3 DEF Running

\* The user starts the client.
LEMMA StartClientKeeps == ASSUME UpdaterInv, StartClient PROVE UpdaterInv'
<1>1. /\ updater.at = "off" /\ updater' = Started
      /\ script.at \in {"none", "waiting", "staged", "backed"}
      /\ UNCHANGED <<packages, parts, keepsake, script, scriptFile, install, backup, published,
            regrets>>
      /\ UNCHANGED chances \/ Fault
  BY DEF StartClient, downloads, installed
<1>2. install \in Installs /\ chances \in Chances
  BY DEF UpdaterInv, UpdaterTyped, ScriptTyped
<1>3. Running' /\ updater'.version = install.program
  BY <1>1, <1>2, StartedRuns
<1>4. /\ updater' \in Clients /\ ClientGoesOn' /\ ChecksEnd' /\ ReadyFits'
      /\ ~updater'.ready /\ updater'.release = 0
  BY <1>1, <1>2, StartedRuns, FreshClient, Zenon
<1>5. UpdaterTyped'
  <2>1. FilesTyped' /\ chances' \in Chances
    BY <1>1, <1>2, FaultUses DEF UpdaterInv, UpdaterTyped, FilesTyped
  <2>2. QED
    BY <1>1, <1>4, <2>1, Zenon DEF UpdaterInv, UpdaterTyped, ScriptTyped
<1>6. Home' = install /\ Home = install
  BY <1>1 DEF Home, Replacing
<1>7. ASSUME "torn" \notin regrets
      PROVE  HomeIsWhole' /\ ScriptGoesOn' /\ ClientIsInstalled'
  <2>1. HomeIsWhole /\ ScriptGoesOn
    BY <1>7 DEF UpdaterInv
  <2>2. HomeIsWhole'
    BY <1>6, <2>1 DEF HomeIsWhole
  <2>3. ScriptGoesOn'
    BY <1>1, <2>1 DEF ScriptGoesOn
  <2>4. ClientIsInstalled'
    BY <1>1, <1>3, <1>4, <1>6 DEF ClientIsInstalled
  <2>5. QED
    BY <2>2, <2>3, <2>4
<1>8. ASSUME ModelsFit PROVE ModelsFit'
  <2>1. KeepsakeFits'
    BY <1>1, <1>6, <1>8 DEF ModelsFit, KeepsakeFits
  <2>2. ScriptFits'
    BY <1>1, <1>4, <1>6, <1>8 DEF ModelsFit, ScriptFits
  <2>3. QED
    BY <1>1, <1>4, <1>6, <1>8, <2>1, <2>2 DEF ModelsFit, TrialFits
<1>9. QED
  BY <1>1, <1>4, <1>5, <1>7, <1>8 DEF UpdaterInv

\* The client is closed without a script.
LEMMA CloseKeeps ==
    ASSUME UpdaterInv, updater' = Off, UNCHANGED <<downloads, installed, published, regrets>>,
           chances' \in Chances
    PROVE  UpdaterInv'
<1>1. /\ updater' \in Clients /\ ClientGoesOn' /\ ChecksEnd' /\ ReadyFits'
      /\ ~updater'.ready /\ updater'.release = 0
  BY FreshClient, Zenon
<1>2. ~Running'
  BY OffIs DEF Running
<1>3. UpdaterTyped'
  BY <1>1, ClientStepTyped, Zenon DEF UpdaterInv, UpdaterTyped, FilesTyped, downloads
<1>4. QED
  BY <1>1, <1>2, <1>3, ClientStep DEF downloads

\* What was downloaded is restored, and old files are cleaned up.
LEMMA RestoreUpdateKeeps == ASSUME UpdaterInv, RestoreUpdate PROVE UpdaterInv'
<1>1. /\ updater \in Clients /\ updater.at = "restoring" /\ updater.program = 0
      /\ ~updater.ready /\ Running /\ keepsake \in Keepsakes
      /\ keepsake.release \in VersionsOrNone /\ keepsake.program \in VersionsOrNone
      /\ keepsake.models \in VersionsOrNone
  BY DEF UpdaterInv, UpdaterTyped, ClientGoesOn, RestoreUpdate, Running, Keepsakes
<1>2. /\ keepsake' \in {keepsake, NoKeepsake} /\ (Restorable => keepsake' = keepsake)
      /\ FilesTyped' /\ scriptFile' \in BOOLEAN
      /\ UNCHANGED packages \/ script.at = "none"
      /\ UNCHANGED <<script, install, backup, published, chances, regrets>>
  <2>1. FilesTyped
    BY DEF UpdaterInv, UpdaterTyped
  <2>2. FilesTyped'
    BY <2>1, Zenon DEF RestoreUpdate, FilesTyped
  <2>3. scriptFile \in BOOLEAN
    BY Zenon DEF UpdaterInv, UpdaterTyped, ScriptTyped
  <2>4. QED
    BY <2>2, <2>3, Zenon DEF RestoreUpdate
<1>3. Home' = Home /\ (Replacing' <=> Replacing)
  BY <1>2 DEF Home, Replacing
<1>4. /\ updater' \in Clients /\ updater'.version = updater.version /\ Running'
      /\ ClientGoesOn' /\ ChecksEnd'
      /\ \/ /\ Restorable /\ keepsake.release > updater.version
            /\ updater'.release = keepsake.release /\ updater'.program = keepsake.program
            /\ updater'.models = keepsake.models
         \/ updater'.release = updater.release /\ ~updater'.ready
  <2>1. CASE Restorable /\ keepsake.release > updater.version
    <3>1. updater' = [updater EXCEPT !.at = "verifying", !.release = keepsake.release,
                        !.program = keepsake.program, !.models = keepsake.models,
                        !.ready = TRUE]
      BY <2>1, Zenon DEF RestoreUpdate
    <3>2. updater' \in Clients
      BY <1>1, <3>1, Zenon DEF Clients, Working
    <3>3. /\ updater'.at = "verifying" /\ updater'.release = keepsake.release
          /\ updater'.program = keepsake.program /\ updater'.models = keepsake.models
          /\ updater'.ready /\ updater'.version = updater.version
          /\ updater'.recheck = updater.recheck /\ updater'.due = updater.due
          /\ updater'.auto = updater.auto
      BY <1>1, <3>1, Zenon DEF Clients
    <3>4. Matches(keepsake.release, keepsake.program, keepsake.models)
      BY <2>1 DEF Restorable
    <3>5. keepsake.program # 0
      BY <3>4 DEF Matches
    <3>6. ClientGoesOn' /\ ChecksEnd' /\ Running'
      BY <3>3, <3>5 DEF UpdaterInv, ClientGoesOn, ChecksEnd, Running
    <3>7. QED
      BY <2>1, <3>2, <3>3, <3>6
  <2>2. CASE ~(Restorable /\ keepsake.release > updater.version)
    <3> DEFINE u == [updater EXCEPT !.at = "idle"]
    <3>1. u \in Clients
      BY <1>1, Zenon DEF Clients
    <3>2. AsBefore(u, updater) /\ u.recheck = updater.recheck /\ u.at = "idle"
      BY <1>1, Zenon DEF Clients, AsBefore
    <3>3. updater' = Recheck(u)
      BY <2>2, Zenon DEF RestoreUpdate
    <3> HIDE DEF u
    <3>4. /\ updater' \in Clients /\ AsBefore(updater', u) /\ updater'.recheck = "no"
          /\ u.recheck = "no" => updater'.at = u.at
          /\ u.recheck # "no" => updater'.at = "checking"
          /\ u.recheck = "manual" => updater'.manual
      BY <3>1, <3>3, RecheckIs, Zenon
    <3>5. updater.recheck \in {"no", "auto", "manual"}
      BY <1>1, Zenon DEF Clients
    <3>6. ClientGoesOn' /\ ChecksEnd' /\ Running'
      BY <1>1, <3>2, <3>4, <3>5 DEF UpdaterInv, ClientGoesOn, ChecksEnd, Running, AsBefore
    <3>7. QED
      BY <1>1, <3>2, <3>4, <3>6 DEF AsBefore
  <2>3. QED
    BY <2>1, <2>2
<1>5. keepsake' \in Keepsakes
  BY <1>1, <1>2, Bounds DEF Keepsakes, NoKeepsake
<1>6. UpdaterTyped'
  BY <1>2, <1>4, <1>5, Zenon DEF UpdaterInv, UpdaterTyped, ScriptTyped
<1>7. ASSUME "torn" \notin regrets
      PROVE  HomeIsWhole' /\ ScriptGoesOn' /\ ClientIsInstalled'
  <2>1. HomeIsWhole /\ ScriptGoesOn /\ ClientIsInstalled
    BY <1>7 DEF UpdaterInv
  <2>2. HomeIsWhole'
    BY <1>3, <2>1 DEF HomeIsWhole
  <2>3. ScriptGoesOn'
    BY <1>2, <2>1 DEF ScriptGoesOn
  <2>4. ClientIsInstalled'
    BY <1>1, <1>2, <1>3, <1>4, <2>1 DEF ClientIsInstalled
  <2>5. QED
    BY <2>2, <2>3, <2>4
<1>8. ASSUME "torn" \notin regrets, ModelsFit PROVE ModelsFit'
  <2>1. /\ ScriptGoesOn /\ updater.version = Home.program
    BY <1>1, <1>8 DEF UpdaterInv, ClientIsInstalled
  <2>2. KeepsakeFits /\ ScriptFits
    BY <1>8 DEF ModelsFit
  <2>3. ReadyFits'
    <3>1. ASSUME Restorable PROVE keepsake.release = keepsake.program
      BY <3>1 DEF Restorable, Matches
    <3>2. QED
      BY <1>3, <1>4, <2>1, <2>2, <3>1 DEF ReadyFits, KeepsakeFits
  <2>4. KeepsakeFits'
    <3>1. Home.program \in VersionsOrNone
      BY <1>1, <2>1, Zenon DEF Clients
    <3>2. CASE keepsake' = NoKeepsake
      BY <1>3, <3>1, <3>2 DEF KeepsakeFits, NoKeepsake, VersionsOrNone
    <3>3. QED
      BY <1>2, <1>3, <2>2, <3>2 DEF KeepsakeFits
  <2>5. ScriptFits'
    <3>1. keepsake' = keepsake \/ keepsake'.program = 0
      BY <1>2 DEF NoKeepsake
    <3>2. updater'.ready => keepsake'.program \in {0, updater'.program}
      BY <1>2, <1>4
    <3>3. script.at \in {"copied", "proving", "cleaning"} => script.target # 0
      BY <2>1, Bounds DEF ScriptGoesOn
    <3>4. QED
      BY <1>2, <1>3, <2>2, <3>1, <3>2, <3>3 DEF ScriptFits
  <2>6. QED
    BY <1>2, <1>3, <1>8, <2>3, <2>4, <2>5 DEF ModelsFit, TrialFits
<1>9. QED
  BY <1>2, <1>4, <1>6, <1>7, <1>8 DEF UpdaterInv

\* The script is started and the client closes, or the packages must be verified.
LEMMA LaunchKeeps ==
    ASSUME UpdaterInv, Launch, chances' \in Chances
    PROVE  UpdaterInv'
<1>1. /\ updater \in Clients /\ script.at = "none"
      /\ UNCHANGED <<packages, parts, keepsake, install, backup, published, regrets>>
  BY DEF UpdaterInv, UpdaterTyped, Launch, downloads
<1>2. /\ updater.release \in VersionsOrNone /\ updater.program \in VersionsOrNone
      /\ updater.models \in VersionsOrNone
  BY <1>1, Zenon DEF Clients
<1>3. FilesTyped'
  BY <1>1 DEF UpdaterInv, UpdaterTyped, FilesTyped
<1>4. CASE /\ updater.ready /\ updater.release # 0
           /\ script' = [at |-> "waiting", target |-> updater.release,
                         program |-> updater.program, models |-> updater.models]
           /\ scriptFile' = TRUE /\ updater' = Off
  <2>1. /\ updater' \in Clients /\ ClientGoesOn' /\ ChecksEnd' /\ ReadyFits'
        /\ ~updater'.ready /\ updater'.release = 0
    BY <1>4, FreshClient, Zenon
  <2>2. ~Running'
    BY <1>4, OffIs DEF Running
  <2>3. /\ script'.at = "waiting" /\ script'.target = updater.release
        /\ script'.program = updater.program /\ script'.models = updater.models
        /\ Home = install /\ Home' = install
    BY <1>1, <1>4 DEF Home, Replacing
  <2>4. UpdaterTyped'
    <3>1. script' \in Scripts
      BY <1>2, <1>4 DEF Scripts
    <3>2. scriptFile' \in BOOLEAN
      BY <1>4, Zenon
    <3>3. install' \in Installs /\ backup' \in Installs \cup {NoKeepsake}
      BY <1>1 DEF UpdaterInv, UpdaterTyped, ScriptTyped
    <3>4. /\ keepsake' \in Keepsakes /\ published' \in Versions
          /\ regrets' \subseteq {"torn", "untried"}
      BY <1>1 DEF UpdaterInv, UpdaterTyped
    <3>5. script'.at \notin {"none", "waiting", "staged"} => backup' \in Installs
      BY <2>3
    <3>6. QED
      BY <1>3, <2>1, <3>1, <3>2, <3>3, <3>4, <3>5, Zenon DEF UpdaterTyped, ScriptTyped
  <2>5. Running
    BY <1>4 DEF UpdaterInv, ClientGoesOn
  <2>6. ASSUME "torn" \notin regrets
        PROVE  HomeIsWhole' /\ ScriptGoesOn' /\ ClientIsInstalled'
    <3>1. HomeIsWhole /\ ClientIsInstalled
      BY <2>6 DEF UpdaterInv
    <3>2. HomeIsWhole'
      BY <2>3, <3>1 DEF HomeIsWhole
    <3>3. updater.release > install.program
      BY <1>4, <2>3, <2>5, <3>1 DEF ClientIsInstalled
    <3>4. ScriptGoesOn'
      BY <1>1, <2>3, <3>3 DEF ScriptGoesOn
    <3>5. ClientIsInstalled'
      BY <2>2 DEF ClientIsInstalled
    <3>6. QED
      BY <3>2, <3>4, <3>5
  <2>7. ASSUME ModelsFit PROVE ModelsFit'
    <3>1. ReadyFits /\ KeepsakeFits /\ ScriptFits
      BY <2>7 DEF ModelsFit
    <3>2. KeepsakeFits'
      BY <1>1, <2>3, <3>1 DEF KeepsakeFits
    <3>3. ScriptFits'
      BY <1>1, <1>4, <2>1, <2>3, <3>1 DEF ScriptFits, ReadyFits
    <3>4. Home.models = ModelOf[Home.program]
      BY <2>7 DEF ModelsFit
    <3>5. QED
      BY <2>1, <2>3, <3>2, <3>3, <3>4 DEF ModelsFit, TrialFits
  <2>8. QED
    BY <1>1, <2>1, <2>4, <2>6, <2>7 DEF UpdaterInv
<1>5. CASE UNCHANGED <<script, scriptFile>> /\
        \/ updater' = updater
        \/ updater' = Preparing([updater EXCEPT !.checked = FALSE])
  <2>1. /\ updater' \in Clients /\ AsBefore(updater', updater)
        /\ updater'.recheck = updater.recheck /\ updater'.manual = updater.manual
        /\ updater'.kind = updater.kind
        /\ \/ updater'.at = updater.at
           \/ updater.at = "idle" /\ updater.ready /\ updater'.at = "verifying"
    <3>1. CASE updater' = updater
      BY <1>1, <3>1 DEF AsBefore
    <3>2. CASE updater' = Preparing([updater EXCEPT !.checked = FALSE])
      <4> DEFINE u == [updater EXCEPT !.checked = FALSE]
      <4>1. u \in Clients
        BY <1>1, Zenon DEF Clients
      <4>2. /\ AsBefore(u, updater) /\ u.recheck = updater.recheck
            /\ u.manual = updater.manual /\ u.kind = updater.kind /\ u.at = updater.at
        BY <1>1, Zenon DEF Clients, AsBefore
      <4>3. updater' = Preparing(u)
        BY <3>2
      <4> HIDE DEF u
      <4>4. /\ updater' \in Clients /\ AsBefore(updater', u)
            /\ updater'.recheck = u.recheck /\ updater'.manual = u.manual
            /\ updater'.kind = u.kind
            /\ updater'.at = u.at \/ (u.at = "idle" /\ u.ready /\ updater'.at = "verifying")
        BY <4>1, <4>3, PreparingIs, Zenon
      <4>5. QED
        BY <4>2, <4>4 DEF AsBefore
    <3>3. QED
      BY <1>5, <3>1, <3>2
  <2>2. UNCHANGED installed
    BY <1>1, <1>5 DEF installed
  <2>3. UpdaterTyped'
    BY <1>1, <1>3, <2>1, <2>2, ClientStepTyped, Zenon DEF UpdaterInv, UpdaterTyped
  <2>4. ClientGoesOn' /\ ChecksEnd'
    BY <2>1 DEF UpdaterInv, ClientGoesOn, ChecksEnd, Running, AsBefore
  <2>5. ReadyFits => ReadyFits'
    BY <1>1, <1>5, <2>1 DEF ReadyFits, ReleaseStays, Home, Replacing, AsBefore
  <2>6. QED
    BY <1>1, <2>1, <2>2, <2>3, <2>4, <2>5, ClientStep DEF Running, AsBefore
<1>6. QED
  BY <1>4, <1>5, Zenon DEF Launch

\* The button of the settings.
LEMMA ClickKeeps == ASSUME UpdaterInv, Click PROVE UpdaterInv'
<1>1. /\ updater \in Clients /\ updater.at \in {"restoring", "idle"}
      /\ chances' \in Chances
  BY UpdaterAssumption DEF UpdaterInv, UpdaterTyped, Click, Chances
<1>2. CASE Launch
  BY <1>1, <1>2, LaunchKeeps
<1>3. CASE ~updater.ready /\ Download(updater) /\ UNCHANGED <<packages, parts, installed, published>>
  <2>1. updater.at = "idle" /\ updater.program # 0 /\ updater.program # updater.release =>
            ~updater.auto
    BY <1>3 DEF UpdaterInv, ChecksEnd
  <2>2. QED
    BY <1>1, <1>3, <2>1, DownloadKeeps, Zenon
<1>4. CASE /\ ~updater.ready /\ updater.release = 0 /\ updater' = CheckFrom(updater, TRUE)
           /\ UNCHANGED <<downloads, installed, published, regrets>>
  BY <1>1, <1>4, CheckByUserKeeps
<1>5. QED
  BY <1>2, <1>3, <1>4, Zenon DEF Click

\* The client is closed.
LEMMA QuitKeeps == ASSUME UpdaterInv, Quit PROVE UpdaterInv'
<1>1. chances' \in Chances
  <2>1. UNCHANGED chances \/ Fault
    BY Zenon DEF Quit
  <2>2. QED
    BY <2>1, FaultUses DEF UpdaterInv, UpdaterTyped
<1>2. CASE Launch
  BY <1>1, <1>2, LaunchKeeps
<1>3. CASE updater' = Off /\ UNCHANGED <<downloads, installed, published, regrets>>
  BY <1>1, <1>3, CloseKeeps
<1>4. QED
  BY <1>2, <1>3, Zenon DEF Quit

-----------------------------------------------------------------------------
(* The script.                                                             *)

\* The types of a step of the script.
LEMMA ScriptStepTyped ==
    ASSUME UpdaterTyped, UNCHANGED <<downloads, published>>, updater' \in Clients,
           chances' \in Chances, regrets' \subseteq {"torn", "untried"}, script' \in Scripts,
           scriptFile' \in BOOLEAN, install' \in Installs, backup' \in Installs \cup {NoKeepsake},
           script'.at \notin {"none", "waiting", "staged"} => backup' \in Installs
    PROVE  UpdaterTyped'
<1>1. FilesTyped' /\ keepsake' \in Keepsakes /\ published' \in Versions
  BY DEF UpdaterTyped, FilesTyped, downloads
<1>2. QED
  BY <1>1, Zenon DEF UpdaterTyped, ScriptTyped

\* The script goes on.
LEMMA ScriptAt ==
    ASSUME script \in Scripts,
           NEW at \in {"none", "waiting", "staged", "backed", "copying", "copied", "proving",
                       "cleaning", "failed", "rolling"},
           script' = [script EXCEPT !.at = at]
    PROVE  /\ script' \in Scripts /\ script'.at = at /\ script'.target = script.target
           /\ script'.program = script.program /\ script'.models = script.models
BY DEF Scripts

\* The script has ended.
LEMMA NoScriptIs ==
    /\ NoScript \in Scripts /\ NoScript.at = "none"
    /\ NoScript.program = 0 /\ NoScript.target = 0 /\ NoScript.models = 0
BY Bounds DEF NoScript, Scripts

\* When it has ended, the invariant says nothing of it.
LEMMA EndedScript ==
    ASSUME script' = NoScript,
           updater'.ready => keepsake'.program \in {0, updater'.program}
    PROVE  ScriptGoesOn' /\ TrialFits' /\ ScriptFits'
<1>1. script'.at = "none"
  BY NoScriptIs
<1>2. QED
  BY <1>1 DEF ScriptGoesOn, TrialFits, ScriptFits

\* An update that is given up before any file was replaced.
LEMMA AbandonedKeeps ==
    ASSUME UpdaterInv, Abandoned, script.at \in {"waiting", "staged"}, chances' \in Chances,
           UNCHANGED <<downloads, install, backup, published, regrets>>
    PROVE  UpdaterInv'
<1>1. /\ script' = NoScript /\ script'.at = "none" /\ script' \in Scripts
      /\ UNCHANGED keepsake
  BY NoScriptIs DEF Abandoned, downloads
<1>2. scriptFile' \in BOOLEAN
  BY Zenon DEF Abandoned
<1>3. /\ updater \in Clients /\ install \in Installs
      /\ backup \in Installs \cup {NoKeepsake} /\ regrets \subseteq {"torn", "untried"}
  BY DEF UpdaterInv, UpdaterTyped, ScriptTyped
<1>4. Home = install /\ Home' = install
  BY <1>1 DEF Home, Replacing
<1>5. CASE updater' = Started
  <2>1. Running' /\ updater'.version = install.program
    BY <1>3, <1>5, StartedRuns
  <2>2. /\ updater' \in Clients /\ ClientGoesOn' /\ ChecksEnd' /\ ReadyFits'
        /\ ~updater'.ready /\ updater'.release = 0
    BY <1>3, <1>5, StartedRuns, FreshClient, Zenon
  <2>3. UpdaterTyped'
    BY <1>1, <1>2, <1>3, <2>2, ScriptStepTyped DEF UpdaterInv
  <2>4. ASSUME "torn" \notin regrets PROVE HomeIsWhole' /\ ScriptGoesOn' /\ ClientIsInstalled'
    <3>1. HomeIsWhole'
      BY <1>4, <2>4 DEF UpdaterInv, HomeIsWhole
    <3>2. ClientIsInstalled'
      BY <1>1, <1>4, <2>1, <2>2 DEF ClientIsInstalled
    <3>3. QED
      BY <1>1, <2>2, <3>1, <3>2, EndedScript, Zenon
  <2>5. ASSUME ModelsFit PROVE ModelsFit'
    <3>1. KeepsakeFits'
      BY <1>1, <1>4, <2>5 DEF ModelsFit, KeepsakeFits
    <3>2. ScriptFits'
      BY <1>1, <2>2 DEF ScriptFits
    <3>3. QED
      BY <1>1, <1>4, <2>2, <2>5, <3>1, <3>2 DEF ModelsFit, TrialFits
  <2>6. QED
    BY <2>2, <2>3, <2>4, <2>5 DEF UpdaterInv
<1>6. CASE UNCHANGED updater
  <2>1. ClientGoesOn' /\ ChecksEnd'
    BY <1>6 DEF UpdaterInv, ClientGoesOn, ChecksEnd, Running
  <2>2. UpdaterTyped'
    BY <1>1, <1>2, <1>3, <1>6, ScriptStepTyped DEF UpdaterInv
  <2>3. ASSUME "torn" \notin regrets PROVE HomeIsWhole' /\ ScriptGoesOn' /\ ClientIsInstalled'
    <3>1. HomeIsWhole'
      BY <1>4, <2>3 DEF UpdaterInv, HomeIsWhole
    <3>2. ClientIsInstalled'
      BY <1>1, <1>4, <1>6, <2>3 DEF UpdaterInv, ClientIsInstalled, Running
    <3>3. ScriptGoesOn'
      BY <1>1 DEF ScriptGoesOn
    <3>4. QED
      BY <3>1, <3>2, <3>3
  <2>4. ASSUME ModelsFit PROVE ModelsFit'
    <3>1. KeepsakeFits' /\ ReadyFits'
      BY <1>1, <1>4, <1>6, <2>4 DEF ModelsFit, KeepsakeFits, ReadyFits, ReleaseStays
    <3>2. ScriptFits'
      BY <1>1, <1>6, <2>4 DEF ModelsFit, ScriptFits
    <3>3. QED
      BY <1>1, <1>4, <2>4, <3>1, <3>2 DEF ModelsFit, TrialFits
  <2>5. QED
    BY <2>1, <2>2, <2>3, <2>4 DEF UpdaterInv
<1>7. QED
  BY <1>5, <1>6, Zenon DEF Abandoned

\* A step of the script that leaves the client and the files it goes back to alone.
LEMMA ScriptStep ==
    ASSUME UpdaterInv, UNCHANGED <<updater, downloads, published, regrets>>, UpdaterTyped',
           Home' = Home, script'.at # "copied",
           "torn" \notin regrets => ScriptGoesOn',
           "torn" \notin regrets /\ ModelsFit => TrialFits' /\ ScriptFits'
    PROVE  UpdaterInv'
<1>1. ClientGoesOn' /\ ChecksEnd'
  BY DEF UpdaterInv, ClientGoesOn, ChecksEnd, Running
<1>2. ASSUME "torn" \notin regrets PROVE HomeIsWhole' /\ ScriptGoesOn' /\ ClientIsInstalled'
  <2>1. HomeIsWhole'
    BY <1>2 DEF UpdaterInv, HomeIsWhole
  <2>2. ClientIsInstalled'
    BY <1>2 DEF UpdaterInv, ClientIsInstalled, Running
  <2>3. QED
    BY <1>2, <2>1, <2>2
<1>3. ASSUME "torn" \notin regrets, ModelsFit PROVE ModelsFit'
  <2>1. KeepsakeFits' /\ ReadyFits'
    BY <1>3 DEF ModelsFit, KeepsakeFits, ReadyFits, ReleaseStays, downloads
  <2>2. QED
    BY <1>3, <2>1 DEF ModelsFit
<1>4. QED
  BY <1>1, <1>2, <1>3 DEF UpdaterInv

\* The packages are compared and expanded.
LEMMA CheckAndStageKeeps == ASSUME UpdaterInv, CheckAndStage PROVE UpdaterInv'
<1>1. /\ script.at = "waiting"
      /\ UNCHANGED <<downloads, install, backup, published, chances, regrets>>
      /\ updater \in Clients /\ script \in Scripts /\ install \in Installs
      /\ backup \in Installs \cup {NoKeepsake} /\ regrets \subseteq {"torn", "untried"}
      /\ chances \in Chances
  BY DEF UpdaterInv, UpdaterTyped, ScriptTyped, CheckAndStage
<1>2. CASE /\ Matches(script.target, script.program, script.models)
           /\ script' = [script EXCEPT !.at = "staged"] /\ UNCHANGED <<updater, scriptFile>>
  <2>1. /\ script' \in Scripts /\ script'.at = "staged" /\ script'.target = script.target
        /\ script'.program = script.program /\ script'.models = script.models
    BY <1>1, <1>2, ScriptAt
  <2>2. /\ script.target \in Versions /\ script.program = script.target
        /\ packages[Program(script.target)] = "good"
        /\ script.models \in {0, ModelOf[script.target]}
    <3>1. /\ script.target \in VersionsOrNone /\ script.program \in VersionsOrNone
          /\ script.models \in VersionsOrNone
      BY <1>1 DEF Scripts
    <3>2. QED
      BY <1>2, <3>1, MatchesIs
  <2>3. UNCHANGED <<packages, keepsake>> /\ Home = install /\ Home' = install
    BY <1>1, <2>1 DEF downloads, Home, Replacing
  <2>4. UpdaterTyped'
    <3>1. scriptFile' \in BOOLEAN
      BY <1>2, Zenon DEF UpdaterInv, UpdaterTyped, ScriptTyped
    <3>2. QED
      BY <1>1, <1>2, <2>1, <3>1, ScriptStepTyped DEF UpdaterInv
  <2>5. "torn" \notin regrets => ScriptGoesOn'
    BY <1>1, <2>1, <2>2, <2>3 DEF UpdaterInv, ScriptGoesOn
  <2>6. ModelsFit => TrialFits' /\ ScriptFits'
    BY <1>1, <1>2, <2>1, <2>3 DEF ModelsFit, TrialFits, ScriptFits
  <2>7. QED
    BY <1>1, <1>2, <2>1, <2>3, <2>4, <2>5, <2>6, ScriptStep
<1>3. CASE Abandoned
  BY <1>1, <1>3, AbandonedKeeps
<1>4. QED
  BY <1>2, <1>3, Zenon DEF CheckAndStage

\* The backup is made.
LEMMA BackUpKeeps == ASSUME UpdaterInv, BackUp PROVE UpdaterInv'
<1>1. /\ script.at = "staged" /\ UNCHANGED <<downloads, install, published, regrets>>
      /\ updater \in Clients /\ script \in Scripts /\ install \in Installs
      /\ regrets \subseteq {"torn", "untried"} /\ chances \in Chances
  BY DEF UpdaterInv, UpdaterTyped, ScriptTyped, BackUp
<1>2. CASE /\ script' = [script EXCEPT !.at = "backed"] /\ backup' = install
           /\ UNCHANGED <<updater, scriptFile, chances>>
  <2>1. /\ script' \in Scripts /\ script'.at = "backed" /\ script'.target = script.target
        /\ script'.program = script.program /\ script'.models = script.models
    BY <1>1, <1>2, ScriptAt
  <2>2. UNCHANGED <<packages, keepsake>> /\ Home = install /\ Home' = install
    BY <1>1, <2>1 DEF downloads, Home, Replacing
  <2>3. UpdaterTyped'
    <3>1. scriptFile' \in BOOLEAN
      BY <1>2, Zenon DEF UpdaterInv, UpdaterTyped, ScriptTyped
    <3>2. QED
      BY <1>1, <1>2, <2>1, <3>1, ScriptStepTyped DEF UpdaterInv
  <2>4. "torn" \notin regrets => ScriptGoesOn'
    BY <1>1, <1>2, <2>1, <2>2 DEF UpdaterInv, ScriptGoesOn
  <2>5. ModelsFit => TrialFits' /\ ScriptFits'
    BY <1>1, <1>2, <2>1, <2>2 DEF ModelsFit, TrialFits, ScriptFits
  <2>6. QED
    BY <1>1, <1>2, <2>1, <2>2, <2>3, <2>4, <2>5, ScriptStep
<1>3. CASE Fault /\ Abandoned /\ UNCHANGED backup
  BY <1>1, <1>3, FaultUses, AbandonedKeeps
<1>4. QED
  BY <1>2, <1>3, Zenon DEF BackUp

\* The first files are replaced, or put back: from now on the backup counts.
LEMMA BeginCopyKeeps == ASSUME UpdaterInv, BeginCopy PROVE UpdaterInv'
<1>1. /\ script.at = "backed" /\ script' = [script EXCEPT !.at = "copying"] /\ install' = Torn
      /\ UNCHANGED <<updater, downloads, scriptFile, backup, published, chances, regrets>>
      /\ updater \in Clients /\ script \in Scripts /\ backup \in Installs
      /\ regrets \subseteq {"torn", "untried"} /\ chances \in Chances
  BY DEF UpdaterInv, UpdaterTyped, ScriptTyped, BeginCopy
<1>2. /\ script' \in Scripts /\ script'.at = "copying" /\ script'.target = script.target
      /\ script'.program = script.program /\ script'.models = script.models
  BY <1>1, ScriptAt
<1>3. UpdaterTyped'
  <2>1. scriptFile' \in BOOLEAN
    BY <1>1, Zenon DEF UpdaterInv, UpdaterTyped, ScriptTyped
  <2>2. Torn \in Installs
    BY Bounds DEF Torn, Installs
  <2>3. QED
    BY <1>1, <1>2, <2>1, <2>2, ScriptStepTyped DEF UpdaterInv
<1>4. Home = install /\ Home' = backup /\ UNCHANGED <<packages, keepsake>>
  BY <1>1, <1>2 DEF downloads, Home, Replacing
<1>5. ClientGoesOn' /\ ChecksEnd'
  BY <1>1 DEF UpdaterInv, ClientGoesOn, ChecksEnd, Running
<1>6. ASSUME "torn" \notin regrets
      PROVE  Home' = Home /\ ScriptGoesOn'
  <2>1. HomeIsWhole /\ ScriptGoesOn
    BY <1>6 DEF UpdaterInv
  <2>2. backup = install
    BY <1>1, <2>1 DEF ScriptGoesOn
  <2>3. QED
    BY <1>1, <1>2, <1>4, <2>1, <2>2 DEF ScriptGoesOn, HomeIsWhole
<1>7. ASSUME "torn" \notin regrets, ModelsFit PROVE TrialFits' /\ ScriptFits'
  BY <1>1, <1>2, <1>4, <1>6, <1>7 DEF ModelsFit, TrialFits, ScriptFits
<1>8. CASE "torn" \notin regrets
  BY <1>1, <1>2, <1>3, <1>6, <1>7, <1>8, ScriptStep
<1>9. CASE "torn" \in regrets
  BY <1>1, <1>3, <1>5, <1>9 DEF UpdaterInv
<1>10. QED
  BY <1>8, <1>9

\* All files are those of the release.
LEMMA FinishCopyKeeps == ASSUME UpdaterInv, FinishCopy PROVE UpdaterInv'
<1>1. /\ script.at = "copying" /\ updater.at = "off"
      /\ script' = [script EXCEPT !.at = "copied"]
      /\ UNCHANGED <<updater, downloads, scriptFile, backup, published, chances, regrets>>
      /\ updater \in Clients /\ script \in Scripts /\ backup \in Installs
      /\ regrets \subseteq {"torn", "untried"} /\ chances \in Chances
  BY DEF UpdaterInv, UpdaterTyped, ScriptTyped, FinishCopy
<1>2. /\ script' \in Scripts /\ script'.at = "copied" /\ script'.target = script.target
      /\ script'.program = script.program /\ script'.models = script.models
  BY <1>1, ScriptAt
<1>3. install' = [program |-> IF packages[Program(script.program)] = "good"
                             THEN script.program ELSE 0,
                  models |-> IF script.models # 0 THEN script.models ELSE backup.models]
  BY DEF FinishCopy
<1>4. UpdaterTyped'
  <2>1. scriptFile' \in BOOLEAN
    BY <1>1, Zenon DEF UpdaterInv, UpdaterTyped, ScriptTyped
  <2>2. install' \in Installs
    BY <1>1, <1>3, Bounds DEF Scripts, Installs
  <2>3. QED
    BY <1>1, <1>2, <2>1, <2>2, ScriptStepTyped DEF UpdaterInv
<1>5. Home = backup /\ Home' = install' /\ UNCHANGED <<packages, keepsake>>
  BY <1>1, <1>2 DEF downloads, Home, Replacing
<1>6. ClientGoesOn' /\ ChecksEnd' /\ ~Running' /\ ~updater'.ready
  BY <1>1 DEF UpdaterInv, ClientGoesOn, ChecksEnd, Running
<1>7. ASSUME "torn" \notin regrets
      PROVE  /\ HomeIsWhole' /\ ScriptGoesOn' /\ ClientIsInstalled'
             /\ script.target \in Versions /\ script.target > backup.program
             /\ script.program = script.target /\ install'.program = script.target
             /\ script.models \in {0, ModelOf[script.target]}
  <2>1. HomeIsWhole /\ ScriptGoesOn
    BY <1>7 DEF UpdaterInv
  <2>2. /\ script.target \in Versions /\ script.target > backup.program
        /\ script.program = script.target /\ script.models \in {0, ModelOf[script.target]}
        /\ backup.program \in Versions /\ packages[Program(script.target)] = "good"
    BY <1>1, <2>1 DEF ScriptGoesOn
  <2>3. install'.program = script.target
    BY <1>3, <2>2
  <2>4. HomeIsWhole'
    BY <1>5, <2>2, <2>3 DEF HomeIsWhole
  <2>5. ScriptGoesOn'
    BY <1>1, <1>2, <2>2, <2>3 DEF ScriptGoesOn
  <2>6. ClientIsInstalled'
    BY <1>6 DEF ClientIsInstalled
  <2>7. QED
    BY <2>2, <2>3, <2>4, <2>5, <2>6
<1>8. ASSUME "torn" \notin regrets, ModelsFit PROVE ModelsFit'
  <2>1. KeepsakeFits /\ ScriptFits /\ backup.models = ModelOf[backup.program]
    BY <1>5, <1>8 DEF ModelsFit
  <2>2. install'.models = ModelOf[script.target]
    <3>1. script.models = 0 => ModelOf[script.target] = backup.models
      BY <1>1, <1>5, <1>7, <1>8, <2>1 DEF ScriptFits
    <3>2. QED
      BY <1>3, <1>7, <1>8, <3>1
  <2>3. keepsake.program \in {0, script.target}
    BY <1>1, <1>7, <1>8, <2>1 DEF ScriptFits
  <2>4. KeepsakeFits'
    BY <1>5, <1>7, <1>8, <2>3, Bounds DEF KeepsakeFits, Versions
  <2>5. ScriptFits'
    <3>1. keepsake.program = script.target /\ keepsake.release = keepsake.program
              /\ keepsake.models = 0 =>
            ModelOf[script.target] = backup.models
      BY <1>5, <1>7, <1>8, <2>1 DEF KeepsakeFits
    <3>2. QED
      BY <1>1, <1>2, <1>5, <1>6, <1>7, <1>8, <2>3, <3>1 DEF ScriptFits
  <2>6. TrialFits'
    BY <1>1, <1>2, <2>1 DEF TrialFits
  <2>7. ReadyFits'
    BY <1>6 DEF ReadyFits
  <2>8. QED
    BY <1>5, <1>7, <1>8, <2>2, <2>4, <2>5, <2>6, <2>7 DEF ModelsFit
<1>9. QED
  BY <1>1, <1>4, <1>6, <1>7, <1>8 DEF UpdaterInv

\* A file cannot be replaced.
LEMMA FailCopyKeeps == ASSUME UpdaterInv, FailCopy PROVE UpdaterInv'
<1>1. /\ script.at = "copying" /\ script' = [script EXCEPT !.at = "failed"]
      /\ UNCHANGED <<updater, downloads, scriptFile, install, backup, published, regrets>>
      /\ updater \in Clients /\ script \in Scripts /\ install \in Installs
      /\ backup \in Installs /\ regrets \subseteq {"torn", "untried"}
  BY DEF UpdaterInv, UpdaterTyped, ScriptTyped, FailCopy
<1>2. /\ script' \in Scripts /\ script'.at = "failed" /\ script'.target = script.target
      /\ script'.program = script.program /\ script'.models = script.models
  BY <1>1, ScriptAt
<1>3. UpdaterTyped'
  <2>1. scriptFile' \in BOOLEAN
    BY <1>1, Zenon DEF UpdaterInv, UpdaterTyped, ScriptTyped
  <2>2. chances' \in Chances
    BY FaultUses DEF FailCopy, UpdaterInv, UpdaterTyped
  <2>3. QED
    BY <1>1, <1>2, <2>1, <2>2, ScriptStepTyped DEF UpdaterInv
<1>4. Home = backup /\ Home' = backup /\ UNCHANGED keepsake
  BY <1>1, <1>2 DEF downloads, Home, Replacing
<1>5. ASSUME "torn" \notin regrets PROVE ScriptGoesOn' /\ install' = Torn
  BY <1>1, <1>2, <1>5 DEF UpdaterInv, ScriptGoesOn
<1>6. ASSUME "torn" \notin regrets, ModelsFit PROVE TrialFits' /\ ScriptFits'
  BY <1>1, <1>2, <1>4, <1>5, <1>6 DEF ModelsFit, TrialFits, ScriptFits
<1>7. QED
  BY <1>1, <1>2, <1>3, <1>4, <1>5, <1>6, ScriptStep

\* The new client is put on trial.
LEMMA StartTrialKeeps == ASSUME UpdaterInv, StartTrial PROVE UpdaterInv'
<1>1. /\ script.at = "copied" /\ script' = [script EXCEPT !.at = "proving"]
      /\ updater' = Started
      /\ UNCHANGED <<downloads, scriptFile, install, backup, published, chances, regrets>>
      /\ script \in Scripts /\ install \in Installs /\ backup \in Installs
      /\ regrets \subseteq {"torn", "untried"} /\ chances \in Chances
  BY DEF UpdaterInv, UpdaterTyped, ScriptTyped, StartTrial
<1>2. /\ script' \in Scripts /\ script'.at = "proving" /\ script'.target = script.target
      /\ script'.program = script.program /\ script'.models = script.models
  BY <1>1, ScriptAt
<1>3. Running' /\ updater'.version = install.program
  BY <1>1, StartedRuns
<1>4. /\ updater' \in Clients /\ ClientGoesOn' /\ ChecksEnd' /\ ReadyFits'
      /\ ~updater'.ready /\ updater'.release = 0
  BY <1>1, StartedRuns, FreshClient, Zenon
<1>5. UpdaterTyped'
  <2>1. scriptFile' \in BOOLEAN
    BY <1>1, Zenon DEF UpdaterInv, UpdaterTyped, ScriptTyped
  <2>2. QED
    BY <1>1, <1>2, <1>4, <2>1, ScriptStepTyped DEF UpdaterInv
<1>6. Home = install /\ Home' = install /\ UNCHANGED <<packages, keepsake>>
  BY <1>1, <1>2 DEF downloads, Home, Replacing
<1>7. ASSUME "torn" \notin regrets PROVE HomeIsWhole' /\ ScriptGoesOn' /\ ClientIsInstalled'
  <2>1. HomeIsWhole'
    BY <1>6, <1>7 DEF UpdaterInv, HomeIsWhole
  <2>2. ScriptGoesOn'
    BY <1>1, <1>2, <1>7 DEF UpdaterInv, ScriptGoesOn
  <2>3. ClientIsInstalled'
    BY <1>2, <1>3, <1>4, <1>6 DEF ClientIsInstalled
  <2>4. QED
    BY <2>1, <2>2, <2>3
<1>8. ASSUME ModelsFit PROVE ModelsFit'
  <2>1. KeepsakeFits' /\ TrialFits'
    BY <1>1, <1>2, <1>6, <1>8 DEF ModelsFit, KeepsakeFits, TrialFits
  <2>2. ScriptFits'
    BY <1>1, <1>2, <1>4, <1>6, <1>8 DEF ModelsFit, ScriptFits
  <2>3. QED
    BY <1>4, <1>6, <1>8, <2>1, <2>2 DEF ModelsFit
<1>9. QED
  BY <1>1, <1>4, <1>5, <1>7, <1>8 DEF UpdaterInv

\* The new client has proved itself.
LEMMA ConfirmKeeps == ASSUME UpdaterInv, Confirm PROVE UpdaterInv'
<1>1. /\ script.at = "proving" /\ script' = [script EXCEPT !.at = "cleaning"]
      /\ UNCHANGED <<updater, downloads, scriptFile, install, backup, published, chances, regrets>>
      /\ updater \in Clients /\ script \in Scripts /\ install \in Installs
      /\ backup \in Installs /\ regrets \subseteq {"torn", "untried"} /\ chances \in Chances
  BY DEF UpdaterInv, UpdaterTyped, ScriptTyped, Confirm
<1>2. /\ script' \in Scripts /\ script'.at = "cleaning" /\ script'.target = script.target
      /\ script'.program = script.program /\ script'.models = script.models
  BY <1>1, ScriptAt
<1>3. UpdaterTyped'
  <2>1. scriptFile' \in BOOLEAN
    BY <1>1, Zenon DEF UpdaterInv, UpdaterTyped, ScriptTyped
  <2>2. QED
    BY <1>1, <1>2, <2>1, ScriptStepTyped DEF UpdaterInv
<1>4. Home = install /\ Home' = install /\ UNCHANGED <<packages, keepsake>>
  BY <1>1, <1>2 DEF downloads, Home, Replacing
<1>5. "torn" \notin regrets => ScriptGoesOn'
  BY <1>1, <1>2 DEF UpdaterInv, ScriptGoesOn
<1>6. ModelsFit => TrialFits' /\ ScriptFits'
  BY <1>1, <1>2, <1>4 DEF ModelsFit, TrialFits, ScriptFits
<1>7. QED
  BY <1>1, <1>2, <1>3, <1>4, <1>5, <1>6, ScriptStep

\* The trial has failed: from now on the backup counts.
LEMMA TrialFailsKeeps == ASSUME UpdaterInv, TrialFails PROVE UpdaterInv'
<1>1. /\ script.at = "proving" /\ script' = [script EXCEPT !.at = "failed"]
      /\ updater' = Off
      /\ UNCHANGED <<downloads, scriptFile, install, backup, published, regrets>>
      /\ script \in Scripts /\ install \in Installs /\ backup \in Installs
      /\ regrets \subseteq {"torn", "untried"}
  BY DEF UpdaterInv, UpdaterTyped, ScriptTyped, TrialFails
<1>2. /\ script' \in Scripts /\ script'.at = "failed" /\ script'.target = script.target
      /\ script'.program = script.program /\ script'.models = script.models
  BY <1>1, ScriptAt
<1>3. /\ updater' \in Clients /\ ClientGoesOn' /\ ChecksEnd' /\ ReadyFits'
      /\ ~updater'.ready
  BY <1>1, FreshClient, Zenon
<1>4. ~Running'
  BY <1>1, OffIs DEF Running
<1>5. UpdaterTyped'
  <2>1. scriptFile' \in BOOLEAN
    BY <1>1, Zenon DEF UpdaterInv, UpdaterTyped, ScriptTyped
  <2>2. chances' \in Chances
    BY FaultUses DEF TrialFails, UpdaterInv, UpdaterTyped
  <2>3. QED
    BY <1>1, <1>2, <1>3, <2>1, <2>2, ScriptStepTyped DEF UpdaterInv
<1>6. Home = install /\ Home' = backup /\ UNCHANGED <<packages, keepsake>>
  BY <1>1, <1>2 DEF downloads, Home, Replacing
<1>7. ASSUME "torn" \notin regrets
      PROVE  /\ HomeIsWhole' /\ ScriptGoesOn' /\ ClientIsInstalled'
             /\ install.program = script.target /\ script.program = script.target
  <2>1. ScriptGoesOn
    BY <1>7 DEF UpdaterInv
  <2>2. HomeIsWhole' /\ ScriptGoesOn'
    BY <1>1, <1>2, <1>6, <2>1 DEF ScriptGoesOn, HomeIsWhole
  <2>3. ClientIsInstalled'
    BY <1>4 DEF ClientIsInstalled
  <2>4. QED
    BY <1>1, <2>1, <2>2, <2>3 DEF ScriptGoesOn
<1>8. ASSUME "torn" \notin regrets, ModelsFit PROVE ModelsFit'
  <2>1. TrialFits /\ KeepsakeFits /\ ScriptFits /\ install.models = ModelOf[install.program]
    BY <1>6, <1>8 DEF ModelsFit
  <2>2. Home'.models = ModelOf[Home'.program]
    BY <1>1, <1>6, <2>1 DEF TrialFits
  <2>3. TrialFits'
    BY <1>1, <1>2, <2>1 DEF TrialFits
  <2>4. KeepsakeFits'
    <3>1. keepsake.program \in {0, script.target}
      BY <1>1, <1>7, <1>8, <2>1 DEF ScriptFits
    <3>2. 0 > backup.program => FALSE
      BY <1>1 DEF Installs, VersionsOrNone
    <3>3. QED
      BY <1>1, <1>6, <2>1, <3>1, <3>2 DEF KeepsakeFits, ScriptFits
  <2>5. ScriptFits'
    BY <1>1, <1>2, <1>3, <1>6, <2>1 DEF ScriptFits
  <2>6. QED
    BY <1>3, <1>6, <2>2, <2>3, <2>4, <2>5 DEF ModelsFit
<1>9. QED
  BY <1>1, <1>3, <1>5, <1>7, <1>8 DEF UpdaterInv

\* The old files are put back.
LEMMA RollBackKeeps == ASSUME UpdaterInv, RollBack PROVE UpdaterInv'
<1>1. /\ script.at = "failed" /\ script' = [script EXCEPT !.at = "rolling"] /\ install' = Torn
      /\ UNCHANGED <<updater, downloads, scriptFile, backup, published, chances, regrets>>
      /\ updater \in Clients /\ script \in Scripts /\ backup \in Installs
      /\ regrets \subseteq {"torn", "untried"} /\ chances \in Chances
  BY DEF UpdaterInv, UpdaterTyped, ScriptTyped, RollBack
<1>2. /\ script' \in Scripts /\ script'.at = "rolling" /\ script'.target = script.target
      /\ script'.program = script.program /\ script'.models = script.models
  BY <1>1, ScriptAt
<1>3. UpdaterTyped'
  <2>1. scriptFile' \in BOOLEAN
    BY <1>1, Zenon DEF UpdaterInv, UpdaterTyped, ScriptTyped
  <2>2. Torn \in Installs
    BY Bounds DEF Torn, Installs
  <2>3. QED
    BY <1>1, <1>2, <2>1, <2>2, ScriptStepTyped DEF UpdaterInv
<1>4. Home = backup /\ Home' = backup /\ UNCHANGED keepsake
  BY <1>1, <1>2 DEF downloads, Home, Replacing
<1>5. "torn" \notin regrets => ScriptGoesOn'
  BY <1>1, <1>2 DEF UpdaterInv, ScriptGoesOn
<1>6. ModelsFit => TrialFits' /\ ScriptFits'
  BY <1>1, <1>2, <1>4 DEF ModelsFit, TrialFits, ScriptFits
<1>7. QED
  BY <1>1, <1>2, <1>3, <1>4, <1>5, <1>6, ScriptStep

\* They are all back, or cannot be.
LEMMA FinishRollBackKeeps == ASSUME UpdaterInv, FinishRollBack PROVE UpdaterInv'
<1>1. /\ script.at = "rolling" /\ script' = NoScript /\ scriptFile' = FALSE
      /\ UNCHANGED <<downloads, published>>
      /\ updater \in Clients /\ script \in Scripts /\ install \in Installs
      /\ backup \in Installs /\ regrets \subseteq {"torn", "untried"} /\ chances \in Chances
  BY DEF UpdaterInv, UpdaterTyped, ScriptTyped, FinishRollBack
<1>2. script' \in Scripts /\ script'.at = "none" /\ scriptFile' \in BOOLEAN
  BY <1>1, NoScriptIs, Zenon
<1>3. Home = backup /\ Home' = install' /\ UNCHANGED <<packages, keepsake>>
  BY <1>1, <1>2 DEF downloads, Home, Replacing
<1>4. CASE /\ install' = backup /\ backup' = NoKeepsake /\ UNCHANGED <<chances, regrets>>
           /\ updater' = [Started EXCEPT !.version = backup.program]
  <2>1. backup.program \in VersionsOrNone /\ install.program \in VersionsOrNone
    BY <1>1 DEF Installs
  <2>2. updater' = [Off EXCEPT !.at = "restoring", !.version = backup.program, !.auto = TRUE]
    <3>1. [[Off EXCEPT !.at = "restoring", !.version = install.program, !.auto = TRUE]
                EXCEPT !.version = backup.program]
            = [Off EXCEPT !.at = "restoring", !.version = backup.program, !.auto = TRUE]
      BY OffIs, Zenon DEF Clients
    <3>2. QED
      BY <1>4, <3>1 DEF Started
  <2>3. updater'.at = "restoring" /\ updater'.version = backup.program
    BY <2>1, <2>2, StartedIs, Zenon
  <2>4. /\ updater' \in Clients /\ ClientGoesOn' /\ ChecksEnd' /\ ReadyFits'
        /\ ~updater'.ready /\ updater'.release = 0
    BY <2>1, <2>2, FreshClient, Zenon
  <2>5. UpdaterTyped'
    BY <1>1, <1>2, <1>4, <2>4, ScriptStepTyped DEF UpdaterInv
  <2>6. ScriptGoesOn' /\ TrialFits' /\ ScriptFits'
    BY <1>1, <2>4, EndedScript, Zenon
  <2>7. ASSUME "torn" \notin regrets PROVE HomeIsWhole' /\ ClientIsInstalled'
    <3>1. HomeIsWhole'
      BY <1>3, <1>4, <2>7 DEF UpdaterInv, HomeIsWhole
    <3>2. ClientIsInstalled'
      BY <1>2, <1>3, <1>4, <2>3, <2>4 DEF ClientIsInstalled
    <3>3. QED
      BY <3>1, <3>2
  <2>8. ModelsFit => ModelsFit'
    BY <1>3, <1>4, <2>4, <2>6 DEF ModelsFit, KeepsakeFits
  <2>9. QED
    BY <1>4, <2>4, <2>5, <2>6, <2>7, <2>8 DEF UpdaterInv
<1>5. CASE /\ install' = backup /\ backup' = NoKeepsake /\ UNCHANGED <<chances, regrets>>
           /\ UNCHANGED updater
  <2>1. UpdaterTyped'
    BY <1>1, <1>2, <1>5, ScriptStepTyped DEF UpdaterInv
  <2>2. "torn" \notin regrets => ScriptGoesOn'
    BY <1>2 DEF ScriptGoesOn
  <2>3. ModelsFit => TrialFits' /\ ScriptFits'
    BY <1>2, <1>3, <1>5 DEF ModelsFit, TrialFits, ScriptFits
  <2>4. QED
    BY <1>1, <1>2, <1>3, <1>5, <2>1, <2>2, <2>3, ScriptStep
<1>6. CASE Fault /\ regrets' = regrets \cup {"torn"} /\ UNCHANGED <<install, backup, updater>>
  <2>1. ClientGoesOn' /\ ChecksEnd'
    BY <1>6 DEF UpdaterInv, ClientGoesOn, ChecksEnd, Running
  <2>2. UpdaterTyped'
    BY <1>1, <1>2, <1>6, FaultUses, ScriptStepTyped DEF UpdaterInv
  <2>3. QED
    BY <1>6, <2>1, <2>2 DEF UpdaterInv
<1>7. QED
  BY <1>4, <1>5, <1>6, Zenon DEF FinishRollBack

\* The update is over.
LEMMA CleanUpKeeps == ASSUME UpdaterInv, CleanUp PROVE UpdaterInv'
<1>1. /\ script.at = "cleaning" /\ script' = NoScript /\ scriptFile' = FALSE
      /\ keepsake' = NoKeepsake /\ backup' = NoKeepsake
      /\ UNCHANGED <<updater, parts, install, published, chances, regrets>>
      /\ updater \in Clients /\ install \in Installs
      /\ regrets \subseteq {"torn", "untried"} /\ chances \in Chances
  BY DEF UpdaterInv, UpdaterTyped, ScriptTyped, CleanUp
<1>2. script' \in Scripts /\ script'.at = "none" /\ scriptFile' \in BOOLEAN
  BY <1>1, NoScriptIs, Zenon
<1>3. Home = install /\ Home' = install /\ keepsake'.program = 0
  BY <1>1, <1>2 DEF Home, Replacing, NoKeepsake
<1>4. UpdaterTyped'
  <2>1. FilesTyped'
    <3>1. packages' = [f \in Files |->
            IF f \in {Program(script.program), Models(script.models)} THEN "none" ELSE packages[f]]
      BY DEF CleanUp
    <3>2. QED
      BY <1>1, <3>1 DEF UpdaterInv, UpdaterTyped, FilesTyped
  <2>2. keepsake' \in Keepsakes
    BY <1>1, Bounds DEF Keepsakes, NoKeepsake
  <2>3. published \in Versions
    BY DEF UpdaterInv, UpdaterTyped
  <2>4. QED
    BY <1>1, <1>2, <2>1, <2>2, <2>3, Zenon DEF UpdaterTyped, ScriptTyped
<1>5. ClientGoesOn' /\ ChecksEnd'
  BY <1>1 DEF UpdaterInv, ClientGoesOn, ChecksEnd, Running
<1>6. ScriptGoesOn' /\ TrialFits' /\ ScriptFits'
  BY <1>2, <1>3 DEF ScriptGoesOn, TrialFits, ScriptFits
<1>7. ASSUME "torn" \notin regrets PROVE HomeIsWhole' /\ ClientIsInstalled'
  <2>1. HomeIsWhole'
    BY <1>3, <1>7 DEF UpdaterInv, HomeIsWhole
  <2>2. ClientIsInstalled'
    BY <1>1, <1>2, <1>3, <1>7 DEF UpdaterInv, ClientIsInstalled, Running
  <2>3. QED
    BY <2>1, <2>2
<1>8. ASSUME ModelsFit PROVE ModelsFit'
  <2>1. KeepsakeFits'
    <3>1. 0 > install.program => FALSE
      BY <1>1 DEF Installs, VersionsOrNone
    <3>2. QED
      BY <1>3, <3>1 DEF KeepsakeFits
  <2>2. ReadyFits'
    BY <1>1, <1>3, <1>8 DEF ModelsFit, ReadyFits, ReleaseStays
  <2>3. QED
    BY <1>3, <1>6, <1>8, <2>1, <2>2 DEF ModelsFit
<1>9. QED
  BY <1>1, <1>4, <1>5, <1>6, <1>7, <1>8 DEF UpdaterInv

\* The power goes: what is in the place of the program is what counts.
LEMMA LosePowerKeeps == ASSUME UpdaterInv, LosePower PROVE UpdaterInv'
<1>1. /\ Fault /\ updater' = Off /\ script' = NoScript
      /\ regrets' = IF install = Torn THEN regrets \cup {"torn"} ELSE regrets
      /\ UNCHANGED <<downloads, scriptFile, install, backup, published>>
      /\ install \in Installs /\ backup \in Installs \cup {NoKeepsake} /\ script \in Scripts
      /\ regrets \subseteq {"torn", "untried"} /\ chances \in Chances
      /\ keepsake \in Keepsakes
  BY DEF UpdaterInv, UpdaterTyped, ScriptTyped, LosePower
<1>2. script' \in Scripts /\ script'.at = "none"
  BY <1>1, NoScriptIs, Zenon
<1>3. /\ updater' \in Clients /\ ClientGoesOn' /\ ChecksEnd' /\ ReadyFits'
      /\ ~updater'.ready
  BY <1>1, FreshClient, Zenon
<1>4. ~Running'
  BY <1>1, OffIs DEF Running
<1>5. UpdaterTyped'
  <2>1. scriptFile' \in BOOLEAN
    BY <1>1, Zenon DEF UpdaterInv, UpdaterTyped, ScriptTyped
  <2>2. QED
    BY <1>1, <1>2, <1>3, <2>1, FaultUses, ScriptStepTyped DEF UpdaterInv
<1>6. Home' = install /\ UNCHANGED <<packages, keepsake>>
  BY <1>1, <1>2 DEF downloads, Home, Replacing
<1>7. ScriptGoesOn' /\ TrialFits' /\ ScriptFits'
  BY <1>1, <1>3, EndedScript, Zenon
<1>8. ClientIsInstalled'
  BY <1>4 DEF ClientIsInstalled
<1>9. ASSUME "torn" \notin regrets'
      PROVE  /\ regrets' = regrets /\ HomeIsWhole'
             /\ \/ Home = install
                \/ script.at = "failed" /\ install # Torn /\ install.program = script.target
                    /\ script.program = script.target /\ script.target \in Versions
  <2>1. install # Torn /\ regrets' = regrets
    BY <1>1, <1>9
  <2>2. HomeIsWhole /\ ScriptGoesOn
    BY <1>9, <2>1 DEF UpdaterInv
  <2>3. script.at \notin {"copying", "rolling"}
    BY <2>1, <2>2 DEF ScriptGoesOn
  <2>4. CASE script.at = "failed"
    BY <1>6, <2>1, <2>2, <2>4 DEF ScriptGoesOn, HomeIsWhole
  <2>5. CASE script.at # "failed"
    <3>1. Home = install
      BY <2>3, <2>5 DEF Home, Replacing
    <3>2. QED
      BY <1>6, <2>1, <2>2, <3>1 DEF HomeIsWhole
  <2>6. QED
    BY <2>4, <2>5
<1>10. ASSUME "torn" \notin regrets', ModelsFit PROVE ModelsFit'
  <2>1. TrialFits /\ KeepsakeFits /\ ScriptFits
    BY <1>10 DEF ModelsFit
  <2>2. install.models = ModelOf[install.program]
    BY <1>9, <1>10, <2>1 DEF ModelsFit, TrialFits
  <2>3. KeepsakeFits'
    <3>1. CASE Home = install
      BY <1>6, <2>1, <3>1 DEF KeepsakeFits
    <3>2. CASE /\ script.at = "failed" /\ install.program = script.target
               /\ script.program = script.target /\ script.target \in Versions
      <4>1. keepsake.program \in {0, install.program}
        BY <2>1, <3>2 DEF ScriptFits
      <4>2. ~(keepsake.program > install.program)
        BY <1>1, <3>2, <4>1 DEF Versions
      <4>3. QED
        BY <1>6, <4>2 DEF KeepsakeFits
    <3>3. QED
      BY <1>9, <1>10, <3>1, <3>2
  <2>4. QED
    BY <1>3, <1>6, <1>7, <2>2, <2>3 DEF ModelsFit
<1>11. QED
  BY <1>3, <1>5, <1>7, <1>8, <1>9, <1>10 DEF UpdaterInv

-----------------------------------------------------------------------------
\* Every step of the client, the script and the world keeps the invariant.
LEMMA UpdaterStep == UpdaterInv /\ [UpdaterNext]_update => UpdaterInv'
<1> SUFFICES ASSUME UpdaterInv, [UpdaterNext]_update PROVE UpdaterInv'
  OBVIOUS
<1>1. CASE StartClient \/ Click \/ Quit
  BY <1>1, StartClientKeeps, ClickKeeps, QuitKeeps
<1>2. CASE ClientSteps
  BY <1>2, RestoreUpdateKeeps, AutoCheckKeeps, FinishCheckKeeps, AutoDownloadKeeps,
    ReceiveKeeps, FinishDownloadKeeps, FailKeeps, AutoPrepareKeeps, VerifyKeeps
    DEF ClientSteps
<1>3. CASE ScriptSteps
  BY <1>3, CheckAndStageKeeps, BackUpKeeps, BeginCopyKeeps, FinishCopyKeeps, FailCopyKeeps,
    StartTrialKeeps, ConfirmKeeps, TrialFailsKeeps, RollBackKeeps, FinishRollBackKeeps,
    CleanUpKeeps DEF ScriptSteps
<1>4. CASE FailCheck \/ ReceiveOther \/ FailTransport \/ Release \/ Damage \/ LosePower
  BY <1>4, FailCheckKeeps, ReceiveKeeps, FailKeeps, WorldKeeps, LosePowerKeeps
<1>5. CASE UNCHANGED update
  <2>1. UNCHANGED <<updater, downloads, installed, published, chances, regrets>>
    BY <1>5 DEF update
  <2>2. UpdaterTyped'
    BY <2>1, ClientStepTyped, Zenon DEF UpdaterInv, UpdaterTyped, FilesTyped, downloads
  <2>3. ClientGoesOn' /\ ChecksEnd' /\ (ReadyFits => ReadyFits')
    BY <2>1 DEF UpdaterInv, ClientGoesOn, ChecksEnd, Running, ReadyFits, ReleaseStays, Home,
      Replacing, installed
  <2>4. QED
    BY <2>1, <2>2, <2>3, ClientStep DEF Running, downloads
<1>6. QED
  BY <1>1, <1>2, <1>3, <1>4, <1>5 DEF UpdaterNext

\* The invariant gives what the runs check: a program that is not being replaced is
\* the one that stays, with its models.
LEMMA UpdaterInvGives == UpdaterInv => UpdaterTypeOK /\ InstallIsWhole
<1> SUFFICES ASSUME UpdaterInv PROVE UpdaterTypeOK /\ InstallIsWhole
  OBVIOUS
<1>1. UpdaterTypeOK
  BY Zenon DEF UpdaterInv, UpdaterTyped, FilesTyped, ScriptTyped, UpdaterTypeOK, Clients,
    Keepsakes, Scripts, Installs, Chances, VersionsOrNone
<1>2. ASSUME "torn" \notin regrets, ~Replacing
      PROVE  /\ install.program # 0
             /\ "untried" \in regrets \/ install.models = ModelOf[install.program]
             /\ script.at \in {"copied", "proving", "cleaning"} => install.program > backup.program
  <2>1. HomeIsWhole /\ ScriptGoesOn /\ Home = install
    BY <1>2 DEF UpdaterInv, Home
  <2>2. install.program # 0
    BY <2>1, Bounds DEF HomeIsWhole
  <2>3. "untried" \in regrets \/ install.models = ModelOf[install.program]
    BY <1>2, <2>1 DEF UpdaterInv, ModelsFit
  <2>4. script.at \in {"copied", "proving", "cleaning"} => install.program > backup.program
    BY <2>1 DEF ScriptGoesOn
  <2>5. QED
    BY <2>2, <2>3, <2>4
<1>3. InstallIsWhole
  BY <1>2 DEF InstallIsWhole, Replacing
<1>4. QED
  BY <1>1, <1>3

\* The client behind the windows does nothing else to the update.
LEMMA WorkersRunUpdater == Spec => UpdaterSpec
<1>1. Init => UpdaterInit
  BY DEF Init
<1>2. [Next]_vars => [UpdaterNext]_update
  BY DEF Next, ByUploads, ByNames, ByUpdates, vars
<1>3. QED
  BY <1>1, <1>2, PTL DEF Spec, UpdaterSpec

\* The invariant holds throughout.
LEMMA UpdaterIsSound == Spec => []UpdaterInv
<1>1. UpdaterSpec => []UpdaterInv
  BY UpdaterStarts, UpdaterStep, PTL DEF UpdaterSpec
<1>2. QED
  BY <1>1, WorkersRunUpdater, PTL

\* The state of the client, the downloads, the script and the installation stays in
\* its types, whatever fails and whenever the client ends.
THEOREM UpdaterTypesCorrect == Spec => []UpdaterTypeOK
BY UpdaterIsSound, UpdaterInvGives, PTL

\* Whenever no script is replacing files, the installed program is whole, goes with
\* its models and, on trial, is newer than the one it replaced (updater.py 779, 1069).
THEOREM InstallsAreWhole == Spec => []InstallIsWhole
BY UpdaterIsSound, UpdaterInvGives, PTL

-----------------------------------------------------------------------------
(* What is left of a queue.                                                *)

\* The places of a finite set can be counted off: each number up to the size of the set is
\* that of one place.
LEMMA PlacesCount ==
    ASSUME NEW top \in Nat, NEW places \in SUBSET (1..top)
    PROVE  /\ Cardinality(places) \in Nat
           /\ \A n \in 1..Cardinality(places) :
                Nth(places, n) \in places /\ Cardinality({j \in places : j <= Nth(places, n)}) = n
           /\ \A i \in places : \E n \in 1..Cardinality(places) : Nth(places, n) = i
<1> DEFINE size == Cardinality(places)
           upTo(i) == {j \in places : j <= i}
           rank == [i \in places |-> Cardinality(upTo(i))]
<1>1. IsFiniteSet(1..top)
  BY FS_Interval
<1>2. IsFiniteSet(places) /\ size \in Nat
  BY <1>1, FS_Subset, FS_CardinalityType
<1>3. ASSUME NEW i \in places
      PROVE  /\ IsFiniteSet(upTo(i)) /\ rank[i] \in 1..size
  <2>1. upTo(i) \in SUBSET places /\ i \in upTo(i)
    BY <1>3
  <2>2. IsFiniteSet(upTo(i)) /\ Cardinality(upTo(i)) <= size
    BY <1>2, <2>1, FS_Subset
  <2>3. Cardinality(upTo(i)) \in Nat /\ Cardinality(upTo(i)) # 0
    BY <2>1, <2>2, FS_CardinalityType, FS_EmptySet
  <2> QED
    BY <1>2, <2>2, <2>3
<1>4. ASSUME NEW i \in places, NEW j \in places, rank[i] = rank[j], i < j
      PROVE  FALSE
  <2>0. i \in Int /\ j \in Int /\ \A k \in places : k \in Int
    OBVIOUS
  <2>1. upTo(i) \in SUBSET upTo(j)
    <3>1. \A k \in places : k <= i => k <= j
      BY <1>4, <2>0
    <3> QED
      BY <3>1, Zenon
  <2>2. upTo(i) = upTo(j)
    BY <1>3, <1>4, <2>1, FS_Subset
  <2>3. j \in upTo(j) /\ j \notin upTo(i)
    BY <1>4, <2>0
  <2> QED
    BY <2>2, <2>3
<1>5. \A i, j \in places : rank[i] = rank[j] => i = j
  BY <1>4
<1>6. ASSUME NEW n \in 1..size
      PROVE  \E i \in places : rank[i] = n
  <2> SUFFICES ASSUME \A i \in places : rank[i] # n
               PROVE  FALSE
    OBVIOUS
  <2> DEFINE others == (1..size) \ {n}
  <2>1. IsFiniteSet(1..size) /\ Cardinality(1..size) = size
    BY <1>2, FS_Interval
  <2>2. IsFiniteSet(others) /\ Cardinality(others) = size - 1
    <3> DEFINE all == 1..size
    <3>1. n \in all /\ IsFiniteSet(all) /\ Cardinality(all) = size
      BY <2>1
    <3> HIDE DEF all
    <3>2. IsFiniteSet(all \ {n}) /\ Cardinality(all \ {n}) = Cardinality(all) - 1
      BY <3>1, FS_RemoveElement
    <3> QED
      BY <3>1, <3>2 DEF all
  <2>3. rank \in [places -> others]
    BY <1>3
  <2>4. Cardinality(others) < Cardinality(places)
    BY <1>2, <2>2
  <2> HIDE DEF others, rank
  <2>5. \E x, y \in places : x # y /\ rank[x] = rank[y]
    BY <1>2, <2>2, <2>3, <2>4, FS_PigeonHole
  <2> QED
    BY <1>5, <2>5
<1>7. ASSUME NEW n \in 1..size
      PROVE  Nth(places, n) \in places /\ rank[Nth(places, n)] = n
  <2>1. \E i \in places : Cardinality({j \in places : j <= i}) = n
    BY <1>6, <1>7
  <2>2. Nth(places, n) \in places /\ Cardinality({j \in places : j <= Nth(places, n)}) = n
    BY <2>1 DEF Nth
  <2> QED
    BY <2>2
<1>8. ASSUME NEW i \in places
      PROVE  \E n \in 1..size : Nth(places, n) = i
  BY <1>3, <1>5, <1>7, <1>8
<1> QED
  BY <1>2, <1>7, <1>8

\* What is left of a queue: each place of it is one of the queue, of a member that
\* stays, and each of those is there once.
LEMMA WithoutIs ==
    ASSUME NEW S, NEW queue \in Seq(S), NEW gone
    PROVE  /\ Without(queue, gone) \in Seq(S)
           /\ \E pick \in [DOMAIN Without(queue, gone) -> DOMAIN queue] :
                /\ \A n \in DOMAIN Without(queue, gone) :
                     Without(queue, gone)[n] = queue[pick[n]] /\ queue[pick[n]] \notin gone
                /\ \A m, n \in DOMAIN Without(queue, gone) : pick[m] = pick[n] => m = n
                /\ \A i \in DOMAIN queue : queue[i] \notin gone =>
                     \E n \in DOMAIN Without(queue, gone) : pick[n] = i
<1> DEFINE places == Staying(queue, gone)
           size == Cardinality(places)
           pick == [n \in 1..size |-> Nth(places, n)]
           left == [n \in 1..size |-> queue[Nth(places, n)]]
<1>1. Len(queue) \in Nat /\ DOMAIN queue = 1..Len(queue)
  OBVIOUS
<1>2. places \in SUBSET (1..Len(queue)) /\ \A i \in DOMAIN queue : i \in places <=> queue[i] \notin gone
  BY <1>1 DEF Staying
<1>3. Without(queue, gone) = left
  BY DEF Without
<1> HIDE DEF places
<1>4. /\ size \in Nat
      /\ \A n \in 1..size : Nth(places, n) \in places
                            /\ Cardinality({j \in places : j <= Nth(places, n)}) = n
      /\ \A i \in places : \E n \in 1..size : Nth(places, n) = i
  BY <1>1, <1>2, PlacesCount
<1> HIDE DEF size
<1>5. /\ pick \in [1..size -> DOMAIN queue]
      /\ \A n \in 1..size : pick[n] \in places /\ left[n] = queue[pick[n]]
      /\ \A i \in places : \E n \in 1..size : pick[n] = i
  BY <1>1, <1>2, <1>4
<1>6. \A m, n \in 1..size : pick[m] = pick[n] => m = n
  BY <1>4
<1>7. left \in Seq(S) /\ DOMAIN left = 1..size
  <2>1. \A n \in 1..size : left[n] \in S
    BY <1>1, <1>2, <1>5
  <2> QED
    BY <1>4, <2>1
<1> HIDE DEF pick, left
<1>8. \A i \in DOMAIN queue : queue[i] \notin gone => \E n \in 1..size : pick[n] = i
  BY <1>2, <1>5
<1>9. \A n \in 1..size : left[n] = queue[pick[n]] /\ queue[pick[n]] \notin gone
  BY <1>2, <1>5
<1> DEFINE new == Without(queue, gone)
<1>10. /\ new \in Seq(S) /\ DOMAIN new = 1..size
       /\ pick \in [DOMAIN new -> DOMAIN queue]
       /\ \A n \in DOMAIN new : new[n] = queue[pick[n]] /\ queue[pick[n]] \notin gone
       /\ \A m, n \in DOMAIN new : pick[m] = pick[n] => m = n
       /\ \A i \in DOMAIN queue : queue[i] \notin gone => \E n \in DOMAIN new : pick[n] = i
  BY <1>3, <1>5, <1>6, <1>7, <1>8, <1>9
<1> HIDE DEF new
<1>11. \E p \in [DOMAIN new -> DOMAIN queue] :
          /\ \A n \in DOMAIN new : new[n] = queue[p[n]] /\ queue[p[n]] \notin gone
          /\ \A m, n \in DOMAIN new : p[m] = p[n] => m = n
          /\ \A i \in DOMAIN queue : queue[i] \notin gone => \E n \in DOMAIN new : p[n] = i
  <2> pick \in [DOMAIN new -> DOMAIN queue]
    BY <1>10
  <2> WITNESS pick \in [DOMAIN new -> DOMAIN queue]
  <2> QED
    BY <1>10, Zenon
<1> QED
  BY <1>10, <1>11, Zenon DEF new

\* The greater of two numbers.
LEMMA GreaterOfTwo ==
    ASSUME NEW a \in Int, NEW b \in Int
    PROVE  Max({a, b}) \in {a, b} /\ Max({a, b}) >= a /\ Max({a, b}) >= b
<1>1. \E x \in {a, b} : \A y \in {a, b} : x >= y
  OBVIOUS
<1>2. Max({a, b}) \in {a, b} /\ \A y \in {a, b} : Max({a, b}) >= y
  BY <1>1 DEF Max
<1> QED
  BY <1>2

-----------------------------------------------------------------------------
UploadsSpec == UploadsInit /\ [][UploadsNext]_uploads

-----------------------------------------------------------------------------
(* The upload queue: the inductive invariant.                              *)

ReportsOf(kind) == [kind : {kind}, window : Windows, stamp : Nat \ {0}]

Beats == [kind : {"heartbeat"}, stamp : Nat \ {0}, task : BOOLEAN]

SavedReports == ReportsOf("presence") \cup ReportsOf("snapshot")

\* The slots of a kind: one of a window.
Lined(queue, kind) ==
    /\ queue \in Seq(ReportsOf(kind))
    /\ \A i, j \in DOMAIN queue : queue[i].window = queue[j].window => i = j

Counts == [Saved -> [Windows -> Nat]]

UploadsTyped ==
    /\ reported \in Counts /\ handled \in Counts /\ lapsed \in [Windows -> Nat]
    /\ submits \in Nat
    /\ Lined(presence, "presence") /\ Lined(snapshots, "snapshot")
    /\ heartbeat \in Beats \cup {Nothing}
    /\ sending \in Beats \cup SavedReports \cup {Nothing}
    /\ wire \subseteq SavedReports
    /\ retry \in {"now", "later", "never"} /\ spoilt \in {"no", "file", "slots"}
    /\ file = [presence |-> file.presence, snapshots |-> file.snapshots]
    /\ Lined(file.presence, "presence") /\ Lined(file.snapshots, "snapshot")
    /\ retired # Nothing =>
        /\ retired.sending \in Beats \cup SavedReports
        /\ Lined(retired.presence, "presence") /\ Lined(retired.snapshots, "snapshot")

\* The latest reports of all windows, as counted, are among these, or need not be.
Kept(counts, done, old, presences, others) ==
    \A w \in Windows :
        /\ \/ done["presence"][w] >= counts["presence"][w]
           \/ Report("presence", w, counts["presence"][w]) \in Range(presences)
        /\ \/ done["snapshot"][w] >= counts["snapshot"][w]
           \/ old[w] >= counts["snapshot"][w]
           \/ Report("snapshot", w, counts["snapshot"][w]) \in Range(others)

\* What the thread sends is on the wire, or the server has handled it.
SentIsHandled ==
    sending \in SavedReports /\ sending \notin wire =>
        handled[sending.kind][sending.window] >= sending.stamp

UploadsInv ==
    /\ UploadsTyped /\ SentIsHandled
    /\ spoilt # "slots" => Kept(reported, handled, lapsed, presence, snapshots)
    /\ spoilt = "no" => Kept(reported, handled, lapsed, file.presence, file.snapshots)

-----------------------------------------------------------------------------
(* What stays in a queue of slots.                                         *)

\* What is left of a queue are its members that stay.
LEMMA WithoutLeaves ==
    ASSUME NEW S, NEW queue \in Seq(S), NEW gone
    PROVE  \A x : x \in Range(Without(queue, gone)) <=> x \in Range(queue) /\ x \notin gone
<1> DEFINE new == Without(queue, gone)
<1>0. \E pick \in [DOMAIN new -> DOMAIN queue] :
          /\ \A n \in DOMAIN new : new[n] = queue[pick[n]] /\ queue[pick[n]] \notin gone
          /\ \A m, n \in DOMAIN new : pick[m] = pick[n] => m = n
          /\ \A i \in DOMAIN queue : queue[i] \notin gone => \E n \in DOMAIN new : pick[n] = i
  BY WithoutIs
<1> HIDE DEF new
<1>1. PICK pick \in [DOMAIN new -> DOMAIN queue] :
          /\ \A n \in DOMAIN new : new[n] = queue[pick[n]] /\ queue[pick[n]] \notin gone
          /\ \A i \in DOMAIN queue : queue[i] \notin gone => \E n \in DOMAIN new : pick[n] = i
  BY <1>0, Zenon
<1>2. \A x : x \in Range(new) <=> x \in Range(queue) /\ x \notin gone
  BY <1>1 DEF Range
<1> QED
  BY <1>2 DEF new

\* Slots that are left are still one of a window.
LEMMA SlotsLeft ==
    ASSUME NEW kind, NEW queue, Lined(queue, kind), NEW gone
    PROVE  Lined(Without(queue, gone), kind)
<1> DEFINE new == Without(queue, gone)
           S == ReportsOf(kind)
<1>1. queue \in Seq(S) /\ \A i, j \in DOMAIN queue : queue[i].window = queue[j].window => i = j
  BY DEF Lined
<1> HIDE DEF S
<1>2. /\ new \in Seq(S)
      /\ \E pick \in [DOMAIN new -> DOMAIN queue] :
          /\ \A n \in DOMAIN new : new[n] = queue[pick[n]] /\ queue[pick[n]] \notin gone
          /\ \A m, n \in DOMAIN new : pick[m] = pick[n] => m = n
          /\ \A i \in DOMAIN queue : queue[i] \notin gone => \E n \in DOMAIN new : pick[n] = i
  <2>1. queue \in Seq(S)
    BY <1>1
  <2> QED
    BY <2>1, WithoutIs
<1> HIDE DEF new
<1>3. \A m, n \in DOMAIN new : new[m].window = new[n].window => m = n
  BY <1>1, <1>2
<1> QED
  BY <1>2, <1>3 DEF Lined, new, S

\* A slot for a window that has none comes last.
LEMMA SlotAdded ==
    ASSUME NEW kind, NEW queue, Lined(queue, kind), NEW r \in ReportsOf(kind),
           \A x \in Range(queue) : x.window # r.window
    PROVE  /\ Lined(Append(queue, r), kind)
           /\ \A x : x \in Range(Append(queue, r)) <=> x \in Range(queue) \/ x = r
<1> DEFINE new == Append(queue, r)
           S == ReportsOf(kind)
<1>1. queue \in Seq(S) /\ \A i, j \in DOMAIN queue : queue[i].window = queue[j].window => i = j
  BY DEF Lined
<1>0. r \in S /\ \A i \in DOMAIN queue : queue[i].window # r.window
  BY DEF Range
<1> HIDE DEF S
<1>2. /\ new \in Seq(S) /\ Len(queue) \in Nat /\ DOMAIN queue = 1..Len(queue)
      /\ DOMAIN new = 1..(Len(queue) + 1) /\ new[Len(queue) + 1] = r
      /\ \A i \in DOMAIN queue : new[i] = queue[i]
  BY <1>0, <1>1
<1> HIDE DEF new
<1>3. \A i \in DOMAIN new : i \in DOMAIN queue \/ i = Len(queue) + 1
  BY <1>2
<1>4. \A m, n \in DOMAIN new : new[m].window = new[n].window => m = n
  BY <1>0, <1>1, <1>2, <1>3
<1>5. \A x : x \in Range(new) <=> x \in Range(queue) \/ x = r
  BY <1>2, <1>3 DEF Range
<1> QED
  BY <1>2, <1>4, <1>5, Zenon DEF Lined, new, S

\* A presence takes the slot of its window.
LEMMA PresencePut ==
    ASSUME Lined(presence, "presence"), NEW r \in ReportsOf("presence")
    PROVE  /\ Lined(PutPresence(r), "presence")
           /\ \A x : x \in Range(PutPresence(r)) <=>
                     (x \in Range(presence) /\ x.window # r.window) \/ x = r
<1>1. CASE Replaced(presence, r.window)
  <2> DEFINE new == [i \in DOMAIN presence |->
                        IF presence[i].window = r.window THEN r ELSE presence[i]]
             S == ReportsOf("presence")
  <2>1. PutPresence(r) = new
    BY <1>1 DEF PutPresence
  <2>2. /\ presence \in Seq(S)
        /\ \A i, j \in DOMAIN presence : presence[i].window = presence[j].window => i = j
    BY DEF Lined
  <2>3. r \in S
    OBVIOUS
  <2>4. \E i \in DOMAIN presence : presence[i].window = r.window
    BY <1>1 DEF Replaced
  <2> HIDE DEF S
  <2>5. /\ new \in Seq(S) /\ DOMAIN new = DOMAIN presence
        /\ \A i \in DOMAIN presence :
             new[i] = IF presence[i].window = r.window THEN r ELSE presence[i]
    BY <2>2, <2>3
  <2> HIDE DEF new
  <2>6. \A i \in DOMAIN presence : new[i].window = presence[i].window
    BY <2>5
  <2>7. \A m, n \in DOMAIN new : new[m].window = new[n].window => m = n
    BY <2>2, <2>5, <2>6
  <2>8. \A x : x \in Range(new) <=> (x \in Range(presence) /\ x.window # r.window) \/ x = r
    BY <2>4, <2>5 DEF Range
  <2> QED
    BY <2>1, <2>5, <2>7, <2>8, Zenon DEF Lined, S
<1>2. CASE ~Replaced(presence, r.window)
  <2>1. \A x \in Range(presence) : x.window # r.window
    BY <1>2 DEF Replaced, Range
  <2>2. PutPresence(r) = Append(presence, r)
    BY <1>2 DEF PutPresence
  <2>3. /\ Lined(Append(presence, r), "presence")
        /\ \A x : x \in Range(Append(presence, r)) <=> x \in Range(presence) \/ x = r
    BY <2>1, SlotAdded
  <2> QED
    BY <2>1, <2>2, <2>3, Zenon
<1> QED
  BY <1>1, <1>2

\* A snapshot takes the place of that of its window, and comes last.
LEMMA SnapshotPut ==
    ASSUME Lined(snapshots, "snapshot"), NEW r \in ReportsOf("snapshot")
    PROVE  /\ Lined(PutSnapshot(r), "snapshot")
           /\ \A x : x \in Range(PutSnapshot(r)) <=>
                     (x \in Range(snapshots) /\ x.window # r.window) \/ x = r
<1> DEFINE gone == {x \in Range(snapshots) : x.window = r.window}
           left == Without(snapshots, gone)
<1>1. Lined(left, "snapshot")
  BY SlotsLeft
<1>2. snapshots \in Seq(ReportsOf("snapshot"))
  BY DEF Lined
<1>3. \A x : x \in Range(left) <=> x \in Range(snapshots) /\ x.window # r.window
  <2>1. \A x : x \in Range(left) <=> x \in Range(snapshots) /\ x \notin gone
    BY <1>2, WithoutLeaves
  <2> QED
    BY <2>1, Zenon
<1>4. PutSnapshot(r) = Append(left, r)
  BY DEF PutSnapshot
<1> HIDE DEF left
<1>5. /\ Lined(Append(left, r), "snapshot")
      /\ \A x : x \in Range(Append(left, r)) <=> x \in Range(left) \/ x = r
  BY <1>1, <1>3, SlotAdded
<1> QED
  BY <1>3, <1>4, <1>5, Zenon

\* Slots without what is too old are slots, and what is left out is too old.
LEMMA UnexpiredLeaves ==
    ASSUME NEW queue, Lined(queue, "snapshot")
    PROVE  /\ Lined(Unexpired(queue), "snapshot")
           /\ \A r \in Range(queue) :
                r \in Range(Unexpired(queue)) \/ r.stamp <= lapsed[r.window]
           /\ Range(Unexpired(queue)) \subseteq Range(queue)
<1> DEFINE gone == {r \in Range(queue) : r.stamp <= lapsed[r.window]}
<1>1. Unexpired(queue) = Without(queue, gone)
  BY DEF Unexpired
<1>2. queue \in Seq(ReportsOf("snapshot"))
  BY DEF Lined
<1>3. \A x : x \in Range(Without(queue, gone)) <=> x \in Range(queue) /\ x \notin gone
  BY <1>2, WithoutLeaves
<1>4. Lined(Without(queue, gone), "snapshot")
  BY SlotsLeft
<1> QED
  BY <1>1, <1>3, <1>4, Zenon

\* What is in the slots are reports of the kind.
LEMMA SlotsHold ==
    ASSUME NEW kind, NEW queue, Lined(queue, kind)
    PROVE  \A r \in Range(queue) : r \in ReportsOf(kind)
BY DEF Lined, Range

\* The latest reports are still kept if what goes from the slots is handled or too old.
LEMMA KeptOn ==
    ASSUME NEW counts \in Counts, NEW done \in Counts, NEW later \in Counts,
           NEW old \in [Windows -> Nat], NEW older \in [Windows -> Nat],
           NEW ps, NEW ss, NEW ps2, NEW ss2,
           Kept(counts, done, old, ps, ss),
           \A w \in Windows : /\ later["presence"][w] >= done["presence"][w]
                              /\ later["snapshot"][w] >= done["snapshot"][w]
                              /\ older[w] >= old[w],
           \A r \in Range(ps) :
                r \in Range(ps2) \/ later["presence"][r.window] >= r.stamp,
           \A r \in Range(ss) :
                \/ r \in Range(ss2)
                \/ later["snapshot"][r.window] >= r.stamp
                \/ older[r.window] >= r.stamp
    PROVE  Kept(counts, later, older, ps2, ss2)
<1> SUFFICES ASSUME NEW w \in Windows
             PROVE  /\ \/ later["presence"][w] >= counts["presence"][w]
                       \/ Report("presence", w, counts["presence"][w]) \in Range(ps2)
                    /\ \/ later["snapshot"][w] >= counts["snapshot"][w]
                       \/ older[w] >= counts["snapshot"][w]
                       \/ Report("snapshot", w, counts["snapshot"][w]) \in Range(ss2)
  BY Zenon DEF Kept
<1>1. /\ \A f \in {counts, done, later} : f["presence"][w] \in Nat /\ f["snapshot"][w] \in Nat
      /\ old[w] \in Nat /\ older[w] \in Nat
  BY DEF Counts, Saved
<1>2. /\ \/ done["presence"][w] >= counts["presence"][w]
         \/ Report("presence", w, counts["presence"][w]) \in Range(ps)
      /\ \/ done["snapshot"][w] >= counts["snapshot"][w]
         \/ old[w] >= counts["snapshot"][w]
         \/ Report("snapshot", w, counts["snapshot"][w]) \in Range(ss)
  BY DEF Kept
<1>3. \A kind, n : Report(kind, w, n).window = w /\ Report(kind, w, n).stamp = n
  BY DEF Report
<1> DEFINE p == Report("presence", w, counts["presence"][w])
           s == Report("snapshot", w, counts["snapshot"][w])
<1>4. p.window = w /\ p.stamp = counts["presence"][w]
  BY <1>3
<1>5. s.window = w /\ s.stamp = counts["snapshot"][w]
  BY <1>3
<1>6. \/ later["presence"][w] >= counts["presence"][w]
      \/ p \in Range(ps2)
  <2>1. CASE done["presence"][w] >= counts["presence"][w]
    BY <1>1, <2>1
  <2>2. CASE p \in Range(ps)
    BY <1>4, <2>2
  <2> QED
    BY <1>2, <2>1, <2>2
<1>7. \/ later["snapshot"][w] >= counts["snapshot"][w]
      \/ older[w] >= counts["snapshot"][w]
      \/ s \in Range(ss2)
  <2>1. CASE done["snapshot"][w] >= counts["snapshot"][w]
    BY <1>1, <2>1
  <2>2. CASE old[w] >= counts["snapshot"][w]
    BY <1>1, <2>2
  <2>3. CASE s \in Range(ss)
    BY <1>5, <2>3
  <2> QED
    BY <1>2, <2>1, <2>2, <2>3
<1> QED
  BY <1>6, <1>7

\* Numbers of reports grow.
LEMMA Comparable ==
    /\ \A f \in Counts : \A kind \in Saved : \A w \in Windows : f[kind][w] \in Nat
    /\ \A f \in Counts : \A w \in Windows :
        f["presence"][w] >= f["presence"][w] /\ f["snapshot"][w] >= f["snapshot"][w]
    /\ \A f \in [Windows -> Nat] : \A w \in Windows : f[w] \in Nat /\ f[w] >= f[w]
BY DEF Counts, Saved

\* The slots on disk keep what the slots keep.
LEMMA OnDiskKeeps ==
    ASSUME NEW counts \in Counts, NEW done \in Counts, lapsed \in [Windows -> Nat],
           NEW ps, NEW ss, Lined(ps, "presence"), Lined(ss, "snapshot")
    PROVE  /\ OnDisk(ps, ss) = [presence |-> OnDisk(ps, ss).presence,
                                snapshots |-> OnDisk(ps, ss).snapshots]
           /\ Lined(OnDisk(ps, ss).presence, "presence")
           /\ Lined(OnDisk(ps, ss).snapshots, "snapshot")
           /\ Kept(counts, done, lapsed, ps, ss) =>
                Kept(counts, done, lapsed, OnDisk(ps, ss).presence, OnDisk(ps, ss).snapshots)
<1>1. /\ OnDisk(ps, ss).presence = ps /\ OnDisk(ps, ss).snapshots = Unexpired(ss)
      /\ OnDisk(ps, ss) = [presence |-> ps, snapshots |-> Unexpired(ss)]
  BY DEF OnDisk
<1>2. /\ Lined(Unexpired(ss), "snapshot")
      /\ \A r \in Range(ss) : r \in Range(Unexpired(ss)) \/ r.stamp <= lapsed[r.window]
  BY UnexpiredLeaves
<1>3. ASSUME Kept(counts, done, lapsed, ps, ss)
      PROVE  Kept(counts, done, lapsed, ps, Unexpired(ss))
  <2>1. \A r \in Range(ss) : r.window \in Windows /\ r.stamp \in Nat
    BY SlotsHold DEF ReportsOf
  <2>2. \A r \in Range(ss) : r \in Range(Unexpired(ss)) \/ lapsed[r.window] >= r.stamp
    BY <1>2, <2>1, Comparable
  <2> QED
    BY <1>3, <2>2, Comparable, KeptOn
<1> QED
  BY <1>1, <1>2, <1>3

-----------------------------------------------------------------------------
(* What a step of the upload queue is made of.                             *)

\* Nothing is no upload.
LEMMA NothingIsNone == Nothing \notin Beats /\ Nothing \notin SavedReports
<1>1. \A b \in Beats : b.kind = "heartbeat"
  BY Zenon DEF Beats
<1>2. \A r \in SavedReports : r.kind \in {"presence", "snapshot"}
  BY DEF SavedReports, ReportsOf
<1>3. Nothing.kind = "none"
  BY DEF Nothing
<1> QED
  BY <1>1, <1>2, <1>3

\* Writing the file keeps what the slots keep.
LEMMA PersistKeeps ==
    ASSUME UploadsTyped, Persist, lapsed' = lapsed, reported' \in Counts, handled' \in Counts,
           Lined(presence', "presence"), Lined(snapshots', "snapshot"),
           spoilt' # "slots" => Kept(reported', handled', lapsed', presence', snapshots')
    PROVE  /\ spoilt' \in {"no", "file", "slots"}
           /\ file' = [presence |-> file'.presence, snapshots |-> file'.snapshots]
           /\ Lined(file'.presence, "presence") /\ Lined(file'.snapshots, "snapshot")
           /\ spoilt' = "no" =>
                Kept(reported', handled', lapsed', file'.presence, file'.snapshots)
<1>1. file' = OnDisk(presence', snapshots') /\ spoilt' = IF spoilt = "file" THEN "no" ELSE spoilt
  BY DEF Persist
<1>2. lapsed \in [Windows -> Nat] /\ spoilt \in {"no", "file", "slots"}
  BY DEF UploadsTyped
<1> DEFINE new == OnDisk(presence', snapshots')
<1>3. /\ new = [presence |-> new.presence, snapshots |-> new.snapshots]
      /\ Lined(new.presence, "presence") /\ Lined(new.snapshots, "snapshot")
      /\ Kept(reported', handled', lapsed, presence', snapshots') =>
           Kept(reported', handled', lapsed, new.presence, new.snapshots)
  BY <1>2, OnDiskKeeps
<1> HIDE DEF new
<1>4. file' = new
  BY <1>1 DEF new
<1>5. spoilt' \in {"no", "file", "slots"}
  BY <1>1, <1>2
<1>6. spoilt' = "no" => Kept(reported', handled', lapsed', file'.presence, file'.snapshots)
  BY <1>3, <1>4
<1> QED
  BY <1>3, <1>4, <1>5, <1>6

\* What only adds to what has been handled, or is too old, forgets nothing.
LEMMA StillKept ==
    ASSUME UploadsInv,
           reported' = reported, presence' = presence, snapshots' = snapshots,
           file' = file, spoilt' = spoilt,
           handled' \in Counts, lapsed' \in [Windows -> Nat],
           \A w \in Windows : /\ handled'["presence"][w] >= handled["presence"][w]
                              /\ handled'["snapshot"][w] >= handled["snapshot"][w]
                              /\ lapsed'[w] >= lapsed[w]
    PROVE  /\ spoilt' # "slots" => Kept(reported', handled', lapsed', presence', snapshots')
           /\ spoilt' = "no" =>
                Kept(reported', handled', lapsed', file'.presence, file'.snapshots)
<1>1. reported \in Counts /\ handled \in Counts /\ lapsed \in [Windows -> Nat]
  BY DEF UploadsInv, UploadsTyped
<1>2. ASSUME NEW ps, NEW ss, Kept(reported, handled, lapsed, ps, ss)
      PROVE  Kept(reported, handled', lapsed', ps, ss)
  BY <1>1, <1>2, KeptOn
<1>3. spoilt # "slots" => Kept(reported, handled, lapsed, presence, snapshots)
  BY DEF UploadsInv
<1>4. spoilt = "no" => Kept(reported, handled, lapsed, file.presence, file.snapshots)
  BY DEF UploadsInv
<1> QED
  BY <1>2, <1>3, <1>4

\* What the server settles, it has handled; the rest does not go back.
LEMMA SettleRaises ==
    ASSUME UploadsTyped, NEW sent \in Beats \cup SavedReports, Settle(sent)
    PROVE  /\ wire' = wire \ {sent} /\ handled' \in Counts
           /\ \A w \in Windows : /\ handled'["presence"][w] >= handled["presence"][w]
                                 /\ handled'["snapshot"][w] >= handled["snapshot"][w]
           /\ \A r \in SavedReports : handled'[r.kind][r.window] >= handled[r.kind][r.window]
           /\ sent \in SavedReports => handled'[sent.kind][sent.window] >= sent.stamp
           /\ sent.kind = "heartbeat" => handled' = handled
<1>1. handled \in Counts
  BY DEF UploadsTyped
<1>2. \A r \in SavedReports : /\ r.kind \in Saved /\ r.window \in Windows /\ r.stamp \in Nat
                              /\ r.kind # "heartbeat"
  BY DEF SavedReports, ReportsOf, Saved
<1>3. \A b \in Beats : b.kind = "heartbeat"
  BY Zenon DEF Beats
<1>4. wire' = wire \ {sent}
  BY DEF Settle
<1>5. CASE sent \in Beats
  <2>1. handled' = handled
    BY <1>3, <1>5 DEF Settle
  <2>2. sent \notin SavedReports
    BY <1>2, <1>3, <1>5
  <2> QED
    BY <1>1, <1>2, <1>4, <2>1, <2>2, Comparable
<1>6. CASE sent \in SavedReports
  <2> DEFINE kind == sent.kind
             w == sent.window
             was == handled[kind][w]
             stamp == sent.stamp
             new == Max({was, stamp})
  <2>1. kind \in Saved /\ w \in Windows /\ sent.stamp \in Nat /\ kind # "heartbeat"
    BY <1>2, <1>6
  <2>2. was \in Nat
    BY <1>1, <2>1, Comparable
  <2>3. handled' = [handled EXCEPT ![kind][w] = new]
    BY <2>1 DEF Settle
  <2> HIDE DEF kind, w, was
  <2>4. new \in Nat /\ new >= was /\ new >= sent.stamp
    <3>1. was \in Nat /\ stamp \in Nat
      BY <2>1, <2>2
    <3> HIDE DEF stamp
    <3>2. new \in {was, stamp} /\ new >= was /\ new >= stamp
      BY <3>1, GreaterOfTwo
    <3> QED
      BY <3>1, <3>2 DEF stamp
  <2> HIDE DEF new
  <2>5. handled' \in Counts
    BY <1>1, <2>1, <2>3, <2>4 DEF Counts
  <2>6. \A k \in Saved : \A x \in Windows :
           handled'[k][x] = IF k = kind /\ x = w THEN new ELSE handled[k][x]
    BY <1>1, <2>1, <2>3 DEF Counts
  <2>7. \A k \in Saved : \A x \in Windows : handled'[k][x] >= handled[k][x]
    BY <1>1, <2>2, <2>4, <2>6, Comparable DEF was
  <2>8. "presence" \in Saved /\ "snapshot" \in Saved
    BY DEF Saved
  <2>9. handled'[kind][w] >= sent.stamp
    BY <2>1, <2>4, <2>6
  <2> QED
    BY <1>2, <1>4, <2>1, <2>5, <2>7, <2>8, <2>9 DEF kind, w
<1> QED
  BY <1>5, <1>6

\* An upload is taken out of the slots when the server has handled it.
LEMMA DiscardKeeps ==
    ASSUME UploadsInv, NEW sent, Discard(sent), lapsed' = lapsed, reported' = reported,
           handled' \in Counts,
           \A w \in Windows : /\ handled'["presence"][w] >= handled["presence"][w]
                              /\ handled'["snapshot"][w] >= handled["snapshot"][w],
           sent \in SavedReports => handled'[sent.kind][sent.window] >= sent.stamp
    PROVE  /\ Lined(presence', "presence") /\ Lined(snapshots', "snapshot")
           /\ heartbeat' \in Beats \cup {Nothing}
           /\ spoilt' \in {"no", "file", "slots"}
           /\ file' = [presence |-> file'.presence, snapshots |-> file'.snapshots]
           /\ Lined(file'.presence, "presence") /\ Lined(file'.snapshots, "snapshot")
           /\ spoilt' # "slots" => Kept(reported', handled', lapsed', presence', snapshots')
           /\ spoilt' = "no" =>
                Kept(reported', handled', lapsed', file'.presence, file'.snapshots)
<1>1. /\ UploadsTyped /\ reported \in Counts /\ handled \in Counts
      /\ lapsed \in [Windows -> Nat]
      /\ Lined(presence, "presence") /\ Lined(snapshots, "snapshot")
      /\ heartbeat \in Beats \cup {Nothing}
  BY DEF UploadsInv, UploadsTyped
<1>2. /\ presence' = Without(presence, {sent}) /\ snapshots' = Without(snapshots, {sent})
      /\ heartbeat' = IF heartbeat = sent THEN Nothing ELSE heartbeat
      /\ (presence' = presence /\ snapshots' = snapshots /\ UNCHANGED <<file, spoilt>>)
         \/ Persist
  BY DEF Discard
<1>3. Lined(presence', "presence") /\ Lined(snapshots', "snapshot")
  BY <1>1, <1>2, SlotsLeft
<1>4. /\ \A x : x \in Range(presence') <=> x \in Range(presence) /\ x # sent
      /\ \A x : x \in Range(snapshots') <=> x \in Range(snapshots) /\ x # sent
  <2>1. presence \in Seq(ReportsOf("presence")) /\ snapshots \in Seq(ReportsOf("snapshot"))
    BY <1>1 DEF Lined
  <2>2. \A x : x \in Range(presence') <=> x \in Range(presence) /\ x \notin {sent}
    BY <1>2, <2>1, WithoutLeaves
  <2>3. \A x : x \in Range(snapshots') <=> x \in Range(snapshots) /\ x \notin {sent}
    BY <1>2, <2>1, WithoutLeaves
  <2> QED
    BY <2>2, <2>3
<1>5. /\ \A r \in Range(presence) :
           r \in Range(presence') \/ handled'["presence"][r.window] >= r.stamp
      /\ \A r \in Range(snapshots) :
           r \in Range(snapshots') \/ handled'["snapshot"][r.window] >= r.stamp
  <2>1. \A r \in Range(presence) : r \in SavedReports /\ r.kind = "presence"
    BY <1>1, SlotsHold DEF SavedReports, ReportsOf
  <2>2. \A r \in Range(snapshots) : r \in SavedReports /\ r.kind = "snapshot"
    BY <1>1, SlotsHold DEF SavedReports, ReportsOf
  <2> QED
    BY <1>4, <2>1, <2>2
<1>6. ASSUME Kept(reported, handled, lapsed, presence, snapshots)
      PROVE  Kept(reported, handled', lapsed, presence', snapshots')
  BY <1>1, <1>5, <1>6, Comparable, KeptOn
<1>7. spoilt # "slots" => Kept(reported', handled', lapsed', presence', snapshots')
  BY <1>6 DEF UploadsInv
<1>8. heartbeat' \in Beats \cup {Nothing}
  BY <1>1, <1>2
<1>9. CASE Persist
  <2>1. spoilt' = "slots" <=> spoilt = "slots"
    BY <1>9 DEF Persist
  <2>2. reported' \in Counts
    BY <1>1
  <2>3. /\ spoilt' \in {"no", "file", "slots"}
        /\ file' = [presence |-> file'.presence, snapshots |-> file'.snapshots]
        /\ Lined(file'.presence, "presence") /\ Lined(file'.snapshots, "snapshot")
        /\ spoilt' = "no" =>
             Kept(reported', handled', lapsed', file'.presence, file'.snapshots)
    BY <1>1, <1>3, <1>7, <1>9, <2>1, <2>2, PersistKeeps
  <2> QED
    BY <1>3, <1>7, <1>8, <2>1, <2>3
<1>10. CASE presence' = presence /\ snapshots' = snapshots /\ UNCHANGED <<file, spoilt>>
  <2>1. lapsed' \in [Windows -> Nat] /\ \A w \in Windows : lapsed'[w] >= lapsed[w]
    BY <1>1, Comparable
  <2>2. /\ spoilt' # "slots" => Kept(reported', handled', lapsed', presence', snapshots')
        /\ spoilt' = "no" =>
             Kept(reported', handled', lapsed', file'.presence, file'.snapshots)
    BY <1>10, <2>1, StillKept
  <2>3. /\ spoilt' \in {"no", "file", "slots"}
        /\ file' = [presence |-> file'.presence, snapshots |-> file'.snapshots]
        /\ Lined(file'.presence, "presence") /\ Lined(file'.snapshots, "snapshot")
    BY <1>1, <1>10 DEF UploadsTyped
  <2> QED
    BY <1>3, <1>8, <2>2, <2>3
<1> QED
  BY <1>2, <1>9, <1>10

-----------------------------------------------------------------------------
(* The steps of the upload queue.                                          *)

\* At first nothing has been submitted.
LEMMA UploadsStart == UploadsInit => UploadsInv
<1> SUFFICES ASSUME UploadsInit PROVE UploadsInv
  OBVIOUS
<1>1. \A kind : Lined(<<>>, kind)
  BY DEF Lined
<1>2. /\ reported = [kind \in Saved |-> [w \in Windows |-> 0]]
      /\ handled = [kind \in Saved |-> [w \in Windows |-> 0]]
      /\ lapsed = [w \in Windows |-> 0]
  BY DEF UploadsInit
<1>3. reported \in Counts /\ handled \in Counts /\ lapsed \in [Windows -> Nat]
  BY <1>2 DEF Counts
<1>4. \A ps, ss : Kept(reported, handled, lapsed, ps, ss)
  BY <1>2 DEF Kept, Saved
<1>5. /\ presence = <<>> /\ snapshots = <<>> /\ file.presence = <<>> /\ file.snapshots = <<>>
      /\ file = [presence |-> file.presence, snapshots |-> file.snapshots]
      /\ submits \in Nat /\ heartbeat = Nothing /\ sending = Nothing /\ retired = Nothing
      /\ retry = "now" /\ spoilt = "no" /\ wire = {}
  BY DEF UploadsInit
<1>6. UploadsTyped
  BY <1>1, <1>3, <1>5 DEF UploadsTyped
<1>7. SentIsHandled
  BY <1>5, NothingIsNone DEF SentIsHandled
<1> QED
  BY <1>4, <1>6, <1>7 DEF UploadsInv

\* A submission of a report keeps the latest of the others.
LEMMA SubmitKeeps ==
    ASSUME UploadsInv, NEW w \in Windows, SubmitPresence(w) \/ SubmitSnapshot(w)
    PROVE  UploadsInv'
<1>1. /\ UploadsTyped /\ SentIsHandled
      /\ reported \in Counts /\ handled \in Counts /\ lapsed \in [Windows -> Nat]
      /\ Lined(presence, "presence") /\ Lined(snapshots, "snapshot") /\ submits \in Nat
  BY DEF UploadsInv, UploadsTyped
<1>2. /\ UNCHANGED <<heartbeat, sending, retry, retired, lapsed, wire, handled>>
      /\ submits' = submits + 1 /\ Persist
  BY DEF SubmitPresence, SubmitSnapshot, Submit
<1>3. "presence" \in Saved /\ "snapshot" \in Saved /\ "presence" # "snapshot"
  BY DEF Saved
<1>4. /\ reported' \in Counts
      /\ Lined(presence', "presence") /\ Lined(snapshots', "snapshot")
      /\ Kept(reported, handled, lapsed, presence, snapshots) =>
           Kept(reported', handled, lapsed, presence', snapshots')
  <2>1. CASE SubmitPresence(w)
    <3> DEFINE stamp == reported["presence"][w] + 1
               r == Report("presence", w, stamp)
    <3>1. /\ reported' = [reported EXCEPT !["presence"][w] = stamp]
          /\ presence' = PutPresence(r) /\ snapshots' = snapshots
      BY <2>1 DEF SubmitPresence
    <3>2. /\ r \in ReportsOf("presence") /\ r.window = w /\ reported' \in Counts
          /\ reported'["presence"][w] = stamp /\ reported'["snapshot"] = reported["snapshot"]
          /\ \A v \in Windows : v # w => reported'["presence"][v] = reported["presence"][v]
      <4> DEFINE new == reported'
      <4>1. stamp \in Nat \ {0}
        BY <1>1, <1>3, Comparable
      <4>2. new = [reported EXCEPT !["presence"][w] = stamp]
        BY <3>1
      <4> HIDE DEF stamp, new
      <4>3. Report("presence", w, stamp) \in ReportsOf("presence") /\ Report("presence", w, stamp).window = w
        BY <4>1 DEF Report, ReportsOf
      <4>4. /\ new \in Counts /\ new["presence"][w] = stamp /\ new["snapshot"] = reported["snapshot"]
            /\ \A v \in Windows : v # w => new["presence"][v] = reported["presence"][v]
        BY <1>1, <1>3, <4>1, <4>2 DEF Counts
      <4> QED
        BY <4>3, <4>4 DEF stamp, new
    <3>3. /\ Lined(presence', "presence")
          /\ \A x : x \in Range(presence') <=>
                    (x \in Range(presence) /\ x.window # w) \/ x = r
      BY <1>1, <3>1, <3>2, PresencePut
    <3>4. ASSUME Kept(reported, handled, lapsed, presence, snapshots), NEW v \in Windows
          PROVE  /\ \/ handled["presence"][v] >= reported'["presence"][v]
                    \/ Report("presence", v, reported'["presence"][v]) \in Range(presence')
                 /\ \/ handled["snapshot"][v] >= reported'["snapshot"][v]
                    \/ lapsed[v] >= reported'["snapshot"][v]
                    \/ Report("snapshot", v, reported'["snapshot"][v]) \in Range(snapshots')
      <4>1. reported'["snapshot"][v] = reported["snapshot"][v]
        BY <1>3, <3>2
      <4>2. \A n : Report("presence", v, n).window = v
        BY DEF Report
      <4>3. /\ \/ handled["presence"][v] >= reported["presence"][v]
               \/ Report("presence", v, reported["presence"][v]) \in Range(presence)
            /\ \/ handled["snapshot"][v] >= reported["snapshot"][v]
               \/ lapsed[v] >= reported["snapshot"][v]
               \/ Report("snapshot", v, reported["snapshot"][v]) \in Range(snapshots)
        BY <3>4 DEF Kept
      <4>4. CASE v = w
        BY <1>3, <3>1, <3>2, <3>3, <4>1, <4>3, <4>4
      <4>5. CASE v # w
        <5>1. reported'["presence"][v] = reported["presence"][v]
          BY <1>3, <3>2, <4>5
        <5> QED
          BY <3>1, <3>3, <4>1, <4>2, <4>3, <4>5, <5>1
      <4> QED
        BY <4>4, <4>5
    <3>5. Kept(reported, handled, lapsed, presence, snapshots) =>
            Kept(reported', handled, lapsed, presence', snapshots')
      BY <3>4, Zenon DEF Kept
    <3> QED
      BY <1>1, <3>1, <3>2, <3>3, <3>5
  <2>2. CASE SubmitSnapshot(w)
    <3> DEFINE stamp == reported["snapshot"][w] + 1
               r == Report("snapshot", w, stamp)
    <3>1. /\ reported' = [reported EXCEPT !["snapshot"][w] = stamp]
          /\ snapshots' = PutSnapshot(r) /\ presence' = presence
      BY <2>2 DEF SubmitSnapshot
    <3>2. /\ r \in ReportsOf("snapshot") /\ r.window = w /\ reported' \in Counts
          /\ reported'["snapshot"][w] = stamp /\ reported'["presence"] = reported["presence"]
          /\ \A v \in Windows : v # w => reported'["snapshot"][v] = reported["snapshot"][v]
      <4> DEFINE new == reported'
      <4>1. stamp \in Nat \ {0}
        BY <1>1, <1>3, Comparable
      <4>2. new = [reported EXCEPT !["snapshot"][w] = stamp]
        BY <3>1
      <4> HIDE DEF stamp, new
      <4>3. Report("snapshot", w, stamp) \in ReportsOf("snapshot") /\ Report("snapshot", w, stamp).window = w
        BY <4>1 DEF Report, ReportsOf
      <4>4. /\ new \in Counts /\ new["snapshot"][w] = stamp /\ new["presence"] = reported["presence"]
            /\ \A v \in Windows : v # w => new["snapshot"][v] = reported["snapshot"][v]
        BY <1>1, <1>3, <4>1, <4>2 DEF Counts
      <4> QED
        BY <4>3, <4>4 DEF stamp, new
    <3>3. /\ Lined(snapshots', "snapshot")
          /\ \A x : x \in Range(snapshots') <=>
                    (x \in Range(snapshots) /\ x.window # w) \/ x = r
      BY <1>1, <3>1, <3>2, SnapshotPut
    <3>4. ASSUME Kept(reported, handled, lapsed, presence, snapshots), NEW v \in Windows
          PROVE  /\ \/ handled["presence"][v] >= reported'["presence"][v]
                    \/ Report("presence", v, reported'["presence"][v]) \in Range(presence')
                 /\ \/ handled["snapshot"][v] >= reported'["snapshot"][v]
                    \/ lapsed[v] >= reported'["snapshot"][v]
                    \/ Report("snapshot", v, reported'["snapshot"][v]) \in Range(snapshots')
      <4>1. reported'["presence"][v] = reported["presence"][v]
        BY <1>3, <3>2
      <4>2. \A n : Report("snapshot", v, n).window = v
        BY DEF Report
      <4>3. /\ \/ handled["presence"][v] >= reported["presence"][v]
               \/ Report("presence", v, reported["presence"][v]) \in Range(presence)
            /\ \/ handled["snapshot"][v] >= reported["snapshot"][v]
               \/ lapsed[v] >= reported["snapshot"][v]
               \/ Report("snapshot", v, reported["snapshot"][v]) \in Range(snapshots)
        BY <3>4 DEF Kept
      <4>4. CASE v = w
        BY <1>3, <3>1, <3>2, <3>3, <4>1, <4>3, <4>4
      <4>5. CASE v # w
        <5>1. reported'["snapshot"][v] = reported["snapshot"][v]
          BY <1>3, <3>2, <4>5
        <5> QED
          BY <3>1, <3>3, <4>1, <4>2, <4>3, <4>5, <5>1
      <4> QED
        BY <4>4, <4>5
    <3>5. Kept(reported, handled, lapsed, presence, snapshots) =>
            Kept(reported', handled, lapsed, presence', snapshots')
      BY <3>4, Zenon DEF Kept
    <3> QED
      BY <1>1, <3>1, <3>2, <3>3, <3>5
  <2> QED
    BY <2>1, <2>2
<1>5. spoilt' = "slots" <=> spoilt = "slots"
  BY <1>2 DEF Persist
<1>6. spoilt' # "slots" => Kept(reported', handled', lapsed', presence', snapshots')
  BY <1>2, <1>4, <1>5 DEF UploadsInv
<1>7. handled' \in Counts /\ lapsed' = lapsed
  BY <1>1, <1>2
<1>8. /\ spoilt' \in {"no", "file", "slots"}
      /\ file' = [presence |-> file'.presence, snapshots |-> file'.snapshots]
      /\ Lined(file'.presence, "presence") /\ Lined(file'.snapshots, "snapshot")
      /\ spoilt' = "no" =>
           Kept(reported', handled', lapsed', file'.presence, file'.snapshots)
  BY <1>1, <1>2, <1>4, <1>6, <1>7, PersistKeeps
<1>9. UploadsTyped'
  BY <1>1, <1>2, <1>4, <1>8 DEF UploadsTyped
<1>10. SentIsHandled'
  BY <1>1, <1>2 DEF SentIsHandled
<1> QED
  BY <1>6, <1>8, <1>9, <1>10 DEF UploadsInv

\* These change neither the slots nor the file.
LEMMA ThreadKeeps ==
    ASSUME UploadsInv,
           \/ BeatComesDue \/ BackOffEnds \/ Fail \/ FailAuthentication
           \/ \E task \in BOOLEAN : SubmitHeartbeat(task)
    PROVE  UploadsInv'
<1>1. UploadsTyped /\ SentIsHandled
  BY DEF UploadsInv
<1>2. UNCHANGED <<reported, presence, snapshots, file, retired, spoilt, lapsed, handled>>
  BY DEF BeatComesDue, BackOffEnds, Fail, FailAuthentication, SubmitHeartbeat, slots
<1>3. /\ spoilt' # "slots" => Kept(reported', handled', lapsed', presence', snapshots')
      /\ spoilt' = "no" =>
           Kept(reported', handled', lapsed', file'.presence, file'.snapshots)
  BY <1>2 DEF UploadsInv
<1>4. retry' \in {"now", "later", "never"}
  BY <1>1 DEF BeatComesDue, BackOffEnds, Fail, FailAuthentication, SubmitHeartbeat, slots,
    UploadsTyped
<1>5. submits \in Nat /\ submits' \in Nat
  BY <1>1 DEF BeatComesDue, BackOffEnds, Fail, FailAuthentication, SubmitHeartbeat, Submit, slots,
    UploadsTyped
<1>6. heartbeat' \in Beats \cup {Nothing}
  <2>1. CASE \E task \in BOOLEAN : SubmitHeartbeat(task)
    <3>1. PICK task \in BOOLEAN : SubmitHeartbeat(task)
      BY <2>1
    <3>2. heartbeat' = Beat(submits', task) /\ submits' = submits + 1
      BY <3>1 DEF SubmitHeartbeat, Submit
    <3>3. submits' \in Nat \ {0}
      BY <1>5, <3>2
    <3>4. Beat(submits', task) \in Beats
      BY <3>3, Zenon DEF Beat, Beats
    <3> QED
      BY <3>2, <3>4
  <2>2. CASE heartbeat' = heartbeat
    BY <1>1, <2>2 DEF UploadsTyped
  <2> QED
    BY <2>1, <2>2 DEF BeatComesDue, BackOffEnds, Fail, FailAuthentication, slots
<1>7. /\ sending' \in Beats \cup SavedReports \cup {Nothing} /\ wire' \subseteq SavedReports
      /\ SentIsHandled'
  <2>1. CASE sending' = sending /\ wire' = wire
    BY <1>1, <1>2, <2>1 DEF UploadsTyped, SentIsHandled
  <2>2. CASE sending' = Nothing /\ wire' \subseteq wire
    BY <1>1, <2>2, NothingIsNone DEF UploadsTyped, SentIsHandled
  <2>3. \/ sending' = sending /\ wire' = wire
        \/ sending' = Nothing /\ wire' \subseteq wire
    BY DEF BeatComesDue, BackOffEnds, Fail, FailAuthentication, SubmitHeartbeat
  <2> QED
    BY <2>1, <2>2, <2>3
<1>8. UploadsTyped'
  BY <1>1, <1>2, <1>4, <1>5, <1>6, <1>7 DEF UploadsTyped
<1> QED
  BY <1>3, <1>7, <1>8 DEF UploadsInv

\* A snapshot that is too old need not be kept.
LEMMA LapseKeeps == ASSUME UploadsInv, NEW w \in Windows, Lapse(w) PROVE UploadsInv'
<1>1. /\ UploadsTyped /\ SentIsHandled /\ lapsed \in [Windows -> Nat]
      /\ reported \in Counts /\ handled \in Counts
  BY DEF UploadsInv, UploadsTyped
<1>2. /\ lapsed' = [lapsed EXCEPT ![w] = reported["snapshot"][w]]
      /\ lapsed[w] < reported["snapshot"][w]
      /\ UNCHANGED <<reported, submits, presence, snapshots, heartbeat, sending, retry, file,
                     retired, spoilt, wire, handled>>
  BY DEF Lapse, slots
<1>3. reported["snapshot"][w] \in Nat
  BY <1>1 DEF Counts, Saved
<1>4. lapsed' \in [Windows -> Nat] /\ \A v \in Windows : lapsed'[v] >= lapsed[v]
  BY <1>1, <1>2, <1>3
<1>5. handled' \in Counts /\ \A v \in Windows : /\ handled'["presence"][v] >= handled["presence"][v]
                                                /\ handled'["snapshot"][v] >= handled["snapshot"][v]
  BY <1>1, <1>2, Comparable
<1>6. /\ spoilt' # "slots" => Kept(reported', handled', lapsed', presence', snapshots')
      /\ spoilt' = "no" =>
           Kept(reported', handled', lapsed', file'.presence, file'.snapshots)
  BY <1>2, <1>4, <1>5, StillKept
<1>7. UploadsTyped' /\ SentIsHandled'
  BY <1>1, <1>2, <1>4 DEF UploadsTyped, SentIsHandled
<1> QED
  BY <1>6, <1>7 DEF UploadsInv

\* What is sent is one of the slots, and a report goes on the wire.
LEMMA SendKeeps == ASSUME UploadsInv, Send PROVE UploadsInv'
<1> DEFINE sent == NextUpload(snapshots)
<1>1. /\ UploadsTyped /\ SentIsHandled
      /\ Lined(presence, "presence") /\ Lined(snapshots, "snapshot")
      /\ heartbeat \in Beats \cup {Nothing}
  BY DEF UploadsInv, UploadsTyped
<1>2. /\ sent # Nothing /\ sending' = sent
      /\ wire' = IF sent.kind = "heartbeat" THEN wire ELSE wire \cup {sent}
      /\ UNCHANGED <<reported, submits, presence, snapshots, heartbeat, retry, file,
                     retired, spoilt, lapsed, handled>>
  BY DEF Send, slots
<1>3. /\ presence # <<>> => Head(presence) \in ReportsOf("presence")
      /\ snapshots # <<>> => Head(snapshots) \in ReportsOf("snapshot")
  <2> DEFINE P == ReportsOf("presence")
             S == ReportsOf("snapshot")
  <2>1. presence \in Seq(P) /\ snapshots \in Seq(S)
    BY <1>1 DEF Lined
  <2> HIDE DEF P, S
  <2>2. presence # <<>> => Head(presence) \in P
    BY <2>1
  <2>3. snapshots # <<>> => Head(snapshots) \in S
    BY <2>1
  <2> QED
    BY <2>2, <2>3 DEF P, S
<1>4. sent \in Beats \cup SavedReports
  BY <1>1, <1>2, <1>3 DEF NextUpload, SavedReports
<1>5. \A r \in SavedReports : r.kind # "heartbeat"
  BY DEF SavedReports, ReportsOf
<1>6. \A b \in Beats : b.kind = "heartbeat"
  BY Zenon DEF Beats
<1> HIDE DEF sent
<1>7. wire' \subseteq SavedReports
  BY <1>1, <1>2, <1>4, <1>6 DEF UploadsTyped
<1>8. SentIsHandled'
  BY <1>2, <1>5 DEF SentIsHandled
<1>9. UploadsTyped'
  BY <1>1, <1>2, <1>4, <1>7 DEF UploadsTyped
<1> QED
  BY <1>2, <1>8, <1>9 DEF UploadsInv

\* What the server handles counts from then on.
LEMMA HandleKeeps ==
    ASSUME UploadsInv, NEW sent \in wire, Handle(sent)
    PROVE  UploadsInv'
<1>1. /\ UploadsTyped /\ SentIsHandled /\ lapsed \in [Windows -> Nat]
      /\ handled \in Counts /\ wire \subseteq SavedReports
  BY DEF UploadsInv, UploadsTyped
<1>2. /\ Settle(sent)
      /\ UNCHANGED <<reported, submits, presence, snapshots, heartbeat, sending, retry, file,
                     retired, spoilt, lapsed>>
  BY DEF Handle, slots
<1>3. sent \in SavedReports
  BY <1>1
<1>4. /\ wire' = wire \ {sent} /\ handled' \in Counts
      /\ \A w \in Windows : /\ handled'["presence"][w] >= handled["presence"][w]
                            /\ handled'["snapshot"][w] >= handled["snapshot"][w]
      /\ \A r \in SavedReports : handled'[r.kind][r.window] >= handled[r.kind][r.window]
      /\ handled'[sent.kind][sent.window] >= sent.stamp
  BY <1>1, <1>2, <1>3, SettleRaises
<1>5. lapsed' \in [Windows -> Nat] /\ \A w \in Windows : lapsed'[w] >= lapsed[w]
  BY <1>1, <1>2, Comparable
<1>6. /\ spoilt' # "slots" => Kept(reported', handled', lapsed', presence', snapshots')
      /\ spoilt' = "no" =>
           Kept(reported', handled', lapsed', file'.presence, file'.snapshots)
  BY <1>2, <1>4, <1>5, StillKept
<1>7. SentIsHandled'
  <2>1. \A r \in SavedReports : /\ r.stamp \in Nat /\ handled[r.kind][r.window] \in Nat
                                /\ handled'[r.kind][r.window] \in Nat
    <3>1. \A r \in SavedReports : r.stamp \in Nat /\ r.kind \in Saved /\ r.window \in Windows
      BY DEF SavedReports, ReportsOf, Saved
    <3> QED
      BY <1>1, <1>4, <3>1, Comparable
  <2> QED
    BY <1>1, <1>2, <1>4, <2>1 DEF SentIsHandled
<1>8. UploadsTyped'
  BY <1>1, <1>2, <1>4 DEF UploadsTyped
<1> QED
  BY <1>6, <1>7, <1>8 DEF UploadsInv

\* What is too old goes from the slots.
LEMMA DropExpiredKeeps ==
    ASSUME UploadsInv, NEW beat \in {heartbeat, Nothing}, DropExpired(beat)
    PROVE  UploadsInv'
<1>1. /\ UploadsTyped /\ SentIsHandled /\ lapsed \in [Windows -> Nat]
      /\ reported \in Counts /\ handled \in Counts
      /\ Lined(presence, "presence") /\ Lined(snapshots, "snapshot")
  BY DEF UploadsInv, UploadsTyped
<1>2. /\ snapshots' = Unexpired(snapshots) /\ heartbeat' = beat
      /\ UNCHANGED <<reported, submits, presence, sending, retry, retired, lapsed, wire, handled>>
      /\ (snapshots' = snapshots /\ UNCHANGED <<file, spoilt>>) \/ Persist
  BY DEF DropExpired
<1>3. /\ Lined(snapshots', "snapshot")
      /\ \A r \in Range(snapshots) : r \in Range(snapshots') \/ r.stamp <= lapsed[r.window]
  BY <1>1, <1>2, UnexpiredLeaves
<1>4. Kept(reported, handled, lapsed, presence, snapshots) =>
        Kept(reported, handled, lapsed, presence, snapshots')
  <2>1. \A r \in Range(snapshots) : r.window \in Windows /\ r.stamp \in Nat
    BY <1>1, SlotsHold DEF ReportsOf
  <2>2. \A r \in Range(snapshots) : r \in Range(snapshots') \/ lapsed[r.window] >= r.stamp
    BY <1>1, <1>3, <2>1, Comparable
  <2> QED
    BY <1>1, <2>2, Comparable, KeptOn
<1>5. Lined(presence', "presence") /\ reported' \in Counts /\ handled' \in Counts
  BY <1>1, <1>2
<1>6. spoilt' = "slots" <=> spoilt = "slots"
  BY <1>2 DEF Persist
<1>7. spoilt' # "slots" => Kept(reported', handled', lapsed', presence', snapshots')
  BY <1>2, <1>4, <1>6 DEF UploadsInv
<1>8. /\ spoilt' \in {"no", "file", "slots"}
      /\ file' = [presence |-> file'.presence, snapshots |-> file'.snapshots]
      /\ Lined(file'.presence, "presence") /\ Lined(file'.snapshots, "snapshot")
      /\ spoilt' = "no" =>
           Kept(reported', handled', lapsed', file'.presence, file'.snapshots)
  <2>1. CASE Persist
    BY <1>1, <1>2, <1>3, <1>5, <1>7, <2>1, PersistKeeps
  <2>2. CASE UNCHANGED <<file, spoilt>>
    BY <1>2, <2>2 DEF UploadsInv, UploadsTyped
  <2> QED
    BY <1>2, <2>1, <2>2
<1>9. UploadsTyped'
  BY <1>1, <1>2, <1>3, <1>5, <1>8 DEF UploadsTyped
<1>10. SentIsHandled'
  BY <1>1, <1>2 DEF SentIsHandled
<1> QED
  BY <1>7, <1>8, <1>9, <1>10 DEF UploadsInv

\* The answer to what was sent takes it out of the slots.
LEMMA AnswerKeeps == ASSUME UploadsInv, Succeed \/ Refuse PROVE UploadsInv'
<1>1. /\ UploadsTyped /\ SentIsHandled /\ handled \in Counts /\ reported \in Counts
      /\ lapsed \in [Windows -> Nat] /\ sending \in Beats \cup SavedReports \cup {Nothing}
      /\ wire \subseteq SavedReports
  BY DEF UploadsInv, UploadsTyped
<1>2. /\ sending # Nothing /\ sending' = Nothing /\ Discard(sending)
      /\ UNCHANGED <<reported, submits, retired, lapsed>>
      /\ retry' \in {retry, "now"}
  BY DEF Succeed, Refuse
<1>3. /\ handled' \in Counts /\ wire' \subseteq SavedReports
      /\ \A w \in Windows : /\ handled'["presence"][w] >= handled["presence"][w]
                            /\ handled'["snapshot"][w] >= handled["snapshot"][w]
      /\ sending \in SavedReports => handled'[sending.kind][sending.window] >= sending.stamp
  <2>1. CASE Succeed
    <3>1. handled' = handled /\ wire' = wire /\ sending \notin wire
      BY <2>1 DEF Succeed
    <3> QED
      BY <1>1, <3>1, Comparable DEF SentIsHandled
  <2>2. CASE Refuse
    <3>1. Settle(sending) /\ sending \in Beats \cup SavedReports
      BY <1>1, <1>2, <2>2 DEF Refuse
    <3> QED
      BY <1>1, <3>1, SettleRaises
  <2> QED
    BY <2>1, <2>2
<1>4. /\ Lined(presence', "presence") /\ Lined(snapshots', "snapshot")
      /\ heartbeat' \in Beats \cup {Nothing}
      /\ spoilt' \in {"no", "file", "slots"}
      /\ file' = [presence |-> file'.presence, snapshots |-> file'.snapshots]
      /\ Lined(file'.presence, "presence") /\ Lined(file'.snapshots, "snapshot")
      /\ spoilt' # "slots" => Kept(reported', handled', lapsed', presence', snapshots')
      /\ spoilt' = "no" =>
           Kept(reported', handled', lapsed', file'.presence, file'.snapshots)
  BY <1>2, <1>3, DiscardKeeps
<1>5. SentIsHandled'
  BY <1>2, NothingIsNone DEF SentIsHandled
<1>6. UploadsTyped'
  BY <1>1, <1>2, <1>3, <1>4 DEF UploadsTyped
<1> QED
  BY <1>4, <1>5, <1>6 DEF UploadsInv

\* A queue that is loaded has what the file has, unless it has been spoilt.
LEMMA LoadKeeps == ASSUME UploadsInv, Reset \/ Restart PROVE UploadsInv'
<1>1. /\ UploadsTyped /\ handled \in Counts /\ reported \in Counts
      /\ lapsed \in [Windows -> Nat]
      /\ sending \in Beats \cup SavedReports \cup {Nothing}
      /\ Lined(presence, "presence") /\ Lined(snapshots, "snapshot")
      /\ Lined(file.presence, "presence") /\ Lined(file.snapshots, "snapshot")
  BY DEF UploadsInv, UploadsTyped
<1>2. /\ presence' = file.presence /\ snapshots' = Unexpired(file.snapshots)
      /\ heartbeat' = Nothing /\ sending' = Nothing /\ retry' = "now"
      /\ spoilt' = IF spoilt = "no" THEN "no" ELSE "slots"
      /\ UNCHANGED <<reported, submits, file, lapsed, wire, handled>>
  BY DEF Reset, Restart, Load
<1>3. retired' # Nothing =>
        /\ retired'.sending \in Beats \cup SavedReports
        /\ Lined(retired'.presence, "presence") /\ Lined(retired'.snapshots, "snapshot")
  <2>1. \/ retired' = Nothing
        \/ /\ sending # Nothing
           /\ retired' = [kind |-> "queue", sending |-> sending,
                          presence |-> presence, snapshots |-> snapshots]
    BY DEF Reset, Restart
  <2> QED
    BY <1>1, <2>1
<1>4. /\ Lined(snapshots', "snapshot")
      /\ \A r \in Range(file.snapshots) :
           r \in Range(snapshots') \/ r.stamp <= lapsed[r.window]
  BY <1>1, <1>2, UnexpiredLeaves
<1>5. Kept(reported, handled, lapsed, file.presence, file.snapshots) =>
        Kept(reported, handled, lapsed, presence', snapshots')
  <2>1. \A r \in Range(file.snapshots) : r.window \in Windows /\ r.stamp \in Nat
    BY <1>1, SlotsHold DEF ReportsOf
  <2>2. \A r \in Range(file.snapshots) : r \in Range(snapshots') \/ lapsed[r.window] >= r.stamp
    BY <1>1, <1>4, <2>1, Comparable
  <2> QED
    BY <1>1, <1>2, <2>2, Comparable, KeptOn
<1>6. /\ spoilt' # "slots" => Kept(reported', handled', lapsed', presence', snapshots')
      /\ spoilt' = "no" =>
           Kept(reported', handled', lapsed', file'.presence, file'.snapshots)
  BY <1>2, <1>5 DEF UploadsInv
<1>7. UploadsTyped'
  BY <1>1, <1>2, <1>3, <1>4 DEF UploadsTyped
<1>8. SentIsHandled'
  BY <1>2, NothingIsNone DEF SentIsHandled
<1> QED
  BY <1>6, <1>7, <1>8 DEF UploadsInv

\* A replaced queue that writes the file spoils it, unless it writes what the queue
\* in use would.
LEMMA RetiredKeeps ==
    ASSUME UploadsInv, NEW answered \in BOOLEAN, RetiredEnds(answered)
    PROVE  UploadsInv'
<1>1. /\ UploadsTyped /\ SentIsHandled /\ handled \in Counts /\ reported \in Counts
      /\ lapsed \in [Windows -> Nat] /\ spoilt \in {"no", "file", "slots"}
      /\ Lined(presence, "presence") /\ Lined(snapshots, "snapshot")
      /\ Lined(retired.presence, "presence") /\ Lined(retired.snapshots, "snapshot")
  BY DEF UploadsInv, UploadsTyped, RetiredEnds
<1>2. /\ retired' = Nothing
      /\ UNCHANGED <<reported, submits, presence, snapshots, heartbeat, sending, retry, lapsed,
                     wire, handled>>
  BY DEF RetiredEnds, slots
<1> DEFINE ps == Without(retired.presence, {retired.sending})
           ss == Without(retired.snapshots, {retired.sending})
<1>3. \/ UNCHANGED <<file, spoilt>>
      \/ /\ file' = OnDisk(ps, ss)
         /\ spoilt' = IF spoilt = "no" /\ file' # OnDisk(presence, snapshots)
                      THEN "file" ELSE spoilt
  BY DEF RetiredEnds
<1>4. Lined(ps, "presence") /\ Lined(ss, "snapshot")
  BY <1>1, SlotsLeft
<1> HIDE DEF ps, ss
<1>5. /\ spoilt' \in {"no", "file", "slots"}
      /\ file' = [presence |-> file'.presence, snapshots |-> file'.snapshots]
      /\ Lined(file'.presence, "presence") /\ Lined(file'.snapshots, "snapshot")
      /\ spoilt' = "slots" <=> spoilt = "slots"
  <2>1. CASE UNCHANGED <<file, spoilt>>
    BY <1>1, <2>1 DEF UploadsTyped
  <2>2. CASE /\ file' = OnDisk(ps, ss)
             /\ spoilt' = IF spoilt = "no" /\ file' # OnDisk(presence, snapshots)
                          THEN "file" ELSE spoilt
    <3>1. /\ OnDisk(ps, ss) = [presence |-> OnDisk(ps, ss).presence,
                               snapshots |-> OnDisk(ps, ss).snapshots]
          /\ Lined(OnDisk(ps, ss).presence, "presence")
          /\ Lined(OnDisk(ps, ss).snapshots, "snapshot")
      BY <1>1, <1>4, OnDiskKeeps
    <3>2. spoilt' \in {"no", "file", "slots"} /\ (spoilt' = "slots" <=> spoilt = "slots")
      BY <1>1, <2>2
    <3> QED
      BY <2>2, <3>1, <3>2
  <2> QED
    BY <1>3, <2>1, <2>2
<1>6. spoilt' # "slots" => Kept(reported', handled', lapsed', presence', snapshots')
  BY <1>2, <1>5 DEF UploadsInv
<1>7. spoilt' = "no" => Kept(reported', handled', lapsed', file'.presence, file'.snapshots)
  <2>1. CASE UNCHANGED <<file, spoilt>>
    BY <1>2, <2>1 DEF UploadsInv
  <2>2. CASE spoilt' = "no" /\ file' = OnDisk(presence, snapshots)
    <3>1. Kept(reported, handled, lapsed, presence, snapshots)
      BY <1>2, <1>6, <2>2
    <3>2. Kept(reported, handled, lapsed, OnDisk(presence, snapshots).presence,
               OnDisk(presence, snapshots).snapshots)
      BY <1>1, <3>1, OnDiskKeeps
    <3> QED
      BY <1>2, <2>2, <3>2
  <2>3. spoilt' = "no" => UNCHANGED <<file, spoilt>> \/ file' = OnDisk(presence, snapshots)
    BY <1>3
  <2> QED
    BY <2>1, <2>2, <2>3
<1>8. UploadsTyped'
  BY <1>1, <1>2, <1>5 DEF UploadsTyped
<1>9. SentIsHandled'
  BY <1>1, <1>2 DEF SentIsHandled
<1> QED
  BY <1>6, <1>7, <1>8, <1>9 DEF UploadsInv

\* Each step of the queue keeps the invariant.
LEMMA UploadsStep == UploadsInv /\ [UploadsNext]_uploads => UploadsInv'
<1> SUFFICES ASSUME UploadsInv, [UploadsNext]_uploads PROVE UploadsInv'
  OBVIOUS
<1>1. CASE UNCHANGED uploads
  <2>1. UNCHANGED <<reported, submits, presence, snapshots, heartbeat, sending, retry, file,
                    retired, spoilt, lapsed, wire, handled>>
    BY <1>1 DEF uploads, slots
  <2>2. UploadsTyped' /\ SentIsHandled'
    BY <2>1 DEF UploadsInv, UploadsTyped, SentIsHandled
  <2> QED
    BY <2>1, <2>2 DEF UploadsInv
<1>2. CASE Submissions
  BY <1>2, SubmitKeeps, ThreadKeeps DEF Submissions
<1>3. CASE \E w \in Windows : Lapse(w)
  BY <1>3, LapseKeeps
<1>4. CASE BeatComesDue \/ BackOffEnds
  BY <1>4, ThreadKeeps
<1>5. CASE UploadPass \/ DropExpired(Nothing)
  BY <1>5, SendKeeps, DropExpiredKeeps DEF UploadPass
<1>6. CASE \E sent \in wire : Handle(sent)
  BY <1>6, HandleKeeps
<1>7. CASE Succeed \/ UploadFaults
  BY <1>7, AnswerKeeps, ThreadKeeps DEF UploadFaults
<1>8. CASE Reset \/ Restart
  BY <1>8, LoadKeeps
<1>9. CASE \E answered \in BOOLEAN : RetiredEnds(answered)
  BY <1>9, RetiredKeeps
<1> QED
  BY <1>1, <1>2, <1>3, <1>4, <1>5, <1>6, <1>7, <1>8, <1>9 DEF UploadsNext

\* The invariant gives what the runs check.
LEMMA UploadsInvGives == UploadsInv => UploadsTypeOK /\ NothingForgotten
<1> SUFFICES ASSUME UploadsInv PROVE UploadsTypeOK /\ NothingForgotten
  OBVIOUS
<1>1. NothingForgotten
  BY DEF UploadsInv, Kept, NothingForgotten
<1> DEFINE others == [kind : Saved, window : Windows, stamp : Nat \ {0}]
<1>2. \A r \in SavedReports : r \in others /\ r.kind # "heartbeat"
  BY DEF SavedReports, ReportsOf, Saved
<1>3. \A kind, queue : Lined(queue, kind) =>
        /\ queue \in Seq(ReportsOf(kind))
        /\ IsInjective([i \in DOMAIN queue |-> queue[i].window])
  BY DEF Lined, IsInjective
<1>4. UploadsTyped
  BY DEF UploadsInv
<1>5. file \in [presence : Seq(ReportsOf("presence")), snapshots : Seq(ReportsOf("snapshot"))]
  <2> DEFINE P == Seq(ReportsOf("presence"))
             S == Seq(ReportsOf("snapshot"))
             f == file
  <2>1. f = [presence |-> f.presence, snapshots |-> f.snapshots] /\ f.presence \in P /\ f.snapshots \in S
    BY <1>3, <1>4 DEF UploadsTyped
  <2> HIDE DEF P, S
  <2>2. f \in [presence : P, snapshots : S]
    BY <2>1
  <2> QED
    BY <2>2 DEF P, S
<1>6. /\ <<presence, snapshots>> \in Seq(ReportsOf("presence")) \X Seq(ReportsOf("snapshot"))
      /\ IsInjective([i \in DOMAIN presence |-> presence[i].window])
      /\ IsInjective([i \in DOMAIN snapshots |-> snapshots[i].window])
      /\ heartbeat \in Beats \cup {Nothing}
      /\ sending \in (Beats \cup others) \cup {Nothing}
      /\ \A r \in wire : r \in Beats \cup others /\ r.kind # "heartbeat"
      /\ retry \in {"now", "later", "never"}
      /\ retired # Nothing => retired.sending \in Beats \cup others
      /\ spoilt \in {"no", "file", "slots"}
  <2> HIDE DEF others
  <2> QED
    BY <1>2, <1>3, <1>4 DEF UploadsTyped
<1>7. UploadsTypeOK
  BY <1>5, <1>6, Zenon DEF UploadsTypeOK, ReportsOf, Beats
<1> QED
  BY <1>1, <1>7

\* The client behind the windows does nothing else to the uploads.
LEMMA WorkersRunUploads == Spec => UploadsSpec
<1>1. Init => UploadsInit
  BY DEF Init
<1>2. [Next]_vars => [UploadsNext]_uploads
  BY DEF Next, ByUploads, ByNames, ByUpdates, vars
<1>3. QED
  BY <1>1, <1>2, PTL DEF Spec, UploadsSpec

\* The invariant holds throughout.
LEMMA UploadsStayKept == Spec => []UploadsInv
<1>1. UploadsSpec => []UploadsInv
  BY UploadsStart, UploadsStep, PTL DEF UploadsSpec
<1>2. QED
  BY <1>1, WorkersRunUploads, PTL

\* The slots, the file and the queue that was replaced stay in their types, with one
\* slot of a kind for a window, whatever fails and whenever the client ends.
THEOREM UploadTypesCorrect == Spec => []UploadsTypeOK
BY UploadsStayKept, UploadsInvGives, PTL

\* The latest count and the latest names of every window wait to be sent until the
\* server has handled them or they are too old, through failures, replaced queues and
\* restarts (reliable_uploads.py 303).
THEOREM NothingIsForgotten == Spec => []NothingForgotten
BY UploadsStayKept, UploadsInvGives, PTL

-----------------------------------------------------------------------------
QuerySpec == QueryInit /\ [][QueryNext]_query

-----------------------------------------------------------------------------
(* The names: the inductive invariant.                                     *)

Requests == [window : QueryWindows, query : BOOLEAN, orphan : BOOLEAN, stale : BOOLEAN]

\* A request of the worker that a window has now.
Own(r, w) == r.window = w /\ ~r.orphan

InSlot(r, w) == r # Free /\ Own(r, w)

\* Who waits has one request of its own, in the line or in the slot.
Waiting(requests, current, wants) ==
    \A w \in QueryWindows :
        /\ \A i, j \in DOMAIN requests : Own(requests[i], w) /\ Own(requests[j], w) => i = j
        /\ InSlot(current, w) => \A i \in DOMAIN requests : ~Own(requests[i], w)
        /\ wants[w] # {} <=>
            InSlot(current, w) \/ \E i \in DOMAIN requests : Own(requests[i], w)

WorkersTyped ==
    /\ worker \in [QueryWindows -> {"on", "closing", "off"}]
    /\ late \subseteq QueryWindows /\ unread \subseteq QueryWindows
    /\ retries \in [QueryWindows -> 0..3]
    /\ attempts \in [QueryWindows -> {"none", "first", "second"}]
    /\ busy \in [QueryWindows -> SUBSET {"roster", "query"}]

SlotTyped == line \in Seq(Requests) /\ running \in Requests \cup {Free}

AnswersTyped ==
    /\ targets \subseteq QueryWindows /\ results \subseteq QueryWindows
    /\ inbox \subseteq QueryWindows /\ inflight \subseteq QueryWindows
    /\ completed \subseteq QueryWindows /\ stranded \subseteq QueryWindows
    /\ job \in {"none", "pending", "completed", "timed_out"}
    /\ upload \in [QueryWindows -> {"none", "pending", "taken"}]
    /\ uploaded \in [QueryWindows -> Nat]

\* A worker that waits for the slot with the query has the query, and it is on.
WorkersAgree ==
    \A w \in QueryWindows :
        /\ "query" \in busy[w] => attempts[w] # "none"
        /\ worker[w] # "on" => busy[w] = {}

\* A window that has submitted its result is not asked again before the deadline.
OneResult ==
    \A w \in QueryWindows :
        /\ uploaded[w] <= 1
        /\ ~expired /\ uploaded[w] = 1 =>
            w \in inflight \cup completed /\ attempts[w] = "none"

\* Before there is a query nobody knows of one, and what the server has taken it has.
ServerAgrees ==
    /\ job = "none" =>
        /\ inbox = {} /\ inflight = {} /\ completed = {}
        /\ \A w \in QueryWindows : upload[w] = "none"
    /\ job = "pending" =>
        \A w \in QueryWindows : upload[w] = "taken" \/ w \in completed => w \in results

\* No command is lost but in the two cases.
NoneLost ==
    job = "pending" /\ ~expired =>
        \A w \in targets \ results : OnItsWay(w) \/ w \in stranded

QueryInv ==
    /\ WorkersTyped /\ SlotTyped /\ AnswersTyped /\ expired \in BOOLEAN
    /\ Waiting(line, running, busy)
    /\ WorkersAgree /\ OneResult /\ ServerAgrees /\ NoneLost

-----------------------------------------------------------------------------
(* Requests.                                                               *)

\* The workers' requests are requests, of a worker a window has unless it was stopped.
LEMMA RequestIs ==
    ASSUME NEW w \in QueryWindows, NEW wants, NEW b \in BOOLEAN
    PROVE  /\ Request(w, wants, b) \in Requests
           /\ \A v : Own(Request(w, wants, FALSE), v) <=> v = w
           /\ \A v : ~Own(Request(w, wants, TRUE), v)
<1>1. (wants # Names) \in BOOLEAN /\ FALSE \in BOOLEAN
  OBVIOUS
<1>2. Request(w, wants, b) \in Requests
  BY <1>1, Zenon DEF Request, Requests
<1>3. \A v : Own(Request(w, wants, FALSE), v) <=> v = w
  BY Zenon DEF Request, Own
<1>4. \A v : ~Own(Request(w, wants, TRUE), v)
  BY Zenon DEF Request, Own
<1> QED
  BY <1>2, <1>3, <1>4

\* A request that is marked stale is still its worker's, and an orphan is nobody's.
LEMMA MarkedIs ==
    ASSUME NEW r \in Requests
    PROVE  /\ [r EXCEPT !.stale = TRUE] \in Requests
           /\ [r EXCEPT !.orphan = TRUE] \in Requests
           /\ \A v : Own([r EXCEPT !.stale = TRUE], v) <=> Own(r, v)
           /\ \A v : ~Own([r EXCEPT !.orphan = TRUE], v)
<1>1. /\ r.window \in QueryWindows /\ r.query \in BOOLEAN /\ r.orphan \in BOOLEAN
      /\ r.stale \in BOOLEAN /\ TRUE \in BOOLEAN
      /\ r = [window |-> r.window, query |-> r.query, orphan |-> r.orphan, stale |-> r.stale]
  BY Zenon DEF Requests
<1>2. [r EXCEPT !.stale = TRUE] \in Requests /\ [r EXCEPT !.orphan = TRUE] \in Requests
  BY <1>1, Zenon DEF Requests
<1>3. \A v : Own([r EXCEPT !.stale = TRUE], v) <=> Own(r, v)
  BY <1>1, Zenon DEF Requests, Own
<1>4. \A v : ~Own([r EXCEPT !.orphan = TRUE], v)
  BY <1>1, Zenon DEF Requests, Own
<1> QED
  BY <1>2, <1>3, <1>4

\* The waiters are those whose own requests these are.
LEMMA WaitersAre ==
    ASSUME NEW requests, NEW w
    PROVE  w \in Waiters(requests) <=> \E r \in requests : Own(r, w)
BY Zenon DEF Waiters, Own

\* What is left of a line are places of it, each once.
LEMMA LineLeft ==
    ASSUME NEW requests \in Seq(Requests), NEW gone, NEW left, left = Without(requests, gone)
    PROVE  /\ left \in Seq(Requests)
           /\ \E pick \in [DOMAIN left -> DOMAIN requests] :
              /\ \A n \in DOMAIN left : left[n] = requests[pick[n]] /\ requests[pick[n]] \notin gone
              /\ \A m, n \in DOMAIN left : pick[m] = pick[n] => m = n
              /\ \A i \in DOMAIN requests :
                   requests[i] \notin gone => \E n \in DOMAIN left : pick[n] = i
BY WithoutIs

\* A new request cancels others, with their workers' waits, and goes last.
LEMMA EnqueueKeeps ==
    ASSUME SlotTyped, Waiting(line, running, busy), NEW new \in Requests, Enqueue(new),
           NEW asking, busy' = [w \in QueryWindows |->
                                  IF w \in Waiters(Cancelled(new)) THEN {} ELSE asking[w]],
           \A w \in QueryWindows :
                IF Own(new, w) THEN busy[w] = {} /\ asking[w] # {} ELSE asking[w] = busy[w]
    PROVE  SlotTyped' /\ Waiting(line, running, busy)'
<1> DEFINE gone == Cancelled(new)
           left == Without(line, gone)
<1>1. line \in Seq(Requests) /\ running \in Requests \cup {Free}
  BY DEF SlotTyped
<1>2. /\ line' = Append(left, new)
      /\ running' \in {running, [running EXCEPT !.stale = TRUE]}
      /\ running = Free => running' = Free
  BY DEF Enqueue
<1>3. Free \notin Requests
  <2>1. \A r \in Requests : DOMAIN r = {"window", "query", "orphan", "stale"}
    BY Zenon DEF Requests
  <2>2. DOMAIN Free = {"window"}
    BY Zenon DEF Free
  <2>3. "query" \notin {"window"}
    OBVIOUS
  <2> QED
    BY <2>1, <2>2, <2>3
<1>4. running' \in Requests \cup {Free} /\ \A w : InSlot(running', w) <=> InSlot(running, w)
  <2>1. CASE running = Free
    BY <1>1, <1>2, <2>1 DEF InSlot
  <2>2. CASE running # Free
    <3>1. running \in Requests
      BY <1>1, <2>2
    <3>2. running' \in Requests /\ \A w : Own(running', w) <=> Own(running, w)
      BY <1>2, <3>1, MarkedIs
    <3> QED
      BY <1>3, <2>2, <3>2 DEF InSlot
  <2> QED
    BY <2>1, <2>2
<1>5. /\ left \in Seq(Requests)
      /\ \E pick \in [DOMAIN left -> DOMAIN line] :
          /\ \A n \in DOMAIN left : left[n] = line[pick[n]] /\ line[pick[n]] \notin gone
          /\ \A m, n \in DOMAIN left : pick[m] = pick[n] => m = n
          /\ \A i \in DOMAIN line : line[i] \notin gone => \E n \in DOMAIN left : pick[n] = i
  <2>1. line \in Seq(Requests) /\ left = Without(line, gone)
    BY <1>1
  <2> HIDE DEF gone, left
  <2> QED
    BY <2>1, LineLeft
<1>6. \A r \in gone : \E i \in DOMAIN line : line[i] = r
  BY DEF Cancelled
<1> HIDE DEF gone, left
<1>7. PICK pick \in [DOMAIN left -> DOMAIN line] :
          /\ \A n \in DOMAIN left : left[n] = line[pick[n]] /\ line[pick[n]] \notin gone
          /\ \A m, n \in DOMAIN left : pick[m] = pick[n] => m = n
          /\ \A i \in DOMAIN line : line[i] \notin gone => \E n \in DOMAIN left : pick[n] = i
  BY <1>5, Zenon
<1> DEFINE L == Len(left)
<1>8. /\ L \in Nat /\ DOMAIN left = 1..L
      /\ line' \in Seq(Requests) /\ DOMAIN line' = 1..(L + 1)
      /\ line'[L + 1] = new /\ \A i \in 1..L : line'[i] = left[i]
  BY <1>2, <1>5
<1> HIDE DEF L
<1>9. \A i \in 1..(L + 1) : i \in 1..L \/ i = L + 1
  BY <1>8
<1>10. ASSUME NEW w \in QueryWindows
       PROVE  /\ \A i, j \in DOMAIN line' : Own(line'[i], w) /\ Own(line'[j], w) => i = j
              /\ InSlot(running', w) => \A i \in DOMAIN line' : ~Own(line'[i], w)
              /\ busy'[w] # {} <=>
                    InSlot(running', w) \/ \E i \in DOMAIN line' : Own(line'[i], w)
  <2>1. /\ \A i, j \in DOMAIN line : Own(line[i], w) /\ Own(line[j], w) => i = j
        /\ InSlot(running, w) => \A i \in DOMAIN line : ~Own(line[i], w)
        /\ busy[w] # {} <=> InSlot(running, w) \/ \E i \in DOMAIN line : Own(line[i], w)
    BY DEF Waiting
  <2>2. w \in Waiters(gone) <=> \E r \in gone : Own(r, w)
    BY WaitersAre
  <2>3. busy'[w] = IF w \in Waiters(gone) THEN {} ELSE asking[w]
    BY DEF gone
  <2>4. /\ \A i, j \in DOMAIN left : Own(left[i], w) /\ Own(left[j], w) => i = j
        /\ \A n \in DOMAIN left : Own(left[n], w) => pick[n] \in DOMAIN line /\ Own(line[pick[n]], w)
    BY <1>7, <2>1
  <2>5. CASE Own(new, w)
    <3>1. busy[w] = {} /\ asking[w] # {}
      BY <2>5
    <3>2. /\ \A i \in DOMAIN line : ~Own(line[i], w)
          /\ ~InSlot(running, w)
      BY <2>1, <3>1
    <3>3. \A n \in DOMAIN left : ~Own(left[n], w)
      BY <2>4, <3>2
    <3>4. w \notin Waiters(gone)
      BY <1>6, <2>2, <3>2
    <3> QED
      BY <1>4, <1>8, <1>9, <2>3, <2>5, <3>1, <3>2, <3>3, <3>4
  <2>6. CASE ~Own(new, w)
    <3>1. asking[w] = busy[w]
      BY <2>6
    <3>2. \A i \in DOMAIN line' : Own(line'[i], w) <=> i \in 1..L /\ Own(left[i], w)
      BY <1>8, <1>9, <2>6
    <3>3. \A i, j \in DOMAIN line' : Own(line'[i], w) /\ Own(line'[j], w) => i = j
      BY <1>8, <2>4, <3>2
    <3>4. InSlot(running', w) => \A i \in DOMAIN line' : ~Own(line'[i], w)
      BY <1>4, <1>8, <2>1, <2>4, <3>2
    <3>5. CASE w \in Waiters(gone)
      <4>1. PICK r \in gone : Own(r, w)
        BY <2>2, <3>5
      <4>2. PICK k \in DOMAIN line : line[k] = r
        BY <1>6
      <4>3. ~InSlot(running, w) /\ \A i \in DOMAIN line : Own(line[i], w) => i = k
        BY <2>1, <4>1, <4>2
      <4>4. \A n \in DOMAIN left : ~Own(left[n], w)
        BY <1>7, <2>4, <4>2, <4>3
      <4> QED
        BY <1>4, <1>8, <2>3, <3>2, <3>3, <3>5, <4>3, <4>4
    <3>6. CASE w \notin Waiters(gone)
      <4>1. \A i \in DOMAIN line : Own(line[i], w) => line[i] \notin gone
        BY <2>2, <3>6
      <4>2. (\E i \in DOMAIN line : Own(line[i], w)) => \E n \in DOMAIN left : Own(left[n], w)
        BY <1>7, <4>1
      <4>3. (\E n \in DOMAIN left : Own(left[n], w)) => \E i \in DOMAIN line : Own(line[i], w)
        BY <2>4
      <4>4. (\E i \in DOMAIN line' : Own(line'[i], w)) <=> \E n \in DOMAIN left : Own(left[n], w)
        BY <1>8, <1>9, <3>2
      <4> QED
        BY <1>4, <2>1, <2>3, <3>1, <3>3, <3>4, <3>6, <4>2, <4>3, <4>4
    <3> QED
      BY <3>5, <3>6
  <2> QED
    BY <2>5, <2>6
<1>11. Waiting(line', running', busy')
  BY <1>10, Zenon DEF Waiting
<1> QED
  BY <1>4, <1>8, <1>11, Zenon DEF SlotTyped

\* The slot that is empty holds no request.
LEMMA FreeIsNone == Free \notin Requests /\ \A w : ~InSlot(Free, w)
<1>1. \A r \in Requests : DOMAIN r = {"window", "query", "orphan", "stale"}
  BY Zenon DEF Requests
<1>2. DOMAIN Free = {"window"}
  BY Zenon DEF Free
<1>3. "query" \notin {"window"}
  OBVIOUS
<1> QED
  BY <1>1, <1>2, <1>3 DEF InSlot

\* Whoever waited for the request in the slot waits no more when it is done.
LEMMA SlotEmpties ==
    ASSUME SlotTyped, Waiting(line, running, busy), running # Free,
           running' = Free, line' = line,
           \A w \in QueryWindows : busy'[w] = IF Own(running, w) THEN {} ELSE busy[w]
    PROVE  SlotTyped' /\ Waiting(line, running, busy)'
<1>1. SlotTyped'
  BY DEF SlotTyped
<1>2. ASSUME NEW w \in QueryWindows
      PROVE  /\ \A i, j \in DOMAIN line' : Own(line'[i], w) /\ Own(line'[j], w) => i = j
             /\ InSlot(running', w) => \A i \in DOMAIN line' : ~Own(line'[i], w)
             /\ busy'[w] # {} <=>
                    InSlot(running', w) \/ \E i \in DOMAIN line' : Own(line'[i], w)
  BY FreeIsNone DEF Waiting, InSlot
<1>3. Waiting(line', running', busy')
  BY <1>2, Zenon DEF Waiting
<1> QED
  BY <1>1, <1>3, Zenon

\* The slot takes the first of the line.
LEMMA StartKeeps ==
    ASSUME SlotTyped, Waiting(line, running, busy), StartOcr
    PROVE  SlotTyped' /\ Waiting(line, running, busy)'
<1>1. /\ line \in Seq(Requests) /\ line # <<>> /\ running = Free
      /\ running' = Head(line) /\ line' = Tail(line) /\ busy' = busy
  BY DEF SlotTyped, StartOcr, client
<1> DEFINE size == Len(line)
<1>2. /\ size \in Nat \ {0} /\ DOMAIN line = 1..size
      /\ Head(line) = line[1] /\ line[1] \in Requests
      /\ line' \in Seq(Requests) /\ DOMAIN line' = 1..(size - 1)
      /\ \A i \in 1..(size - 1) : line'[i] = line[i + 1]
  BY <1>1
<1> HIDE DEF size
<1>3. running' \in Requests /\ running' = line[1] /\ running' # Free
  BY <1>1, <1>2, FreeIsNone
<1>4. SlotTyped'
  BY <1>2, <1>3 DEF SlotTyped
<1>5. ASSUME NEW w \in QueryWindows
      PROVE  /\ \A i, j \in DOMAIN line' : Own(line'[i], w) /\ Own(line'[j], w) => i = j
             /\ InSlot(running', w) => \A i \in DOMAIN line' : ~Own(line'[i], w)
             /\ busy'[w] # {} <=>
                    InSlot(running', w) \/ \E i \in DOMAIN line' : Own(line'[i], w)
  <2>1. /\ \A i, j \in DOMAIN line : Own(line[i], w) /\ Own(line[j], w) => i = j
        /\ busy[w] # {} <=> \E i \in DOMAIN line : Own(line[i], w)
    BY <1>1, FreeIsNone DEF Waiting
  <2>2. InSlot(running', w) <=> Own(line[1], w)
    BY <1>3 DEF InSlot
  <2>3. \A i \in DOMAIN line' :
           i \in Int /\ i + 1 \in DOMAIN line /\ i + 1 # 1 /\ line'[i] = line[i + 1]
    BY <1>2
  <2>8. 1 \in DOMAIN line
    BY <1>2
  <2>4. \A i, j \in DOMAIN line' : Own(line'[i], w) /\ Own(line'[j], w) => i = j
    <3> SUFFICES ASSUME NEW i \in DOMAIN line', NEW j \in DOMAIN line',
                        Own(line'[i], w), Own(line'[j], w)
                 PROVE  i = j
      OBVIOUS
    <3>1. i + 1 = j + 1
      BY <2>1, <2>3
    <3> QED
      BY <2>3, <3>1
  <2>5. InSlot(running', w) => \A i \in DOMAIN line' : ~Own(line'[i], w)
    <3> SUFFICES ASSUME Own(line[1], w), NEW i \in DOMAIN line', Own(line'[i], w)
                 PROVE  FALSE
      BY <2>2
    <3> QED
      BY <2>1, <2>3, <2>8
  <2>6. (\E i \in DOMAIN line : Own(line[i], w)) =>
            Own(line[1], w) \/ \E i \in DOMAIN line' : Own(line'[i], w)
    <3>1. ASSUME NEW i \in DOMAIN line, Own(line[i], w), i # 1
          PROVE  \E j \in DOMAIN line' : Own(line'[j], w)
      <4>1. i - 1 \in DOMAIN line' /\ line'[i - 1] = line[i]
        BY <1>2, <3>1
      <4> QED
        BY <3>1, <4>1
    <3> QED
      BY <3>1
  <2>7. Own(line[1], w) \/ (\E i \in DOMAIN line' : Own(line'[i], w)) =>
            \E i \in DOMAIN line : Own(line[i], w)
    BY <1>2, <2>3
  <2> QED
    BY <1>1, <2>1, <2>2, <2>4, <2>5, <2>6, <2>7
<1>6. Waiting(line', running', busy')
  BY <1>5, Zenon DEF Waiting
<1> QED
  BY <1>4, <1>6, Zenon

\* The requests of a worker that is stopped are nobody's, and nobody waits for them.
LEMMA OrphanedKeeps ==
    ASSUME SlotTyped, Waiting(line, running, busy), NEW w \in QueryWindows, Orphaned(w),
           busy \in [QueryWindows -> SUBSET {"roster", "query"}],
           busy' = [busy EXCEPT ![w] = {}]
    PROVE  SlotTyped' /\ Waiting(line, running, busy)'
<1>1. line \in Seq(Requests) /\ running \in Requests \cup {Free}
  BY DEF SlotTyped
<1>2. \A i \in DOMAIN line : line[i] \in Requests
  BY <1>1
<1>3. /\ line' = [i \in DOMAIN line |->
                    IF line[i].window = w THEN [line[i] EXCEPT !.orphan = TRUE] ELSE line[i]]
      /\ running' = IF running # Free /\ running.window = w
                    THEN [running EXCEPT !.orphan = TRUE] ELSE running
  BY DEF Orphaned
<1>4. /\ DOMAIN line' = DOMAIN line
      /\ \A i \in DOMAIN line : line'[i] \in Requests
      /\ \A i \in DOMAIN line : \A v : Own(line'[i], v) <=> v # w /\ Own(line[i], v)
  <2>1. ASSUME NEW i \in DOMAIN line
        PROVE  /\ line'[i] \in Requests
               /\ \A v : Own(line'[i], v) <=> v # w /\ Own(line[i], v)
    <3>1. line'[i] = IF line[i].window = w THEN [line[i] EXCEPT !.orphan = TRUE] ELSE line[i]
      BY <1>3
    <3>2. \A v : Own(line[i], v) => line[i].window = v
      BY Zenon DEF Own
    <3>3. CASE line[i].window = w
      BY <1>2, <3>1, <3>2, <3>3, MarkedIs
    <3>4. CASE line[i].window # w
      BY <1>2, <3>1, <3>2, <3>4
    <3> QED
      BY <3>3, <3>4
  <2> QED
    BY <1>3, <2>1
<1>5. line' \in Seq(Requests)
  <2>1. Len(line) \in Nat /\ DOMAIN line = 1..Len(line)
    BY <1>1
  <2>2. line' = [i \in 1..Len(line) |-> line'[i]]
    BY <1>3, <2>1
  <2> DEFINE n == Len(line)
             new == line'
  <2>3. n \in Nat /\ new = [i \in 1..n |-> new[i]] /\ \A i \in 1..n : new[i] \in Requests
    BY <1>4, <2>1, <2>2
  <2> HIDE DEF n, new
  <2>4. new \in Seq(Requests)
    BY <2>3
  <2> QED
    BY <2>4 DEF new
<1>6. /\ running' \in Requests \cup {Free}
      /\ \A v : InSlot(running', v) <=> v # w /\ InSlot(running, v)
  <2>1. \A v : Own(running, v) => running.window = v
    BY Zenon DEF Own
  <2>2. CASE running = Free
    BY <1>3, <2>2, FreeIsNone
  <2>3. CASE running # Free /\ running.window = w
    <3>1. /\ running \in Requests /\ running' = [running EXCEPT !.orphan = TRUE]
      BY <1>1, <1>3, <2>3
    <3>2. running' \in Requests /\ \A v : ~Own(running', v)
      BY <3>1, MarkedIs
    <3> QED
      BY <2>1, <2>3, <3>2 DEF InSlot
  <2>4. CASE running # Free /\ running.window # w
    BY <1>1, <1>3, <2>1, <2>4 DEF InSlot
  <2> QED
    BY <2>2, <2>3, <2>4
<1>7. ASSUME NEW v \in QueryWindows
      PROVE  /\ \A i, j \in DOMAIN line' : Own(line'[i], v) /\ Own(line'[j], v) => i = j
             /\ InSlot(running', v) => \A i \in DOMAIN line' : ~Own(line'[i], v)
             /\ busy'[v] # {} <=>
                    InSlot(running', v) \/ \E i \in DOMAIN line' : Own(line'[i], v)
  <2>1. busy'[v] = IF v = w THEN {} ELSE busy[v]
    OBVIOUS
  <2>2. /\ \A i, j \in DOMAIN line : Own(line[i], v) /\ Own(line[j], v) => i = j
        /\ InSlot(running, v) => \A i \in DOMAIN line : ~Own(line[i], v)
        /\ busy[v] # {} <=> InSlot(running, v) \/ \E i \in DOMAIN line : Own(line[i], v)
    BY DEF Waiting
  <2> QED
    BY <1>4, <1>6, <2>1, <2>2
<1>8. Waiting(line', running', busy')
  BY <1>7, Zenon DEF Waiting
<1> QED
  BY <1>5, <1>6, <1>8, Zenon DEF SlotTyped

-----------------------------------------------------------------------------
(* Commands and answers.                                                   *)

\* The numbers of retries stay small.
LEMMA RetriesAre ==
    ASSUME NEW n \in 0..3
    PROVE  Max({1, n}) \in 0..3 /\ Max({0, n - 1}) \in 0..3
<1>1. Max({1, n}) \in {1, n}
  BY GreaterOfTwo
<1>2. Max({0, n - 1}) \in {0, n - 1} /\ Max({0, n - 1}) >= 0
  <2> DEFINE m == n - 1
  <2>1. m \in Int
    OBVIOUS
  <2> HIDE DEF m
  <2>2. Max({0, m}) \in {0, m} /\ Max({0, m}) >= 0
    BY <2>1, GreaterOfTwo
  <2> QED
    BY <2>2 DEF m
<1> QED
  BY <1>1, <1>2

\* A query that has failed twice is given up, and its window may be asked again.
LEMMA FailureIs ==
    ASSUME WorkersTyped, AnswersTyped, NEW ws \in SUBSET QueryWindows, FailQueries(ws)
    PROVE  /\ attempts' \in [QueryWindows -> {"none", "first", "second"}]
           /\ inflight' \subseteq inflight
           /\ \A w \in QueryWindows :
                /\ attempts[w] = "none" => attempts'[w] = "none" /\ (w \in inflight => w \in inflight')
                /\ attempts[w] # "none" /\ attempts'[w] = "none" => w \notin inflight'
                /\ w \notin ws => attempts'[w] = attempts[w]
<1>1. attempts \in [QueryWindows -> {"none", "first", "second"}]
  BY DEF WorkersTyped
<1>2. /\ attempts' = [w \in QueryWindows |->
                        IF w \in Failing(ws) THEN AfterFailure(w) ELSE attempts[w]]
      /\ inflight' = inflight \ {w \in Failing(ws) : attempts[w] = "second"}
      /\ Failing(ws) \subseteq ws
  BY DEF FailQueries, Failing
<1>3. \A w : AfterFailure(w) = IF attempts[w] = "first" THEN "second" ELSE "none"
  BY DEF AfterFailure
<1>4. \A w \in QueryWindows :
        /\ attempts'[w] = IF w \in Failing(ws) THEN AfterFailure(w) ELSE attempts[w]
        /\ w \in inflight' <=> w \in inflight /\ ~(w \in Failing(ws) /\ attempts[w] = "second")
  BY <1>2
<1> QED
  BY <1>1, <1>2, <1>3, <1>4

\* Superseded workers wait no more; a query that fails so is treated as failed.
LEMMA SupersedeIs ==
    ASSUME WorkersTyped, AnswersTyped, NEW ws \in SUBSET QueryWindows,
           NEW asking \in [QueryWindows -> SUBSET {"roster", "query"}],
           NEW left \in [QueryWindows -> 0..3],
           Supersede(ws, asking, left)
    PROVE  /\ busy' = [w \in QueryWindows |-> IF w \in ws THEN {} ELSE asking[w]]
           /\ busy' \in [QueryWindows -> SUBSET {"roster", "query"}]
           /\ retries' \in [QueryWindows -> 0..3] /\ unread' = unread
           /\ attempts' \in [QueryWindows -> {"none", "first", "second"}]
           /\ inflight' \subseteq inflight
           /\ \A w \in QueryWindows :
                /\ attempts[w] = "none" => attempts'[w] = "none" /\ (w \in inflight => w \in inflight')
                /\ attempts[w] # "none" /\ attempts'[w] = "none" => w \notin inflight'
                /\ busy'[w] = {} \/ attempts'[w] = attempts[w]
<1>1. /\ busy' = [w \in QueryWindows |-> IF w \in ws THEN {} ELSE asking[w]]
      /\ retries' = [w \in QueryWindows |-> IF w \in ws THEN Max({1, left[w]}) ELSE left[w]]
      /\ FailQueries(ws) /\ unread' = unread
  BY DEF Supersede
<1>2. retries' \in [QueryWindows -> 0..3]
  BY <1>1, RetriesAre
<1>3. busy' \in [QueryWindows -> SUBSET {"roster", "query"}]
  BY <1>1
<1>4. /\ attempts' \in [QueryWindows -> {"none", "first", "second"}]
      /\ inflight' \subseteq inflight
      /\ \A w \in QueryWindows :
           /\ attempts[w] = "none" => attempts'[w] = "none" /\ (w \in inflight => w \in inflight')
           /\ attempts[w] # "none" /\ attempts'[w] = "none" => w \notin inflight'
           /\ w \notin ws => attempts'[w] = attempts[w]
  BY <1>1, FailureIs
<1>5. \A w \in QueryWindows : busy'[w] = {} \/ attempts'[w] = attempts[w]
  BY <1>1, <1>4
<1> QED
  BY <1>1, <1>2, <1>3, <1>4, <1>5

AnswersRight == OneResult /\ ServerAgrees /\ NoneLost

\* What fails or is given up in a worker loses no command.
LEMMA WorkersLoseNone ==
    ASSUME AnswersRight, AnswersTyped,
           UNCHANGED <<job, targets, results, expired, inbox, completed, upload, uploaded>>,
           inflight' \subseteq inflight, stranded \subseteq stranded',
           stranded' \subseteq QueryWindows,
           \A w \in QueryWindows :
                /\ attempts[w] = "none" => attempts'[w] = "none" /\ (w \in inflight => w \in inflight')
                /\ attempts[w] # "none" /\ attempts'[w] = "none" =>
                        w \notin inflight' \/ w \in stranded'
    PROVE  AnswersRight' /\ AnswersTyped'
<1>1. OneResult'
  BY DEF AnswersRight, OneResult
<1>2. ServerAgrees'
  BY DEF AnswersRight, ServerAgrees
<1>3. NoneLost'
  <2> SUFFICES ASSUME job = "pending", ~expired, NEW w \in targets \ results
               PROVE  OnItsWay(w)' \/ w \in stranded'
    BY DEF NoneLost
  <2>1. w \in QueryWindows /\ (OnItsWay(w) \/ w \in stranded) /\ w \notin completed
    BY DEF AnswersRight, NoneLost, ServerAgrees, AnswersTyped
  <2> QED
    BY <2>1 DEF OnItsWay
<1>4. AnswersTyped'
  BY DEF AnswersTyped
<1> QED
  BY <1>1, <1>2, <1>3, <1>4 DEF AnswersRight

\* At first nobody waits and nobody asks.
LEMMA QueryStarts == QueryInit => QueryInv
<1> SUFFICES ASSUME QueryInit PROVE QueryInv
  OBVIOUS
<1>1. WorkersTyped /\ SlotTyped /\ AnswersTyped /\ expired \in BOOLEAN
  <2>1. WorkersTyped
    BY DEF QueryInit, WorkersTyped
  <2>2. SlotTyped
    BY DEF QueryInit, SlotTyped
  <2>3. AnswersTyped
    BY DEF QueryInit, AnswersTyped
  <2>4. expired \in BOOLEAN
    BY DEF QueryInit
  <2> QED
    BY <2>1, <2>2, <2>3, <2>4
<1>2. Waiting(line, running, busy)
  BY FreeIsNone DEF QueryInit, Waiting
<1>3. WorkersAgree /\ OneResult /\ ServerAgrees /\ NoneLost
  BY DEF QueryInit, WorkersAgree, OneResult, ServerAgrees, NoneLost
<1> QED
  BY <1>1, <1>2, <1>3 DEF QueryInv

\* What is in the invariant, in two parts.
LEMMA QueryInvIs ==
    QueryInv <=>
        /\ WorkersTyped /\ SlotTyped /\ AnswersTyped /\ expired \in BOOLEAN
        /\ Waiting(line, running, busy) /\ WorkersAgree /\ AnswersRight
BY Zenon DEF QueryInv, AnswersRight

\* A frame with another roster, or with none.
LEMMA RosterKeeps ==
    ASSUME QueryInv, NEW w \in QueryWindows, RosterChanges(w) \/ HostilesLeave(w)
    PROVE  QueryInv'
<1>1. /\ WorkersTyped /\ SlotTyped /\ AnswersTyped /\ expired \in BOOLEAN
      /\ Waiting(line, running, busy) /\ WorkersAgree /\ AnswersRight
  BY QueryInvIs
<1>2. /\ UNCHANGED <<worker, late, attempts, busy, line, running>>
      /\ UNCHANGED <<job, targets, results, expired>>
      /\ UNCHANGED <<inbox, inflight, completed, upload, uploaded, stranded>>
  BY DEF RosterChanges, HostilesLeave, slot, server, ui
<1>3. WorkersTyped'
  BY <1>1, <1>2 DEF WorkersTyped, RosterChanges, HostilesLeave
<1>4. AnswersRight' /\ AnswersTyped'
  BY <1>1, <1>2, WorkersLoseNone DEF AnswersTyped
<1>5. SlotTyped' /\ Waiting(line, running, busy)' /\ WorkersAgree' /\ (expired \in BOOLEAN)'
  BY <1>1, <1>2 DEF SlotTyped, Waiting, WorkersAgree
<1>6. WorkersTyped' /\ AnswersTyped' /\ AnswersRight'
  BY <1>3, <1>4
<1> QED
  BY <1>5, <1>6, Zenon DEF QueryInv, AnswersRight

\* A request cancels others, whose workers will ask again.
LEMMA ScanKeeps ==
    ASSUME QueryInv, NEW w \in QueryWindows, Scan(w) \/ LateScan(w)
    PROVE  QueryInv'
<1>1. /\ WorkersTyped /\ SlotTyped /\ AnswersTyped /\ expired \in BOOLEAN
      /\ Waiting(line, running, busy) /\ WorkersAgree /\ AnswersRight
      /\ busy \in [QueryWindows -> SUBSET {"roster", "query"}]
      /\ retries \in [QueryWindows -> 0..3] /\ late \subseteq QueryWindows
  BY QueryInvIs DEF WorkersTyped
<1>2. /\ UNCHANGED <<worker, job, targets, results, expired>>
      /\ UNCHANGED <<inbox, completed, upload, uploaded, stranded>>
      /\ late' \subseteq late
  BY DEF Scan, LateScan, server
<1> DEFINE asks(v) == (IF retries[v] > 0 THEN {"roster"} ELSE {})
                        \cup (IF attempts[v] # "none" THEN {"query"} ELSE {})
<1>3. \E new \in Requests, asking \in [QueryWindows -> SUBSET {"roster", "query"}],
         left \in [QueryWindows -> 0..3] :
        /\ Enqueue(new)
        /\ Supersede(Waiters(Cancelled(new)), asking, left)
        /\ \A v \in QueryWindows :
             IF Own(new, v)
             THEN /\ busy[v] = {} /\ asking[v] # {} /\ worker[v] = "on"
                  /\ "query" \in asking[v] => attempts[v] # "none"
             ELSE asking[v] = busy[v]
  <2>1. CASE Scan(w)
    <3> DEFINE wants == asks(w)
               new == Request(w, wants, FALSE)
               asking == [busy EXCEPT ![w] = wants]
               left == [retries EXCEPT ![w] = Max({0, @ - 1})]
    <3>1. /\ worker[w] = "on" /\ busy[w] = {} /\ wants # {} /\ Enqueue(new)
          /\ Supersede(Waiters(Cancelled(new)), asking, left)
      BY <2>1 DEF Scan, Names, Query
    <3>2. new \in Requests /\ \A v : Own(new, v) <=> v = w
      <4> HIDE DEF wants
      <4>1. FALSE \in BOOLEAN
        OBVIOUS
      <4> QED
        BY <4>1, RequestIs
    <3>3. wants \in SUBSET {"roster", "query"} /\ ("query" \in wants => attempts[w] # "none")
      OBVIOUS
    <3>4. asking \in [QueryWindows -> SUBSET {"roster", "query"}]
          /\ \A v \in QueryWindows : asking[v] = IF v = w THEN wants ELSE busy[v]
      <4> HIDE DEF wants
      <4> QED
        BY <1>1, <3>3
    <3>5. left \in [QueryWindows -> 0..3]
      <4>1. Max({0, retries[w] - 1}) \in 0..3
        BY <1>1, RetriesAre
      <4> QED
        BY <1>1, <4>1
    <3>6. \A v \in QueryWindows :
             IF Own(new, v)
             THEN /\ busy[v] = {} /\ asking[v] # {} /\ worker[v] = "on"
                  /\ "query" \in asking[v] => attempts[v] # "none"
             ELSE asking[v] = busy[v]
      <4> HIDE DEF wants, new, asking
      <4> QED
        BY <3>1, <3>2, <3>3, <3>4
    <3> HIDE DEF new, asking, left
    <3> QED
      BY <3>1, <3>2, <3>4, <3>5, <3>6
  <2>2. CASE LateScan(w)
    <3> DEFINE new == Request(w, Names, TRUE)
    <3>1. Enqueue(new) /\ Supersede(Waiters(Cancelled(new)), busy, retries)
      BY <2>2 DEF LateScan
    <3>2. new \in Requests /\ \A v : ~Own(new, v)
      <4>1. TRUE \in BOOLEAN
        OBVIOUS
      <4> QED
        BY <4>1, RequestIs
    <3> HIDE DEF new
    <3> QED
      BY <1>1, <3>1, <3>2
  <2> QED
    BY <2>1, <2>2
<1>4. PICK new \in Requests, asking \in [QueryWindows -> SUBSET {"roster", "query"}],
           left \in [QueryWindows -> 0..3] :
        /\ Enqueue(new)
        /\ Supersede(Waiters(Cancelled(new)), asking, left)
        /\ \A v \in QueryWindows :
             IF Own(new, v)
             THEN /\ busy[v] = {} /\ asking[v] # {} /\ worker[v] = "on"
                  /\ "query" \in asking[v] => attempts[v] # "none"
             ELSE asking[v] = busy[v]
  BY <1>3
<1> DEFINE ws == Waiters(Cancelled(new))
<1>5. ws \in SUBSET QueryWindows
  <2>1. \A i \in DOMAIN line : line[i].window \in QueryWindows
    <3>1. \A i \in DOMAIN line : line[i] \in Requests
      BY <1>1 DEF SlotTyped
    <3>2. \A r \in Requests : r.window \in QueryWindows
      BY Zenon DEF Requests
    <3> QED
      BY <3>1, <3>2
  <2> QED
    BY <2>1 DEF Waiters, Cancelled
<1> HIDE DEF ws
<1>6. /\ busy' = [v \in QueryWindows |-> IF v \in ws THEN {} ELSE asking[v]]
      /\ busy' \in [QueryWindows -> SUBSET {"roster", "query"}]
      /\ retries' \in [QueryWindows -> 0..3] /\ unread' = unread
      /\ attempts' \in [QueryWindows -> {"none", "first", "second"}]
      /\ inflight' \subseteq inflight
      /\ \A v \in QueryWindows :
           /\ attempts[v] = "none" => attempts'[v] = "none" /\ (v \in inflight => v \in inflight')
           /\ attempts[v] # "none" /\ attempts'[v] = "none" => v \notin inflight'
           /\ busy'[v] = {} \/ attempts'[v] = attempts[v]
  <2>1. Supersede(ws, asking, left)
    BY <1>4 DEF ws
  <2> QED
    BY <1>1, <1>5, <2>1, SupersedeIs
<1>7. SlotTyped' /\ Waiting(line, running, busy)'
  <2>1. busy' = [v \in QueryWindows |-> IF v \in Waiters(Cancelled(new)) THEN {} ELSE asking[v]]
    BY <1>6 DEF ws
  <2>2. \A v \in QueryWindows :
           IF Own(new, v) THEN busy[v] = {} /\ asking[v] # {} ELSE asking[v] = busy[v]
    BY <1>4
  <2>3. Enqueue(new)
    BY <1>4
  <2> QED
    BY <1>1, <2>1, <2>2, <2>3, EnqueueKeeps
<1>8. WorkersTyped'
  BY <1>1, <1>2, <1>6 DEF WorkersTyped
<1>9. WorkersAgree'
  <2> SUFFICES ASSUME NEW v \in QueryWindows
               PROVE  /\ "query" \in busy'[v] => attempts'[v] # "none"
                      /\ worker'[v] # "on" => busy'[v] = {}
    BY <1>2 DEF WorkersAgree
  <2>1. /\ "query" \in busy[v] => attempts[v] # "none"
        /\ worker[v] # "on" => busy[v] = {}
    BY <1>1 DEF WorkersAgree
  <2>2. busy'[v] = {} \/ (busy'[v] = asking[v] /\ attempts'[v] = attempts[v])
    BY <1>6
  <2> QED
    BY <1>2, <1>4, <2>1, <2>2
<1>10. AnswersRight' /\ AnswersTyped'
  <2>1. stranded' \subseteq QueryWindows
    BY <1>1, <1>2 DEF AnswersTyped
  <2> QED
    BY <1>1, <1>2, <1>6, <2>1, WorkersLoseNone
<1>11. (expired \in BOOLEAN)'
  BY <1>1, <1>2
<1> QED
  BY <1>7, <1>8, <1>9, <1>10, <1>11, Zenon DEF QueryInv, AnswersRight

\* The slot takes the next request.
LEMMA StartOcrKeeps == ASSUME QueryInv, StartOcr PROVE QueryInv'
<1>1. /\ WorkersTyped /\ SlotTyped /\ AnswersTyped /\ expired \in BOOLEAN
      /\ Waiting(line, running, busy) /\ WorkersAgree /\ AnswersRight
  BY QueryInvIs
<1>2. /\ UNCHANGED <<worker, late, retries, unread, attempts, busy>>
      /\ UNCHANGED <<job, targets, results, expired>>
      /\ UNCHANGED <<inbox, inflight, completed, upload, uploaded, stranded>>
  BY DEF StartOcr, client, server, ui
<1>3. SlotTyped' /\ Waiting(line, running, busy)'
  BY <1>1, StartKeeps
<1>4. AnswersRight' /\ AnswersTyped'
  BY <1>1, <1>2, WorkersLoseNone DEF AnswersTyped
<1>5. WorkersTyped' /\ WorkersAgree' /\ (expired \in BOOLEAN)'
  BY <1>1, <1>2 DEF WorkersTyped, WorkersAgree
<1> QED
  BY <1>3, <1>4, <1>5, Zenon DEF QueryInv, AnswersRight

\* The window of the request in the slot.
LEMMA RunningIs ==
    ASSUME SlotTyped, running # Free
    PROVE  /\ running \in Requests /\ running.window \in QueryWindows
           /\ ~running.orphan => \A v : Own(running, v) <=> v = running.window
<1>1. running \in Requests
  BY DEF SlotTyped
<1>2. \A r \in Requests : r.window \in QueryWindows
  BY Zenon DEF Requests
<1>3. ~running.orphan => \A v : Own(running, v) <=> v = running.window
  BY Zenon DEF Own
<1> QED
  BY <1>1, <1>2, <1>3

\* A result that nobody waits for, or a replaced one.
LEMMA DropResultKeeps == ASSUME QueryInv, DropResult PROVE QueryInv'
<1>1. /\ WorkersTyped /\ SlotTyped /\ AnswersTyped /\ expired \in BOOLEAN
      /\ Waiting(line, running, busy) /\ WorkersAgree /\ AnswersRight
      /\ busy \in [QueryWindows -> SUBSET {"roster", "query"}]
      /\ retries \in [QueryWindows -> 0..3]
  BY QueryInvIs DEF WorkersTyped
<1> DEFINE ws == Waiters({running})
<1>2. /\ running # Free /\ running' = Free /\ line' = line
      /\ Supersede(ws, busy, retries)
      /\ UNCHANGED <<worker, late, job, targets, results, expired>>
      /\ UNCHANGED <<inbox, completed, upload, uploaded, stranded>>
  BY DEF DropResult, server
<1>3. /\ ws \in SUBSET QueryWindows
      /\ \A v : v \in ws <=> Own(running, v)
  <2>1. running.window \in QueryWindows
    BY <1>1, <1>2, RunningIs
  <2>2. \A v : v \in ws <=> \E r \in {running} : Own(r, v)
    BY WaitersAre
  <2>3. ws \subseteq {running.window}
    BY Zenon DEF Waiters
  <2> HIDE DEF ws
  <2> QED
    BY <2>1, <2>2, <2>3
<1> HIDE DEF ws
<1>4. /\ busy' = [v \in QueryWindows |-> IF v \in ws THEN {} ELSE busy[v]]
      /\ busy' \in [QueryWindows -> SUBSET {"roster", "query"}]
      /\ retries' \in [QueryWindows -> 0..3] /\ unread' = unread
      /\ attempts' \in [QueryWindows -> {"none", "first", "second"}]
      /\ inflight' \subseteq inflight
      /\ \A v \in QueryWindows :
           /\ attempts[v] = "none" => attempts'[v] = "none" /\ (v \in inflight => v \in inflight')
           /\ attempts[v] # "none" /\ attempts'[v] = "none" => v \notin inflight'
           /\ busy'[v] = {} \/ attempts'[v] = attempts[v]
  BY <1>1, <1>2, <1>3, SupersedeIs
<1>5. SlotTyped' /\ Waiting(line, running, busy)'
  <2>1. \A v \in QueryWindows : busy'[v] = IF Own(running, v) THEN {} ELSE busy[v]
    BY <1>3, <1>4
  <2> QED
    BY <1>1, <1>2, <2>1, SlotEmpties
<1>6. WorkersTyped'
  BY <1>1, <1>2, <1>4 DEF WorkersTyped
<1>7. WorkersAgree'
  <2> SUFFICES ASSUME NEW v \in QueryWindows
               PROVE  /\ "query" \in busy'[v] => attempts'[v] # "none"
                      /\ worker'[v] # "on" => busy'[v] = {}
    BY <1>2 DEF WorkersAgree
  <2>1. /\ "query" \in busy[v] => attempts[v] # "none"
        /\ worker[v] # "on" => busy[v] = {}
    BY <1>1 DEF WorkersAgree
  <2>2. busy'[v] = {} \/ (busy'[v] = busy[v] /\ attempts'[v] = attempts[v])
    BY <1>4
  <2> QED
    BY <1>2, <2>1, <2>2
<1>8. AnswersRight' /\ AnswersTyped'
  <2>1. stranded' \subseteq QueryWindows
    BY <1>1, <1>2 DEF AnswersTyped
  <2> QED
    BY <1>1, <1>2, <1>4, <2>1, WorkersLoseNone
<1>9. (expired \in BOOLEAN)'
  BY <1>1, <1>2
<1> QED
  BY <1>5, <1>6, <1>7, <1>8, <1>9, Zenon DEF QueryInv, AnswersRight

\* A pass of OCR that fails.
LEMMA OcrFailsKeeps == ASSUME QueryInv, OcrFails PROVE QueryInv'
<1> DEFINE w == running.window
<1>1. /\ WorkersTyped /\ SlotTyped /\ AnswersTyped /\ expired \in BOOLEAN
      /\ Waiting(line, running, busy) /\ WorkersAgree /\ AnswersRight
      /\ busy \in [QueryWindows -> SUBSET {"roster", "query"}]
      /\ unread \subseteq QueryWindows
  BY QueryInvIs DEF WorkersTyped
<1>2. /\ running # Free /\ ~running.orphan /\ running' = Free /\ line' = line
      /\ busy' = [busy EXCEPT ![w] = {}] /\ FailQueries({w})
      /\ unread' \subseteq unread
      /\ UNCHANGED <<worker, late, retries, job, targets, results, expired>>
      /\ UNCHANGED <<inbox, completed, upload, uploaded, stranded>>
  BY DEF OcrFails, server
<1>3. w \in QueryWindows /\ \A v : Own(running, v) <=> v = w
  BY <1>1, <1>2, RunningIs
<1> HIDE DEF w
<1>4. /\ attempts' \in [QueryWindows -> {"none", "first", "second"}]
      /\ inflight' \subseteq inflight
      /\ \A v \in QueryWindows :
           /\ attempts[v] = "none" => attempts'[v] = "none" /\ (v \in inflight => v \in inflight')
           /\ attempts[v] # "none" /\ attempts'[v] = "none" => v \notin inflight'
           /\ v \notin {w} => attempts'[v] = attempts[v]
  <2>1. {w} \in SUBSET QueryWindows
    BY <1>3
  <2> QED
    BY <1>1, <1>2, <2>1, FailureIs
<1>5. /\ busy' \in [QueryWindows -> SUBSET {"roster", "query"}]
      /\ \A v \in QueryWindows : busy'[v] = IF Own(running, v) THEN {} ELSE busy[v]
  BY <1>1, <1>2, <1>3
<1>6. SlotTyped' /\ Waiting(line, running, busy)'
  BY <1>1, <1>2, <1>5, SlotEmpties
<1>7. WorkersTyped'
  BY <1>1, <1>2, <1>4, <1>5 DEF WorkersTyped
<1>8. WorkersAgree'
  <2> SUFFICES ASSUME NEW v \in QueryWindows
               PROVE  /\ "query" \in busy'[v] => attempts'[v] # "none"
                      /\ worker'[v] # "on" => busy'[v] = {}
    BY <1>2 DEF WorkersAgree
  <2>1. /\ "query" \in busy[v] => attempts[v] # "none"
        /\ worker[v] # "on" => busy[v] = {}
    BY <1>1 DEF WorkersAgree
  <2>2. busy'[v] = {} \/ (busy'[v] = busy[v] /\ attempts'[v] = attempts[v])
    BY <1>3, <1>4, <1>5
  <2> QED
    BY <1>2, <2>1, <2>2
<1>9. AnswersRight' /\ AnswersTyped'
  <2>1. stranded' \subseteq QueryWindows
    BY <1>1, <1>2 DEF AnswersTyped
  <2> QED
    BY <1>1, <1>2, <1>4, <2>1, WorkersLoseNone
<1>10. (expired \in BOOLEAN)'
  BY <1>1, <1>2
<1> QED
  BY <1>6, <1>7, <1>8, <1>9, <1>10, Zenon DEF QueryInv, AnswersRight

\* The names are read, for the roster, the query or both.
LEMMA NamesReadKeeps == ASSUME QueryInv, NEW more \in BOOLEAN, NamesRead(more) PROVE QueryInv'
<1> DEFINE w == running.window
<1>1. /\ WorkersTyped /\ SlotTyped /\ AnswersTyped /\ expired \in BOOLEAN
      /\ Waiting(line, running, busy) /\ WorkersAgree /\ AnswersRight
      /\ busy \in [QueryWindows -> SUBSET {"roster", "query"}]
      /\ unread \subseteq QueryWindows /\ retries \in [QueryWindows -> 0..3]
      /\ attempts \in [QueryWindows -> {"none", "first", "second"}]
      /\ upload \in [QueryWindows -> {"none", "pending", "taken"}]
      /\ uploaded \in [QueryWindows -> Nat]
  BY QueryInvIs DEF WorkersTyped, AnswersTyped
<1>2. /\ running # Free /\ ~running.orphan /\ running' = Free /\ line' = line
      /\ busy' = [busy EXCEPT ![w] = {}]
      /\ unread' \subseteq unread
      /\ \/ retries' = retries
         \/ retries' = [retries EXCEPT ![w] = 2]
         \/ retries' = [retries EXCEPT ![w] = 0]
      /\ UNCHANGED <<worker, late, job, targets, results, expired>>
      /\ UNCHANGED <<inbox, inflight, completed, stranded>>
  BY DEF NamesRead, server
<1>3. \/ UNCHANGED <<attempts, upload, uploaded>>
      \/ /\ "query" \in busy[w] /\ attempts' = [attempts EXCEPT ![w] = "none"] /\ Publish(w)
  BY DEF NamesRead, Query
<1>4. w \in QueryWindows /\ \A v : Own(running, v) <=> v = w
  BY <1>1, <1>2, RunningIs
<1> HIDE DEF w
<1>5. /\ busy' \in [QueryWindows -> SUBSET {"roster", "query"}]
      /\ \A v \in QueryWindows : busy'[v] = IF Own(running, v) THEN {} ELSE busy[v]
  BY <1>1, <1>2, <1>4
<1>6. SlotTyped' /\ Waiting(line, running, busy)'
  BY <1>1, <1>2, <1>5, SlotEmpties
<1>7. /\ attempts' \in [QueryWindows -> {"none", "first", "second"}]
      /\ \A v \in QueryWindows : v # w => attempts'[v] = attempts[v]
  BY <1>1, <1>3, <1>4
<1>8. WorkersTyped'
  BY <1>1, <1>2, <1>4, <1>5, <1>7 DEF WorkersTyped
<1>9. WorkersAgree'
  <2> SUFFICES ASSUME NEW v \in QueryWindows
               PROVE  /\ "query" \in busy'[v] => attempts'[v] # "none"
                      /\ worker'[v] # "on" => busy'[v] = {}
    BY <1>2 DEF WorkersAgree
  <2>1. /\ "query" \in busy[v] => attempts[v] # "none"
        /\ worker[v] # "on" => busy[v] = {}
    BY <1>1 DEF WorkersAgree
  <2>2. busy'[v] = {} \/ (busy'[v] = busy[v] /\ attempts'[v] = attempts[v])
    BY <1>4, <1>5, <1>7
  <2> QED
    BY <1>2, <2>1, <2>2
<1>10. (expired \in BOOLEAN)'
  BY <1>1, <1>2
<1>11. AnswersRight' /\ AnswersTyped'
  <2>1. CASE UNCHANGED <<attempts, upload, uploaded>>
    BY <1>1, <1>2, <2>1, WorkersLoseNone DEF AnswersTyped
  <2>2. CASE /\ "query" \in busy[w] /\ attempts' = [attempts EXCEPT ![w] = "none"]
             /\ Publish(w)
    <3>1. attempts[w] # "none" /\ attempts'[w] = "none"
      BY <1>1, <1>4, <2>2 DEF WorkersAgree
    <3>2. CASE w \in inflight /\ ~expired
      <4>1. /\ upload' = [upload EXCEPT ![w] = "pending"]
            /\ uploaded' = [uploaded EXCEPT ![w] = @ + 1]
        BY <2>2, <3>2 DEF Publish
      <4>2. uploaded[w] = 0
        BY <1>1, <1>4, <3>1, <3>2 DEF AnswersRight, OneResult
      <4>3. OneResult'
        BY <1>1, <1>2, <1>4, <1>7, <3>1, <3>2, <4>1, <4>2 DEF AnswersRight, OneResult
      <4>4. ServerAgrees'
        BY <1>1, <1>2, <1>4, <3>2, <4>1 DEF AnswersRight, ServerAgrees
      <4>5. NoneLost'
        <5> SUFFICES ASSUME job = "pending", NEW v \in targets \ results
                     PROVE  OnItsWay(v)' \/ v \in stranded'
          BY <1>2, <3>2 DEF NoneLost
        <5>1. v \in QueryWindows /\ (OnItsWay(v) \/ v \in stranded)
          BY <1>1, <3>2 DEF AnswersRight, NoneLost, AnswersTyped
        <5>2. upload'[v] = IF v = w THEN "pending" ELSE upload[v]
          BY <1>1, <1>4, <4>1, <5>1
        <5> QED
          BY <1>2, <1>7, <5>1, <5>2 DEF OnItsWay
      <4>6. AnswersTyped'
        BY <1>1, <1>2, <1>4, <4>1 DEF AnswersTyped
      <4> QED
        BY <4>3, <4>4, <4>5, <4>6 DEF AnswersRight
    <3>3. CASE ~(w \in inflight /\ ~expired)
      <4>1. UNCHANGED <<upload, uploaded>>
        BY <2>2, <3>3 DEF Publish
      <4>2. OneResult'
        BY <1>1, <1>2, <1>7, <3>1, <4>1 DEF AnswersRight, OneResult
      <4>3. ServerAgrees'
        BY <1>1, <1>2, <4>1 DEF AnswersRight, ServerAgrees
      <4>4. NoneLost'
        <5> SUFFICES ASSUME job = "pending", ~expired, NEW v \in targets \ results
                     PROVE  OnItsWay(v)' \/ v \in stranded'
          BY <1>2 DEF NoneLost
        <5>1. v \in QueryWindows /\ (OnItsWay(v) \/ v \in stranded) /\ v \notin completed
          BY <1>1 DEF AnswersRight, NoneLost, ServerAgrees, AnswersTyped
        <5> QED
          BY <1>2, <1>7, <3>3, <4>1, <5>1 DEF OnItsWay
      <4>5. AnswersTyped'
        BY <1>1, <1>2, <4>1 DEF AnswersTyped
      <4> QED
        BY <4>2, <4>3, <4>4, <4>5 DEF AnswersRight
    <3> QED
      BY <3>2, <3>3
  <2> QED
    BY <1>3, <2>1, <2>2
<1> QED
  BY <1>6, <1>8, <1>9, <1>10, <1>11, Zenon DEF QueryInv, AnswersRight

\* A worker that is stopped takes its requests and its query with it.
LEMMA StopKeeps ==
    ASSUME QueryInv, NEW w \in QueryWindows, StopMonitoring(w)
    PROVE  QueryInv'
<1>1. /\ WorkersTyped /\ SlotTyped /\ AnswersTyped /\ expired \in BOOLEAN
      /\ Waiting(line, running, busy) /\ WorkersAgree /\ AnswersRight
      /\ busy \in [QueryWindows -> SUBSET {"roster", "query"}]
      /\ stranded \subseteq QueryWindows
  BY QueryInvIs DEF WorkersTyped, AnswersTyped
<1>2. /\ Orphaned(w)
      /\ worker' = [worker EXCEPT ![w] = "off"] /\ late' \subseteq late \cup {w}
      /\ retries' = [retries EXCEPT ![w] = 0] /\ unread' \subseteq unread
      /\ attempts' = [attempts EXCEPT ![w] = "none"]
      /\ busy' = [busy EXCEPT ![w] = {}]
      /\ stranded' = IF attempts[w] # "none" THEN stranded \cup {w} ELSE stranded
      /\ UNCHANGED <<job, targets, results, expired>>
      /\ UNCHANGED <<inbox, inflight, completed, upload, uploaded>>
  BY DEF StopMonitoring, server
<1>3. SlotTyped' /\ Waiting(line, running, busy)'
  BY <1>1, <1>2, OrphanedKeeps
<1>4. WorkersTyped'
  BY <1>1, <1>2 DEF WorkersTyped
<1>5. WorkersAgree'
  BY <1>1, <1>2 DEF WorkersAgree, WorkersTyped
<1>6. AnswersRight' /\ AnswersTyped'
  <2>1. \A v \in QueryWindows : attempts'[v] = IF v = w THEN "none" ELSE attempts[v]
    BY <1>1, <1>2 DEF WorkersTyped
  <2>2. stranded \subseteq stranded' /\ stranded' \subseteq QueryWindows
        /\ (attempts[w] # "none" => w \in stranded')
    BY <1>1, <1>2
  <2> QED
    BY <1>1, <1>2, <2>1, <2>2, WorkersLoseNone
<1>7. (expired \in BOOLEAN)'
  BY <1>1, <1>2
<1> QED
  BY <1>3, <1>4, <1>5, <1>6, <1>7, Zenon DEF QueryInv, AnswersRight

\* A loop that ends, a thread that is gone, and a window that is monitored again.
LEMMA WorkerKeeps ==
    ASSUME QueryInv, NEW w \in QueryWindows,
           WindowCloses(w) \/ WorkerEnds(w) \/ StartMonitoring(w)
    PROVE  QueryInv'
<1>1. /\ WorkersTyped /\ SlotTyped /\ AnswersTyped /\ expired \in BOOLEAN
      /\ Waiting(line, running, busy) /\ WorkersAgree /\ AnswersRight
      /\ stranded \subseteq QueryWindows
  BY QueryInvIs DEF AnswersTyped
<1>2. /\ UNCHANGED <<busy, line, running, job, targets, results, expired>>
      /\ UNCHANGED <<inbox, completed, upload, uploaded>>
      /\ late' \subseteq late /\ unread' \subseteq unread
  BY DEF WindowCloses, WorkerEnds, StartMonitoring, server, slot, ui
<1>3. \/ attempts' = attempts /\ inflight' = inflight /\ stranded' = stranded
      \/ /\ attempts' = [attempts EXCEPT ![w] = "none"] /\ busy[w] = {}
         /\ \/ /\ inflight' = IF attempts[w] # "none" THEN inflight \ {w} ELSE inflight
               /\ stranded' = stranded
            \/ inflight' = inflight /\ stranded' = stranded \cup {w}
  <2>1. CASE WindowCloses(w)
    BY <2>1 DEF WindowCloses
  <2>2. CASE WorkerEnds(w)
    <3>1. worker[w] = "closing" => busy[w] = {}
      BY <1>1 DEF WorkersAgree
    <3> QED
      BY <2>2, <3>1 DEF WorkerEnds
  <2>3. CASE StartMonitoring(w)
    BY <2>3 DEF StartMonitoring, ui
  <2> QED
    BY <2>1, <2>2, <2>3
<1>4. /\ worker' \in [QueryWindows -> {"on", "closing", "off"}]
      /\ retries' \in [QueryWindows -> 0..3]
      /\ \A v \in QueryWindows : worker'[v] # "on" => worker[v] # "on" \/ busy[v] = {}
  BY <1>1 DEF WindowCloses, WorkerEnds, StartMonitoring, WorkersTyped, WorkersAgree
<1>5. attempts' \in [QueryWindows -> {"none", "first", "second"}]
  BY <1>1, <1>3 DEF WorkersTyped
<1>6. \A v \in QueryWindows :
         attempts'[v] = attempts[v] \/ (v = w /\ attempts'[w] = "none" /\ busy[w] = {})
  BY <1>1, <1>3 DEF WorkersTyped
<1>7. WorkersTyped'
  BY <1>1, <1>2, <1>4, <1>5 DEF WorkersTyped
<1>8. WorkersAgree'
  <2> SUFFICES ASSUME NEW v \in QueryWindows
               PROVE  /\ "query" \in busy[v] => attempts'[v] # "none"
                      /\ worker'[v] # "on" => busy[v] = {}
    BY <1>2 DEF WorkersAgree
  <2>1. /\ "query" \in busy[v] => attempts[v] # "none"
        /\ worker[v] # "on" => busy[v] = {}
    BY <1>1 DEF WorkersAgree
  <2> QED
    BY <1>4, <1>6, <2>1
<1>9. AnswersRight' /\ AnswersTyped'
  <2>1. /\ inflight' \subseteq inflight /\ stranded \subseteq stranded'
        /\ stranded' \subseteq QueryWindows
    BY <1>1, <1>3
  <2>2. \A v \in QueryWindows :
          /\ attempts[v] = "none" => attempts'[v] = "none" /\ (v \in inflight => v \in inflight')
          /\ attempts[v] # "none" /\ attempts'[v] = "none" => v \notin inflight' \/ v \in stranded'
    BY <1>3, <1>6
  <2> QED
    BY <1>1, <1>2, <2>1, <2>2, WorkersLoseNone
<1>10. SlotTyped' /\ Waiting(line, running, busy)' /\ (expired \in BOOLEAN)'
  BY <1>1, <1>2 DEF SlotTyped, Waiting
<1> QED
  BY <1>7, <1>8, <1>9, <1>10, Zenon DEF QueryInv, AnswersRight

\* What goes on between the server and the window's uploads leaves the workers alone.
LEMMA UploadsKeep ==
    ASSUME QueryInv,
           UNCHANGED <<worker, late, retries, unread, attempts, busy, line, running>>,
           AnswersRight', AnswersTyped', (expired \in BOOLEAN)'
    PROVE  QueryInv'
<1>1. WorkersTyped' /\ SlotTyped' /\ Waiting(line, running, busy)' /\ WorkersAgree'
  BY DEF QueryInv, WorkersTyped, SlotTyped, Waiting, WorkersAgree
<1> QED
  BY <1>1, Zenon DEF QueryInv, AnswersRight

\* A query is created, handed out, ends or comes to its deadline.
LEMMA JobKeeps ==
    ASSUME QueryInv,
           \/ \E asked \in SUBSET QueryWindows : CreateQuery(asked)
           \/ ClaimCommands \/ DeadlinePasses \/ Poll
    PROVE  QueryInv'
<1>1. AnswersRight /\ AnswersTyped /\ expired \in BOOLEAN
  BY QueryInvIs
<1>2. /\ UNCHANGED <<worker, late, retries, unread, attempts, busy, line, running>>
      /\ UNCHANGED <<results, inflight, completed, upload, uploaded, stranded>>
  BY DEF CreateQuery, ClaimCommands, DeadlinePasses, Poll, client, slot, server, ui
<1>3. CASE \E asked \in SUBSET QueryWindows : CreateQuery(asked)
  <2>1. /\ job = "none" /\ job' = "pending" /\ targets' \subseteq QueryWindows
        /\ expired' = expired /\ inbox' = inbox
    BY <1>3 DEF CreateQuery, ui
  <2>2. OneResult'
    BY <1>1, <1>2, <2>1 DEF AnswersRight, OneResult
  <2>3. ServerAgrees'
    BY <1>1, <1>2, <2>1 DEF AnswersRight, ServerAgrees
  <2>4. NoneLost'
    BY <1>1, <1>2, <2>1 DEF AnswersRight, ServerAgrees, NoneLost, OnItsWay
  <2>5. AnswersTyped' /\ (expired \in BOOLEAN)'
    BY <1>1, <1>2, <2>1 DEF AnswersTyped
  <2> QED
    BY <1>2, <2>2, <2>3, <2>4, <2>5, UploadsKeep DEF AnswersRight
<1>4. CASE ClaimCommands
  <2>1. /\ job = "pending" /\ inbox' = targets \ results
        /\ UNCHANGED <<job, targets, expired>>
    BY <1>4 DEF ClaimCommands, server
  <2>2. OneResult' /\ ServerAgrees' /\ NoneLost'
    BY <1>1, <1>2, <2>1 DEF AnswersRight, OneResult, ServerAgrees, NoneLost, OnItsWay
  <2>3. AnswersTyped' /\ (expired \in BOOLEAN)'
    BY <1>1, <1>2, <2>1 DEF AnswersTyped
  <2> QED
    BY <1>2, <2>2, <2>3, UploadsKeep DEF AnswersRight
<1>5. CASE DeadlinePasses \/ Poll
  <2>1. /\ targets' = targets /\ inbox' = inbox
        /\ \/ job' = job /\ expired' = TRUE
           \/ job = "pending" /\ job' \in {"completed", "timed_out"} /\ expired' = expired
    BY <1>5 DEF DeadlinePasses, Poll, ui
  <2>2. OneResult' /\ ServerAgrees' /\ NoneLost'
    BY <1>1, <1>2, <2>1 DEF AnswersRight, OneResult, ServerAgrees, NoneLost, OnItsWay
  <2>3. AnswersTyped'
    BY <1>1, <1>2, <2>1 DEF AnswersTyped
  <2>4. (expired \in BOOLEAN)'
    BY <1>1, <2>1
  <2> QED
    BY <1>2, <2>2, <2>3, <2>4, UploadsKeep DEF AnswersRight
<1> QED
  BY <1>3, <1>4, <1>5

\* A result on its way to the server, and the answer to it.
LEMMA ResultKeeps ==
    ASSUME QueryInv, NEW w \in QueryWindows,
           \/ ServerTakes(w) \/ ResultTaken(w) \/ AnswerLost(w) \/ ResultRefused(w)
           \/ UploadLapses(w)
    PROVE  QueryInv'
<1>1. /\ AnswersRight /\ AnswersTyped /\ expired \in BOOLEAN
      /\ upload \in [QueryWindows -> {"none", "pending", "taken"}]
      /\ \A v \in QueryWindows : job = "none" => upload[v] = "none"
  BY QueryInvIs DEF AnswersTyped, AnswersRight, ServerAgrees
<1>2. /\ UNCHANGED <<worker, late, retries, unread, attempts, busy, line, running>>
      /\ UNCHANGED <<targets, expired, inbox, uploaded>>
  BY DEF ServerTakes, ResultTaken, AnswerLost, ResultRefused, UploadLapses, client, slot, server
<1>3. CASE ServerTakes(w)
  <2>1. /\ upload[w] = "pending" /\ upload' = [upload EXCEPT ![w] = "taken"]
        /\ \/ /\ job = "pending" /\ results' = results \cup {w}
              /\ job' \in {"pending", "completed"}
           \/ job # "pending" /\ UNCHANGED <<results, job>>
        /\ UNCHANGED <<inflight, completed, stranded>>
    BY <1>3 DEF ServerTakes
  <2>2. \A v \in QueryWindows : upload'[v] = IF v = w THEN "taken" ELSE upload[v]
    BY <1>1, <2>1
  <2>3. OneResult'
    BY <1>1, <1>2, <2>1 DEF AnswersRight, OneResult
  <2>4. ServerAgrees'
    BY <1>1, <1>2, <2>1, <2>2 DEF AnswersRight, ServerAgrees
  <2>5. NoneLost'
    <3> SUFFICES ASSUME job = "pending", ~expired, NEW v \in targets \ results, v # w
                 PROVE  OnItsWay(v)' \/ v \in stranded'
      BY <1>2, <2>1 DEF NoneLost
    <3>1. v \in QueryWindows /\ (OnItsWay(v) \/ v \in stranded)
      BY <1>1 DEF AnswersRight, NoneLost, AnswersTyped
    <3> QED
      BY <1>2, <2>1, <2>2, <3>1 DEF OnItsWay
  <2>6. AnswersTyped' /\ (expired \in BOOLEAN)'
    BY <1>1, <1>2, <2>1 DEF AnswersTyped
  <2> QED
    BY <1>2, <2>3, <2>4, <2>5, <2>6, UploadsKeep DEF AnswersRight
<1>4. CASE ResultTaken(w)
  <2>1. /\ upload[w] = "taken" /\ upload' = [upload EXCEPT ![w] = "none"]
        /\ inflight' = inflight \ {w} /\ completed' = completed \cup {w}
        /\ UNCHANGED <<job, results, stranded>>
    BY <1>4 DEF ResultTaken, server
  <2>2. \A v \in QueryWindows : upload'[v] = IF v = w THEN "none" ELSE upload[v]
    BY <1>1, <2>1
  <2>3. OneResult'
    BY <1>1, <1>2, <2>1 DEF AnswersRight, OneResult
  <2>4. ServerAgrees'
    BY <1>1, <1>2, <2>1, <2>2 DEF AnswersRight, ServerAgrees
  <2>5. NoneLost'
    <3> SUFFICES ASSUME job = "pending", ~expired, NEW v \in targets \ results
                 PROVE  OnItsWay(v)' \/ v \in stranded'
      BY <1>2, <2>1 DEF NoneLost
    <3>1. v \in QueryWindows /\ (OnItsWay(v) \/ v \in stranded)
      BY <1>1 DEF AnswersRight, NoneLost, AnswersTyped
    <3>2. v # w
      BY <1>1, <2>1 DEF AnswersRight, ServerAgrees
    <3> QED
      BY <1>2, <2>1, <2>2, <3>1, <3>2 DEF OnItsWay
  <2>6. AnswersTyped' /\ (expired \in BOOLEAN)'
    BY <1>1, <1>2, <2>1 DEF AnswersTyped
  <2> QED
    BY <1>2, <2>3, <2>4, <2>5, <2>6, UploadsKeep DEF AnswersRight
<1>5. CASE AnswerLost(w) \/ ResultRefused(w) \/ UploadLapses(w)
  <2>1. /\ UNCHANGED <<inflight, completed, job, results>>
        /\ \/ /\ upload[w] = "taken" /\ upload' = [upload EXCEPT ![w] = "pending"]
              /\ stranded' = stranded
           \/ /\ upload[w] = "pending" /\ upload' = [upload EXCEPT ![w] = "none"]
              /\ stranded' = stranded \cup {w}
           \/ /\ upload[w] = "pending" /\ upload' = [upload EXCEPT ![w] = "none"]
              /\ expired /\ stranded' = stranded
    BY <1>5 DEF AnswerLost, ResultRefused, UploadLapses, server
  <2>2. /\ \A v \in QueryWindows : v # w => upload'[v] = upload[v]
        /\ upload'[w] # "taken" /\ job # "none"
        /\ upload'[w] = "pending" \/ w \in stranded' \/ expired
    BY <1>1, <2>1
  <2>3. stranded \subseteq stranded' /\ stranded' \subseteq stranded \cup {w}
    BY <2>1
  <2>4. OneResult'
    BY <1>1, <1>2, <2>1 DEF AnswersRight, OneResult
  <2>5. ServerAgrees'
    BY <1>1, <1>2, <2>1, <2>2 DEF AnswersRight, ServerAgrees
  <2>6. NoneLost'
    <3> SUFFICES ASSUME job = "pending", ~expired, NEW v \in targets \ results
                 PROVE  OnItsWay(v)' \/ v \in stranded'
      BY <1>2, <2>1 DEF NoneLost
    <3>1. v \in QueryWindows /\ (OnItsWay(v) \/ v \in stranded)
      BY <1>1 DEF AnswersRight, NoneLost, AnswersTyped
    <3> QED
      BY <1>2, <2>1, <2>2, <2>3, <3>1 DEF OnItsWay
  <2>7. AnswersTyped' /\ (expired \in BOOLEAN)'
    BY <1>1, <1>2, <2>1, <2>3 DEF AnswersTyped
  <2> QED
    BY <1>2, <2>4, <2>5, <2>6, <2>7, UploadsKeep DEF AnswersRight
<1> QED
  BY <1>3, <1>4, <1>5

\* The client dispatches the commands that are new to it.
LEMMA ResponseKeeps == ASSUME QueryInv, HandleResponse PROVE QueryInv'
<1>1. /\ WorkersTyped /\ SlotTyped /\ AnswersTyped /\ expired \in BOOLEAN
      /\ Waiting(line, running, busy) /\ WorkersAgree /\ AnswersRight
  BY QueryInvIs
<1>2. /\ inbox # {} /\ inbox' = {}
      /\ attempts' = [w \in QueryWindows |->
                        IF w \in Dispatched THEN "first" ELSE attempts[w]]
      /\ inflight' = IF expired THEN {} ELSE inflight \cup Dispatched
      /\ completed' = IF expired THEN {} ELSE completed
      /\ UNCHANGED <<worker, late, retries, unread, busy, line, running>>
      /\ UNCHANGED <<job, targets, results, expired, upload, uploaded, stranded>>
  BY DEF HandleResponse, slot, server
<1>3. /\ Dispatched \subseteq inbox
      /\ \A w \in Dispatched : ~expired /\ w \notin inflight \cup completed
  BY Zenon DEF Dispatched
<1>4. /\ attempts' \in [QueryWindows -> {"none", "first", "second"}]
      /\ \A w \in QueryWindows :
            attempts'[w] = IF w \in Dispatched THEN "first" ELSE attempts[w]
  BY <1>1, <1>2 DEF WorkersTyped
<1>5. job # "none"
  BY <1>1, <1>2 DEF AnswersRight, ServerAgrees
<1>6. OneResult'
  BY <1>1, <1>2, <1>3, <1>4 DEF AnswersRight, OneResult
<1>7. ServerAgrees'
  BY <1>1, <1>2, <1>5 DEF AnswersRight, ServerAgrees
<1>8. NoneLost'
  <2> SUFFICES ASSUME job = "pending", ~expired, NEW v \in targets \ results
               PROVE  OnItsWay(v)' \/ v \in stranded'
    BY <1>2 DEF NoneLost
  <2>1. v \in QueryWindows /\ (OnItsWay(v) \/ v \in stranded)
    BY <1>1 DEF AnswersRight, NoneLost, AnswersTyped
  <2> QED
    BY <1>2, <1>4, <2>1 DEF OnItsWay
<1>9. AnswersTyped'
  BY <1>1, <1>2, <1>3 DEF AnswersTyped
<1>10. WorkersTyped' /\ WorkersAgree'
  <2>1. WorkersTyped'
    BY <1>1, <1>2, <1>4 DEF WorkersTyped
  <2>2. WorkersAgree'
    BY <1>1, <1>2, <1>4 DEF WorkersAgree
  <2> QED
    BY <2>1, <2>2
<1>11. SlotTyped' /\ Waiting(line, running, busy)' /\ (expired \in BOOLEAN)'
  BY <1>1, <1>2 DEF SlotTyped, Waiting
<1> QED
  BY <1>6, <1>7, <1>8, <1>9, <1>10, <1>11, Zenon DEF QueryInv

\* Each step of the workers, the slot, the server and the client keeps the invariant.
LEMMA QueryStep == QueryInv /\ [QueryNext]_query => QueryInv'
<1> SUFFICES ASSUME QueryInv, [QueryNext]_query PROVE QueryInv'
  OBVIOUS
<1>1. CASE UNCHANGED query
  <2>1. /\ UNCHANGED <<worker, late, retries, unread, attempts, busy, line, running>>
        /\ UNCHANGED <<job, targets, results, expired>>
        /\ UNCHANGED <<inbox, inflight, completed, upload, uploaded, stranded>>
    BY <1>1 DEF query, client, slot, server, ui
  <2>2. AnswersRight /\ AnswersTyped /\ expired \in BOOLEAN
    BY QueryInvIs
  <2>3. AnswersRight'
    BY <2>1, <2>2 DEF AnswersRight, OneResult, ServerAgrees, NoneLost, OnItsWay
  <2>4. AnswersTyped' /\ (expired \in BOOLEAN)'
    BY <2>1, <2>2 DEF AnswersTyped
  <2> QED
    BY <2>1, <2>3, <2>4, UploadsKeep
<1>2. ASSUME NEW w \in QueryWindows,
             \/ RosterChanges(w) \/ HostilesLeave(w) \/ Scan(w) \/ LateScan(w)
             \/ StopMonitoring(w) \/ WindowCloses(w) \/ WorkerEnds(w) \/ StartMonitoring(w)
      PROVE  QueryInv'
  BY <1>2, RosterKeeps, ScanKeeps, StopKeeps, WorkerKeeps
<1>3. ASSUME NEW w \in QueryWindows,
             \/ ServerTakes(w) \/ UploadLapses(w) \/ ResultTaken(w) \/ AnswerLost(w)
             \/ ResultRefused(w)
      PROVE  QueryInv'
  BY <1>3, ResultKeeps
<1>4. CASE OcrSteps \/ NamesRead(TRUE) \/ OcrFails
  <2>1. TRUE \in BOOLEAN /\ FALSE \in BOOLEAN
    OBVIOUS
  <2> QED
    BY <1>4, <2>1, StartOcrKeeps, DropResultKeeps, NamesReadKeeps, OcrFailsKeeps DEF OcrSteps
<1>5. CASE \/ \E asked \in SUBSET QueryWindows : CreateQuery(asked)
           \/ ClaimCommands \/ DeadlinePasses \/ Poll
  BY <1>5, JobKeeps
<1>6. CASE HandleResponse
  BY <1>6, ResponseKeeps
<1> QED
  BY <1>1, <1>2, <1>3, <1>4, <1>5, <1>6 DEF QueryNext

\* The requests of a window's own, as the run counts them.
LEMMA OwnAre ==
    ASSUME SlotTyped, Waiting(line, running, busy), NEW w \in QueryWindows,
           NEW own, own = {i \in DOMAIN line : line[i].window = w /\ ~line[i].orphan}
    PROVE  IF busy[w] = {} THEN own = {} /\ ~InSlot(running, w)
           ELSE IF InSlot(running, w) THEN own = {} ELSE Cardinality(own) = 1
<1>1. \A i : i \in own <=> i \in DOMAIN line /\ Own(line[i], w)
  BY Zenon DEF Own
<1>2. /\ \A i, j \in DOMAIN line : Own(line[i], w) /\ Own(line[j], w) => i = j
      /\ InSlot(running, w) => \A i \in DOMAIN line : ~Own(line[i], w)
      /\ busy[w] # {} <=> InSlot(running, w) \/ \E i \in DOMAIN line : Own(line[i], w)
  BY Zenon DEF Waiting
<1>3. /\ \A i, j \in own : i = j
      /\ InSlot(running, w) => own = {}
      /\ busy[w] # {} <=> InSlot(running, w) \/ own # {}
  BY <1>1, <1>2
<1>4. ASSUME own # {} PROVE Cardinality(own) = 1
  <2>1. PICK i \in own : own = {i}
    BY <1>3, <1>4
  <2> QED
    BY <2>1, FS_Singleton
<1> QED
  BY <1>3, <1>4

\* The invariant gives what the runs check.
LEMMA QueryInvGives == QueryInv => QueryTypeOK /\ NamesAreAnswered
<1> SUFFICES ASSUME QueryInv PROVE QueryTypeOK /\ NamesAreAnswered
  OBVIOUS
<1>1. /\ WorkersTyped /\ SlotTyped /\ AnswersTyped /\ expired \in BOOLEAN
      /\ Waiting(line, running, busy) /\ AnswersRight
  BY QueryInvIs
<1>2. WaitsForItsRequest
  <2> SUFFICES ASSUME NEW w \in QueryWindows
               PROVE  LET own == {i \in DOMAIN line : line[i].window = w /\ ~line[i].orphan}
                      IN  IF busy[w] = {} THEN own = {} /\ ~InSlot(running, w)
                          ELSE IF InSlot(running, w) THEN own = {} ELSE Cardinality(own) = 1
    BY Zenon DEF WaitsForItsRequest, InSlot, Own
  <2> QED
    BY <1>1, OwnAre
<1>3. AnsweredOnce
  BY <1>1 DEF AnswersRight, OneResult, NoneLost, AnsweredOnce, Unanswered, AnswersTyped
<1>4. /\ worker \in [QueryWindows -> {"on", "closing", "off"}]
      /\ {late, unread, targets, results, inbox, inflight, completed, stranded}
            \subseteq SUBSET QueryWindows
      /\ retries \in [QueryWindows -> 0..3]
      /\ attempts \in [QueryWindows -> {"none", "first", "second"}]
      /\ busy \in [QueryWindows -> SUBSET (Names \cup Query)]
      /\ job \in {"none", "pending", "completed", "timed_out"}
      /\ upload \in [QueryWindows -> {"none", "pending", "taken"}]
      /\ uploaded \in [QueryWindows -> Nat]
  <2>1. Names \cup Query = {"roster", "query"}
    BY DEF Names, Query
  <2> QED
    BY <1>1, <2>1 DEF WorkersTyped, AnswersTyped
<1>5. line \in Seq(Requests) /\ running \in Requests \cup {Free}
  BY <1>1, Zenon DEF SlotTyped
<1>6. QueryTypeOK
  BY <1>1, <1>4, <1>5, Zenon DEF QueryTypeOK, Requests
<1> QED
  BY <1>2, <1>3, <1>6 DEF NamesAreAnswered

\* The client behind the windows does nothing else to the names.
LEMMA WorkersRunQuery == Spec => QuerySpec
<1>1. Init => QueryInit
  BY DEF Init
<1>2. [Next]_vars => [QueryNext]_query
  BY DEF Next, ByUploads, ByNames, ByUpdates, vars
<1>3. QED
  BY <1>1, <1>2, PTL DEF Spec, QuerySpec

\* The invariant holds throughout.
LEMMA NamesStayAnswered == Spec => []QueryInv
<1>1. QuerySpec => []QueryInv
  BY QueryStarts, QueryStep, PTL DEF QuerySpec
<1>2. QED
  BY <1>1, WorkersRunQuery, PTL

\* Whatever queries, rosters, stopped windows and lost answers come between, a worker
\* waits for the slot exactly while a request of its own is in line or in the slot,
\* every window submits at most one result, and a command is lost in the two known
\* cases only (ocr_scheduler.py 20, http_server.py 255, main_window.py 3204).
THEOREM EveryNameIsAnswered == Spec => []NamesAreAnswered
BY NamesStayAnswered, QueryInvGives, PTL

\* The workers, the slot, the server's query and the client's books stay in their types.
THEOREM QueryTypesCorrect == Spec => []QueryTypeOK
BY NamesStayAnswered, QueryInvGives, PTL

-----------------------------------------------------------------------------
(* The client's workers together.                                          *)

\* Uploads, names and update: every variable of the client's workers stays in its type.
THEOREM ClientTypesCorrect == Spec => []TypeOK
BY UploadTypesCorrect, QueryTypesCorrect, UpdaterTypesCorrect, PTL DEF TypeOK
=============================================================================
