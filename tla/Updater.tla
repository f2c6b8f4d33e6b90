------------------------------ MODULE Updater -------------------------------
(***************************************************************************)
(* The update of the desktop client (client/app/updater.py).  The client   *)
(* asks for the published release, downloads its program and, if they      *)
(* differ from the installed ones, its OCR models, remembers them on disk  *)
(* and, when it is closed, leaves a script behind that replaces the files, *)
(* puts the new client on trial and rolls back if that fails.              *)
(*                                                                         *)
(* A package's content is named by the version it was made for: its hash   *)
(* is that of another version exactly when the versions differ.            *)
(***************************************************************************)
EXTENDS Integers, FiniteSets

CONSTANTS
    MaxVersion,     \* the releases are 1..MaxVersion; 1 is installed
    ModelOf,        \* the version of the models each release is made for
    MaxPublishes,   \* bound on the changes of the manifest
    MaxClicks,      \* bound on the user's clicks on the update button
    MaxUpdateFaults \* bound on requests and copies that fail, spoilt files, early
                    \* ends of the client and losses of power

ASSUME UpdaterAssumption ==
    /\ {MaxVersion, MaxPublishes, MaxClicks, MaxUpdateFaults} \subseteq Nat
    /\ MaxVersion >= 1
    /\ ModelOf \in [1..MaxVersion -> 1..MaxVersion]

VARIABLES
    updater,    \* the running client and its ClientUpdater
    packages,   \* the complete downloads: "none", "good", "bad" for each
    parts,      \* the .part files: "none", "some", "whole", "bad"
    keepsake,   \* pending-update.json
    script,     \* the detached script
    scriptFile, \* apply-*.ps1 is there
    install,    \* the program files: versions of program and models
    backup,     \* previous-version
    published,  \* the version in the manifest
    chances,    \* what is left of the bounds
    regrets     \* history: a loss of power that tore the installation ("torn"), a
                \* download before the update under way had proved itself ("untried")

downloads == <<packages, parts, keepsake>>
installed == <<script, scriptFile, install, backup>>
update == <<updater, downloads, installed, published, chances, regrets>>

-----------------------------------------------------------------------------
Versions == 1..MaxVersion

Torn == [program |-> 0, models |-> 0]   \* some files new, some old

Program(v) == [kind |-> "program", of |-> v]
Models(v) == [kind |-> "models", of |-> v]
Files == {Program(v) : v \in Versions} \cup {Models(ModelOf[v]) : v \in Versions}

NoKeepsake == [release |-> 0, program |-> 0, models |-> 0]
NoScript == [at |-> "none", target |-> 0, program |-> 0, models |-> 0]
Off == [at |-> "off", version |-> 0, release |-> 0, program |-> 0, models |-> 0,
        ready |-> FALSE, checked |-> FALSE, signed |-> {}, kind |-> "program",
        mirror |-> FALSE, manual |-> FALSE, recheck |-> "no", due |-> {}, auto |-> FALSE]
Started == [Off EXCEPT !.at = "restoring", !.version = install.program, !.auto = TRUE]

Working == {"checking", "fetching", "refused", "verifying"}     \* _busy

Fault == chances.faults > 0 /\ chances' = [chances EXCEPT !.faults = @ - 1]

\* The packages are what the release says: sizes and hashes.
Matches(release, program, models) ==
    /\ release # 0 /\ program = release
    /\ packages[Program(program)] = "good"
    /\ models # 0 => (models = ModelOf[release] /\ packages[Models(models)] = "good")

\* On to a check that had to wait for the restoration, if there is one.
Recheck(u) ==
    IF u.recheck = "no" THEN u
    ELSE [u EXCEPT !.at = "checking", !.manual = u.recheck = "manual", !.recheck = "no"]

UpdaterInit ==
    /\ updater = Off
    /\ packages = [f \in Files |-> "none"] /\ parts = [f \in Files |-> "none"]
    /\ keepsake = NoKeepsake
    /\ script = NoScript /\ scriptFile = FALSE
    /\ install = [program |-> 1, models |-> ModelOf[1]] /\ backup = NoKeepsake
    /\ published = 1
    /\ chances = [publishes |-> MaxPublishes, clicks |-> MaxClicks, faults |-> MaxUpdateFaults]
    /\ regrets = {}

-----------------------------------------------------------------------------
(* The client *)

\* The user starts the client, which cannot be while its files are replaced.  To
\* do so while the script is at work counts as a fault.
StartClient ==
    /\ updater.at = "off"
    /\ install # Torn
    /\ script.at \in {"none", "waiting", "staged", "backed"}
    /\ IF script.at = "none" THEN UNCHANGED chances ELSE Fault
    /\ updater' = Started
    /\ UNCHANGED <<downloads, installed, published, regrets>>

\* load_pending_update: a download that is newer than the program, or the same
\* as long as a script that may roll it back is there.
Restorable ==
    /\ Matches(keepsake.release, keepsake.program, keepsake.models)
    /\ \/ keepsake.release > updater.version
       \/ keepsake.release = updater.version /\ scriptFile

\* The files that an old clean-up leaves alone.
Preserved ==
    IF Restorable THEN {Program(keepsake.program)} \cup
        (IF keepsake.models = 0 THEN {} ELSE {Models(keepsake.models)})
    ELSE {}

\* _load_local_update_state and what follows it.  Files are old after seven days.
RestoreUpdate ==
    /\ updater.at = "restoring"
    /\ keepsake' = IF Restorable THEN keepsake ELSE NoKeepsake
    /\ \E old \in BOOLEAN :
        IF old /\ script.at = "none"
        THEN /\ packages' = [f \in Files |-> IF f \in Preserved THEN packages[f] ELSE "none"]
             /\ parts' = [f \in Files |-> "none"]
             /\ scriptFile' = FALSE
        ELSE UNCHANGED <<packages, parts, scriptFile>>
    /\ updater' =
        IF Restorable /\ keepsake.release > updater.version
        THEN [updater EXCEPT !.at = "verifying", !.release = keepsake.release,
                !.program = keepsake.program, !.models = keepsake.models, !.ready = TRUE]
        ELSE Recheck([updater EXCEPT !.at = "idle"])
    /\ UNCHANGED <<script, install, backup, published, chances, regrets>>

\* check, by the timer 1.5 s after the start or by the user.
CheckFrom(u, manual) ==
    CASE u.at = "restoring" -> [u EXCEPT !.recheck = IF manual THEN "manual" ELSE "auto"]
      [] u.at = "idle" -> [u EXCEPT !.at = "checking", !.manual = manual]
      [] OTHER -> u

AutoCheck ==
    /\ updater.auto
    /\ updater' = CheckFrom([updater EXCEPT !.auto = FALSE], FALSE)
    /\ UNCHANGED <<downloads, installed, published, chances, regrets>>

\* _finish_check with a good answer; a release it knew before is replaced.
FinishCheck ==
    /\ updater.at = "checking"
    /\ updater' =
        IF published > updater.version
        THEN [updater EXCEPT !.at = "idle", !.release = published,
                !.due = IF updater.manual THEN @ ELSE @ \cup {"download"}]
        ELSE [updater EXCEPT !.at = "idle", !.release = 0]
    /\ UNCHANGED <<downloads, installed, published, chances, regrets>>

FailCheck ==
    /\ updater.at = "checking"
    /\ Fault
    /\ updater' = [updater EXCEPT !.at = "idle"]
    /\ UNCHANGED <<downloads, installed, published, regrets>>

\* _begin_component_download, with the mirror first.  A part that is complete asks
\* for the bytes after its end, which no server has.
Begun(u, kind) ==
    LET file == IF kind = "program" THEN Program(u.release) ELSE Models(ModelOf[u.release])
    IN  [u EXCEPT !.at = IF parts[file] = "whole" THEN "refused" ELSE "fetching",
            !.kind = kind, !.mirror = TRUE]

NeedsModels(u) == ModelOf[u.release] # install.models

\* A download is complete: it is remembered, and verified again.
Completed(u) ==
    /\ updater' = [u EXCEPT !.at = "idle", !.ready = TRUE, !.due = @ \cup {"prepare"}]
    /\ keepsake' = [release |-> u.release, program |-> u.program, models |-> u.models]
    /\ regrets' = IF script.at # "none" THEN regrets \cup {"untried"} ELSE regrets

\* download, by its timer or by the user.  A program that is ready counts as that
\* of the release, whichever it is.
Download(u) ==
    CASE u.at # "idle" \/ u.release = 0 ->
            updater' = u /\ UNCHANGED <<keepsake, regrets>>
      [] u.at = "idle" /\ u.release # 0 /\ u.program = 0 ->
            updater' = Begun(u, "program") /\ UNCHANGED <<keepsake, regrets>>
      [] u.at = "idle" /\ u.release # 0 /\ u.program # 0 ->
            IF NeedsModels(u) THEN updater' = Begun(u, "models") /\ UNCHANGED <<keepsake, regrets>>
            ELSE Completed([u EXCEPT !.models = 0])

AutoDownload ==
    /\ "download" \in updater.due
    /\ Download([updater EXCEPT !.due = @ \ {"download"}])
    /\ UNCHANGED <<packages, parts, installed, published, chances>>

\* The file that is being fetched.
Target == IF updater.kind = "program" THEN Program(updater.release)
          ELSE Models(ModelOf[updater.release])

\* _read_download_data: more of the file; or the whole file again, if the server
\* does not know of ranges, instead of what follows the part.
ReceiveData ==
    /\ updater.at = "fetching"
    /\ \/ parts[Target] = "none" /\ parts' = [parts EXCEPT ![Target] = "some"]
       \/ parts[Target] = "some" /\ parts' = [parts EXCEPT ![Target] = "whole"]
       \/ parts[Target] = "bad" /\ parts' = [parts EXCEPT ![Target] = "some"]
    /\ UNCHANGED <<updater, packages, keepsake, installed, published, chances, regrets>>

\* A source has something else under this name.
ReceiveOther ==
    /\ updater.at = "fetching"
    /\ Fault
    /\ parts' = [parts EXCEPT ![Target] = "bad"]
    /\ UNCHANGED <<updater, packages, keepsake, installed, published, regrets>>

\* _finish_download: the size and hash are right.
FinishDownload ==
    /\ updater.at = "fetching"
    /\ parts[Target] = "whole"
    /\ parts' = [parts EXCEPT ![Target] = "none"]
    /\ packages' = [packages EXCEPT ![Target] = "good"]
    /\ IF updater.kind = "models"
       THEN Completed([updater EXCEPT !.models = ModelOf[updater.release]])
       ELSE LET u == [updater EXCEPT !.program = updater.release]
            IN  IF NeedsModels(u)
                THEN updater' = Begun(u, "models") /\ UNCHANGED <<keepsake, regrets>>
                ELSE Completed(u)
    /\ UNCHANGED <<installed, published, chances>>

\* The other source is tried; there is none after that.
Fallback ==
    IF updater.mirror
    THEN LET u == [updater EXCEPT !.mirror = FALSE]
         IN  updater' = IF parts'[Target] = "whole" THEN [u EXCEPT !.at = "refused"]
                        ELSE [u EXCEPT !.at = "fetching"]
    ELSE updater' = [updater EXCEPT !.at = "idle"]

\* _finish_download: the hash is wrong, so the part goes.
FailIntegrity ==
    /\ updater.at = "fetching" /\ parts[Target] = "bad"
    /\ parts' = [parts EXCEPT ![Target] = "none"]
    /\ Fallback
    /\ UNCHANGED <<packages, keepsake, installed, published, chances, regrets>>

\* The server answers with an error: the part goes when there is no other source.
FailHttp ==
    /\ \/ updater.at = "refused" /\ UNCHANGED chances
       \/ updater.at = "fetching" /\ Fault
    /\ parts' = IF updater.mirror THEN parts ELSE [parts EXCEPT ![Target] = "none"]
    /\ Fallback
    /\ UNCHANGED <<packages, keepsake, installed, published, regrets>>

\* The connection is lost: the part is kept, to go on from there.
FailTransport ==
    /\ updater.at = "fetching"
    /\ Fault
    /\ UNCHANGED parts
    /\ Fallback
    /\ UNCHANGED <<packages, keepsake, installed, published, regrets>>

\* _prepare_ready_update
Preparing(u) ==
    IF u.at = "idle" /\ u.ready /\ u.release # 0
    THEN [u EXCEPT !.at = "verifying", !.checked = FALSE] ELSE u

AutoPrepare ==
    /\ "prepare" \in updater.due
    /\ updater' = Preparing([updater EXCEPT !.due = @ \ {"prepare"}])
    /\ UNCHANGED <<downloads, installed, published, chances, regrets>>

\* _validate_ready_update_files, and what follows it.
Verify ==
    /\ updater.at = "verifying"
    /\ LET sound == Matches(updater.release, updater.program, updater.models)
       IN  updater' = Recheck([updater EXCEPT
                !.at = "idle", !.checked = sound,
                !.signed = IF ~sound THEN @ ELSE {Program(updater.program)} \cup
                    (IF updater.models = 0 THEN {} ELSE {Models(updater.models)})])
    /\ UNCHANGED <<downloads, installed, published, chances, regrets>>

\* _launch_installer: the script is started and the client closes, unless the
\* packages must be verified again.  One script at a time: see README.
Launch ==
    /\ script.at = "none"
    /\ IF updater.ready /\ updater.release # 0 /\ updater.checked
          /\ \A f \in updater.signed : packages[f] = "good"
       THEN /\ script' = [at |-> "waiting", target |-> updater.release,
                          program |-> updater.program, models |-> updater.models]
            /\ scriptFile' = TRUE
            /\ updater' = Off
       ELSE /\ updater' = IF updater.ready /\ updater.release # 0
                          THEN Preparing([updater EXCEPT !.checked = FALSE]) ELSE updater
            /\ UNCHANGED <<script, scriptFile>>
    /\ UNCHANGED <<downloads, install, backup, published, regrets>>

\* request_action, the button of the settings.
Click ==
    /\ updater.at \in {"restoring", "idle"}
    /\ chances.clicks > 0
    /\ chances' = [chances EXCEPT !.clicks = @ - 1]
    /\ \/ updater.ready /\ Launch
       \/ /\ ~updater.ready /\ updater.release # 0
          /\ Download(updater)
          /\ UNCHANGED <<packages, parts, installed, published>>
       \/ /\ ~updater.ready /\ updater.release = 0
          /\ updater' = CheckFrom(updater, TRUE)
          /\ UNCHANGED <<downloads, installed, published, regrets>>

Settled == updater.at = "idle" /\ updater.due = {} /\ ~updater.auto /\ script.at = "none"

\* _quit_app: with a download that is ready the client closes only if the script
\* has been started.  Closing before the work is done, or on trial, counts as a fault.
Quit ==
    /\ updater.at # "off"
    /\ IF Settled THEN UNCHANGED chances ELSE Fault
    /\ IF updater.ready /\ updater.checked THEN Launch
       ELSE /\ updater' = Off
            /\ UNCHANGED <<downloads, installed, published, regrets>>

-----------------------------------------------------------------------------
(* The script *)

\* The end of a script that has not touched the program files: the client that is
\* there is started.
Abandoned ==
    /\ script' = NoScript /\ scriptFile' = FALSE
    /\ updater' = IF updater.at = "off" /\ install # Torn THEN Started ELSE updater

\* The client has exited; the packages are compared with the sizes and hashes that
\* the script was given, and expanded.
CheckAndStage ==
    /\ script.at = "waiting"
    /\ IF Matches(script.target, script.program, script.models)
       THEN script' = [script EXCEPT !.at = "staged"] /\ UNCHANGED <<updater, scriptFile>>
       ELSE Abandoned
    /\ UNCHANGED <<downloads, install, backup, published, chances, regrets>>

\* The backup is made anew each time; until then nothing is changed.
BackUp ==
    /\ script.at = "staged"
    /\ \/ /\ script' = [script EXCEPT !.at = "backed"]
          /\ backup' = install
          /\ UNCHANGED <<updater, scriptFile, chances>>
       \/ Fault /\ Abandoned /\ UNCHANGED backup
    /\ UNCHANGED <<downloads, install, published, regrets>>

\* $installStarted, and the first files.
BeginCopy ==
    /\ script.at = "backed"
    /\ script' = [script EXCEPT !.at = "copying"]
    /\ install' = Torn
    /\ UNCHANGED <<updater, downloads, scriptFile, backup, published, chances, regrets>>

\* Without a models package the installed models are left in their place.
FinishCopy ==
    /\ script.at = "copying"
    /\ updater.at = "off"
    /\ script' = [script EXCEPT !.at = "copied"]
    /\ install' = [program |-> IF packages[Program(script.program)] = "good"
                               THEN script.program ELSE 0,
                   models |-> IF script.models # 0 THEN script.models ELSE backup.models]
    /\ UNCHANGED <<updater, downloads, scriptFile, backup, published, chances, regrets>>

\* Files of a running client cannot be replaced.
FailCopy ==
    /\ script.at = "copying"
    /\ IF updater.at = "off" THEN Fault ELSE UNCHANGED chances
    /\ script' = [script EXCEPT !.at = "failed"]
    /\ UNCHANGED <<updater, downloads, scriptFile, install, backup, published, regrets>>

StartTrial ==
    /\ script.at = "copied"
    /\ script' = [script EXCEPT !.at = "proving"]
    /\ updater' = Started
    /\ UNCHANGED <<downloads, scriptFile, install, backup, published, chances, regrets>>

\* The client's marker has the right version (client/main.py).
Confirm ==
    /\ script.at = "proving"
    /\ updater.at # "off" /\ updater.version = script.target
    /\ script' = [script EXCEPT !.at = "cleaning"]
    /\ UNCHANGED <<updater, downloads, scriptFile, install, backup, published, chances, regrets>>

\* The client on trial has ended, or has not confirmed in time.
TrialFails ==
    /\ script.at = "proving"
    /\ IF updater.at = "off" THEN UNCHANGED chances ELSE Fault
    /\ script' = [script EXCEPT !.at = "failed"]
    /\ updater' = Off
    /\ UNCHANGED <<downloads, scriptFile, install, backup, published, regrets>>

\* Mutant of RollBack: a copy that failed is not taken for one that has begun.
RollBackAfterTrial ==
    /\ script.at = "failed"
    /\ IF install # Torn
       THEN script' = [script EXCEPT !.at = "rolling"] /\ install' = Torn
                /\ UNCHANGED <<updater, scriptFile>>
       ELSE Abandoned /\ UNCHANGED install
    /\ UNCHANGED <<downloads, backup, published, chances, regrets>>

\* The backup is copied back.
RollBack ==
    /\ script.at = "failed"
    /\ script' = [script EXCEPT !.at = "rolling"]
    /\ install' = Torn
    /\ UNCHANGED <<updater, downloads, scriptFile, backup, published, chances, regrets>>

\* ... and the old client started; or it cannot be, and the backup stays.
FinishRollBack ==
    /\ script.at = "rolling"
    /\ script' = NoScript /\ scriptFile' = FALSE
    /\ \/ /\ install' = backup /\ backup' = NoKeepsake
          /\ updater' = IF updater.at = "off" /\ backup # Torn
                        THEN [Started EXCEPT !.version = backup.program] ELSE updater
          /\ UNCHANGED <<chances, regrets>>
       \/ /\ Fault
          /\ regrets' = regrets \cup {"torn"}
          /\ UNCHANGED <<install, backup, updater>>
    /\ UNCHANGED <<downloads, published>>

\* The finally of an update that worked.
CleanUp ==
    /\ script.at = "cleaning"
    /\ packages' = [f \in Files |->
            IF f \in {Program(script.program), Models(script.models)} THEN "none" ELSE packages[f]]
    /\ keepsake' = NoKeepsake
    /\ backup' = NoKeepsake
    /\ script' = NoScript /\ scriptFile' = FALSE
    /\ UNCHANGED <<updater, parts, install, published, chances, regrets>>

-----------------------------------------------------------------------------
(* The world *)

Release ==
    /\ chances.publishes > 0
    /\ chances' = [chances EXCEPT !.publishes = @ - 1]
    /\ \E v \in Versions \ {published} : published' = v
    /\ UNCHANGED <<updater, downloads, installed, regrets>>

\* A package is damaged.
Damage ==
    /\ Fault
    /\ \E f \in Files :
        /\ packages[f] = "good"
        /\ packages' = [packages EXCEPT ![f] = "bad"]
    /\ script.at \in {"none", "waiting"}
    /\ UNCHANGED <<updater, parts, keepsake, installed, published, regrets>>

\* The power goes, or the computer is restarted: the script does not come back.
LosePower ==
    /\ Fault
    /\ updater' = Off
    /\ script' = NoScript
    /\ regrets' = IF install = Torn THEN regrets \cup {"torn"} ELSE regrets
    /\ UNCHANGED <<downloads, scriptFile, install, backup, published>>

ScriptSteps ==
    \/ CheckAndStage \/ BackUp \/ BeginCopy \/ FinishCopy \/ FailCopy
    \/ StartTrial \/ Confirm \/ TrialFails \/ RollBack \/ FinishRollBack \/ CleanUp

ClientSteps ==
    \/ RestoreUpdate \/ AutoCheck \/ FinishCheck \/ AutoDownload
    \/ ReceiveData \/ FinishDownload \/ FailIntegrity \/ FailHttp
    \/ AutoPrepare \/ Verify

UpdaterNext ==
    \/ StartClient \/ Click \/ Quit
    \/ ClientSteps \/ ScriptSteps
    \/ FailCheck \/ ReceiveOther \/ FailTransport
    \/ Release \/ Damage \/ LosePower

-----------------------------------------------------------------------------
UpdaterTypeOK ==
    LET version == 0..MaxVersion
    IN  /\ updater \in [at : {"off", "restoring", "idle"} \cup Working, version : version,
                         release : version, program : version, models : version,
                         ready : BOOLEAN, checked : BOOLEAN, signed : SUBSET Files,
                         kind : {"program", "models"}, mirror : BOOLEAN, manual : BOOLEAN,
                         recheck : {"no", "auto", "manual"},
                         due : SUBSET {"download", "prepare"}, auto : BOOLEAN]
        /\ packages \in [Files -> {"none", "good", "bad"}]
        /\ parts \in [Files -> {"none", "some", "whole", "bad"}]
        /\ keepsake \in [release : version, program : version, models : version]
        /\ script \in [at : {"none", "waiting", "staged", "backed", "copying", "copied",
                            "proving", "cleaning", "failed", "rolling"},
                        target : version, program : version, models : version]
        /\ scriptFile \in BOOLEAN
        /\ install \in [program : version, models : version]
        /\ backup \in [program : version, models : version] \cup {NoKeepsake}
        /\ published \in Versions
        /\ chances \in [publishes : 0..MaxPublishes, clicks : 0..MaxClicks,
                         faults : 0..MaxUpdateFaults]
        /\ regrets \subseteq {"torn", "untried"}

\* Whenever no script is replacing the files, they are one whole version with the
\* models it was made for, and on trial it is newer than what it replaces, although
\* copies fail, packages are damaged and clients end; except after a loss of power
\* in the middle (updater.py 779), and for the models if a client had downloaded a
\* release without them while a script was about to change them (updater.py 1069).
InstallIsWhole ==
    \/ "torn" \in regrets \/ script.at \in {"copying", "failed", "rolling"}
    \/ /\ install.program # 0
       /\ "untried" \in regrets \/ install.models = ModelOf[install.program]
       /\ script.at \in {"copied", "proving", "cleaning"} => install.program > backup.program

\* The manifest went back to the installed version while a download was ready: the
\* client keeps it but cannot install it, nor close (updater.py 1437).
Blocked == updater.ready /\ updater.release = 0

\* The published release, or a newer one, is installed; except after a torn copy.
UpdateArrives ==
    "torn" \in regrets \/ Blocked \/ install.program >= published

=============================================================================
