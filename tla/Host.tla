--------------------------------- MODULE Host ---------------------------------
(***************************************************************************)
(* The service on its host: what `sshoosh daemon install`, `uninstall` and *)
(* `restart` write, remove and ask of systemd or launchd, the manager that *)
(* starts the server again when it dies, and the database under it.        *)
(*                                                                         *)
(* A daemon command is the list of its steps.  Each may fail; a step that  *)
(* must succeed ends the command, one run at best effort does not.  The    *)
(* command may be killed, and the machine may restart, between any two.    *)
(***************************************************************************)
EXTENDS Integers, Sequences

CONSTANTS
    Backends,    \* managers to look at, of "systemd" and "launchd"
    MaxWrites    \* bound of the model: committed writes

ASSUME BackendsKnown == Backends \subseteq {"systemd", "launchd"}
ASSUME WritesBounded == MaxWrites \in Nat

VARIABLES
    backend,     \* ResolvedBackend
    files,       \* the files an installation consists of
    account,     \* the service user exists
    manager,     \* what systemd or launchd has been told
    cmd,         \* the daemon command under way
    server,      \* the process the manager runs, by the database it uses
    other,       \* another command has the database open
    written,     \* writes committed so far
    main,        \* how many of them the main file holds; the rest is in the WAL
    backup       \* the backup last taken by a restart

file == <<written, main>>
installation == <<files, account, manager>>
host_vars == <<backend, installation, cmd, server, other, file, backup>>

\* A write that failed half way leaves part of a file.  A whole env file says
\* where the database is.
File == {"absent", "partial", "whole", "local", "remote"}
Must(do) == [do |-> do, must |-> TRUE, force |-> FALSE]
Try(do) == [do |-> do, must |-> FALSE, force |-> FALSE]
WriteTo(f, force) == [do |-> f, must |-> TRUE, force |-> force]
Step == [do : {"account", "state-dir", "env", "wrapper", "unit",
               "daemon-reload", "enable", "start", "stop", "restart",
               "disable", "is-active", "bootstrap", "bootout", "kickstart",
               "print", "remove-unit", "remove-wrapper", "remove-env",
               "purge", "userdel", "copy-main", "copy-sidecars"},
         must : BOOLEAN, force : BOOLEAN]
NoCommand == [kind |-> "none", todo |-> << >>]
NoBackup == [phase |-> "none", holds |-> 0, floor |-> 0, disturbed |-> FALSE]

HostTypeOK ==
    /\ backend \in Backends
    /\ files \in [{"env", "wrapper", "unit"} -> File]
    /\ account \in BOOLEAN
    /\ manager \in [loaded : BOOLEAN, enabled : BOOLEAN, wants : BOOLEAN]
    /\ cmd \in [kind : {"none", "killed", "install", "uninstall", "restart"},
                todo : Seq(Step)]
    /\ server \in {"off", "local", "remote", "lost"}
    /\ other \in BOOLEAN
    /\ written \in 0..MaxWrites
    /\ main \in 0..written
    /\ backup \in [phase : {"none", "main", "done"}, holds : Nat,
                   floor : Nat, disturbed : BOOLEAN]

HostInit ==
    /\ backend \in Backends
    /\ files = [f \in {"env", "wrapper", "unit"} |-> "absent"]
    /\ account = FALSE
    /\ manager = [loaded |-> FALSE, enabled |-> backend = "launchd",
                  wants |-> FALSE]
    /\ cmd = NoCommand
    /\ server = "off"
    /\ other = FALSE
    /\ written = 0
    /\ main = 0
    /\ backup = NoBackup
-----------------------------------------------------------------------------
(* The commands.  When holds the steps a flag may leave out.               *)
When(flag, steps) == IF flag THEN steps ELSE << >>

\* Mutant: the unit is written before the files it names.
InstallUnitFirst(force, start, enable) ==
    IF backend = "systemd"
    THEN <<Must("account"), Must("state-dir"), WriteTo("unit", force),
           WriteTo("env", force), Must("daemon-reload")>>
         \o When(enable, <<Must("enable")>>)
         \o When(start, <<Must("start")>>)
    ELSE <<Must("account"), Must("state-dir"), WriteTo("unit", force),
           WriteTo("env", force), WriteTo("wrapper", force), Must("bootstrap")>>
         \o When(enable, <<Must("enable")>>)
         \o When(start, <<Must("kickstart")>>)

Install(force, start, enable) ==
    IF backend = "systemd"
    THEN <<Must("account"), Must("state-dir"), WriteTo("env", force),
           WriteTo("unit", force), Must("daemon-reload")>>
         \o When(enable, <<Must("enable")>>)
         \o When(start, <<Must("start")>>)
    ELSE <<Must("account"), Must("state-dir"), WriteTo("env", force),
           WriteTo("wrapper", force), WriteTo("unit", force), Must("bootstrap")>>
         \o When(enable, <<Must("enable")>>)
         \o When(start, <<Must("kickstart")>>)

Uninstall(purge, remove_user) ==
    (IF backend = "systemd"
     THEN <<Try("stop"), Try("disable"), Must("remove-unit"),
            Must("remove-env"), Try("daemon-reload")>>
     ELSE <<Try("bootout"), Try("disable"), Must("remove-unit"),
            Must("remove-wrapper"), Must("remove-env")>>)
    \o When(purge, <<Must("purge")>>)
    \o When(remove_user, <<Try("userdel")>>)

Restart ==
    IF backend = "systemd"
    THEN <<Must("restart"), Must("is-active")>>
    ELSE <<Must("kickstart"), Must("print")>>

StartAgain ==
    IF backend = "systemd" THEN <<Must("start"), Must("is-active")>>
    ELSE <<Must("bootstrap"), Must("enable"), Must("kickstart"),
           Must("print")>>

\* Mutant: the server is stopped after the copy.
RestartCopiesFirst ==
    <<Must("copy-main"), Must("copy-sidecars"),
      Must(IF backend = "systemd" THEN "stop" ELSE "bootout")>> \o StartAgain

RestartWithBackup ==
    <<Must(IF backend = "systemd" THEN "stop" ELSE "bootout"),
      Must("copy-main"), Must("copy-sidecars")>> \o StartAgain

\* Mutant: a failed copy just ends the restart.
AfterCopyGivesUp == << >>

AfterCopyFails ==
    IF backend = "systemd" THEN <<Try("start")>>
    ELSE <<Try("bootstrap"), Try("enable"), Try("kickstart")>>

Begin(kind, steps) ==
    /\ cmd.kind \in {"none", "killed"}
    /\ cmd' = [kind |-> kind, todo |-> steps]
    /\ UNCHANGED <<backend, installation, server, other, file, backup>>

BeginInstall ==
    \E force, start, enable \in BOOLEAN :
        Begin("install", Install(force, start, enable))

BeginUninstall ==
    \E purge, remove_user \in BOOLEAN :
        Begin("uninstall", Uninstall(purge, remove_user))

Installed ==
    /\ files["unit"] # "absent"
    /\ files["env"] # "absent"
    /\ backend = "launchd" => files["wrapper"] # "absent"

\* daemon_database_from_env.  Part of an env file names no URL: SSHOOSH_DB
\* comes first.
Database == IF files["env"] = "remote" THEN "remote" ELSE "local"

\* resolve_restart_backup_plan: a remote database is not backed up here.
BackupPlan ==
    IF Database = "local" THEN {Restart, RestartWithBackup} ELSE {Restart}

\* detect_installed_daemon reads the unit and then the files it names.
BeginRestart ==
    /\ Installed
    /\ \E plan \in BackupPlan : Begin("restart", plan)
-----------------------------------------------------------------------------
(* The steps.                                                              *)
Doing(do) == cmd.todo # << >> /\ Head(cmd.todo).do = do

Continue(steps) ==
    cmd' = IF steps = << >> THEN NoCommand ELSE [cmd EXCEPT !.todo = steps]

Done == Continue(Tail(cmd.todo))

\* ensure_linux_account or ensure_macos_account.
EnsureAccount ==
    /\ Doing("account")
    /\ account' = TRUE
    /\ Done
    /\ UNCHANGED <<backend, files, manager, server, other, file, backup>>

EnsureStateDir ==
    /\ Doing("state-dir")
    /\ Done
    /\ UNCHANGED <<backend, installation, server, other, file, backup>>

MayWrite(f) == files[f] = "absent" \/ Head(cmd.todo).force

\* render_env_file, with a database URL in the configuration or without one.
Rendered(f) == IF f = "env" THEN {"local", "remote"} ELSE {"whole"}

WriteFile(f) ==
    /\ Doing(f)
    /\ MayWrite(f)
    /\ \E content \in Rendered(f) : files' = [files EXCEPT ![f] = content]
    /\ Done
    /\ UNCHANGED <<backend, account, manager, server, other, file, backup>>

Removal == [env |-> "remove-env", wrapper |-> "remove-wrapper",
            unit |-> "remove-unit"]

RemoveFile(f) ==
    /\ Doing(Removal[f])
    /\ files' = [files EXCEPT ![f] = "absent"]
    /\ Done
    /\ UNCHANGED <<backend, account, manager, server, other, file, backup>>

\* Mutant: the database file goes, what its WAL held is still counted.
PurgeMainOnly ==
    /\ Doing("purge")
    /\ written' = 0
    /\ server' = IF server = "off" THEN "off" ELSE "lost"
    /\ other' = FALSE
    /\ Done
    /\ UNCHANGED <<main, backend, installation, backup>>

Purge ==
    /\ Doing("purge")
    /\ written' = 0
    /\ main' = 0
    /\ server' = IF server = "off" THEN "off" ELSE "lost"
    /\ other' = FALSE
    /\ Done
    /\ UNCHANGED <<backend, installation, backup>>

UserDel ==
    /\ Doing("userdel")
    /\ account' = FALSE
    /\ Done
    /\ UNCHANGED <<backend, files, manager, server, other, file, backup>>

\* What systemctl and launchctl do.  A server that is killed has no handler
\* for the signal and leaves its WAL behind.
Kill(kill) == server' = IF kill THEN "off" ELSE server

Tell(do, accepted, told, kill) ==
    /\ Doing(do)
    /\ accepted
    /\ manager' = told
    /\ Kill(kill)
    /\ Done
    /\ UNCHANGED <<backend, files, account, other, file, backup>>

Manage ==
    \/ Tell("daemon-reload", TRUE,
            [manager EXCEPT !.loaded =
                                files["unit"] # "absent" \/ manager.wants], FALSE)
    \/ Tell("enable", files["unit"] # "absent",
            [manager EXCEPT !.enabled = TRUE], FALSE)
    \/ Tell("disable", TRUE, [manager EXCEPT !.enabled = FALSE], FALSE)
    \/ Tell("start", manager.loaded, [manager EXCEPT !.wants = TRUE], FALSE)
    \/ Tell("stop", manager.loaded, [manager EXCEPT !.wants = FALSE], TRUE)
    \/ Tell("restart", manager.loaded, [manager EXCEPT !.wants = TRUE], TRUE)
    \/ Tell("is-active", manager.wants, manager, FALSE)
    \/ Tell("bootstrap",
            files["unit"] # "absent" /\ ~manager.loaded /\ manager.enabled,
            [manager EXCEPT !.loaded = TRUE, !.wants = TRUE], FALSE)
    \/ Tell("bootout", manager.loaded,
            [manager EXCEPT !.loaded = FALSE, !.wants = FALSE], TRUE)
    \/ Tell("kickstart", manager.loaded, [manager EXCEPT !.wants = TRUE], TRUE)
    \/ Tell("print", manager.loaded, manager, FALSE)

\* copy_stopped_sqlite_backup: the database file, then the WAL if there is one.
CopyMain ==
    /\ Doing("copy-main")
    /\ backup' = [phase |-> "main", holds |-> main, floor |-> written,
                  disturbed |-> FALSE]
    /\ Done
    /\ UNCHANGED <<backend, installation, server, other, file>>

CopySidecars ==
    /\ Doing("copy-sidecars")
    /\ backup' = [backup EXCEPT !.phase = "done",
                    !.holds = IF main < written THEN written ELSE @]
    /\ Done
    /\ UNCHANGED <<backend, installation, server, other, file>>

Copying == Doing("copy-main") \/ Doing("copy-sidecars")

\* A step fails; one that writes a file may leave part of it, or all of it with
\* other permissions.
StepFails ==
    /\ cmd.todo # << >>
    /\ \/ UNCHANGED files
       \/ \E f \in DOMAIN files : \E content \in {"partial"} \cup Rendered(f) :
            /\ Doing(f)
            /\ MayWrite(f)
            /\ files' = [files EXCEPT ![f] = content]
    /\ \/ Copying /\ Continue(AfterCopyFails)
       \/ ~Copying /\ Head(cmd.todo).must /\ cmd' = NoCommand
       \/ ~Head(cmd.todo).must /\ Done
    /\ backup' = IF Copying THEN NoBackup ELSE backup
    /\ UNCHANGED <<backend, account, manager, server, other, file>>

\* The command is interrupted between two of its steps.
Killed ==
    /\ cmd.todo # << >>
    /\ cmd' = [NoCommand EXCEPT !.kind = "killed"]
    /\ UNCHANGED <<backend, installation, server, other, file, backup>>

CommandStep ==
    \/ EnsureAccount
    \/ EnsureStateDir
    \/ \E f \in DOMAIN files : WriteFile(f)
    \/ \E f \in DOMAIN files : RemoveFile(f)
    \/ Purge
    \/ UserDel
    \/ Manage
    \/ CopyMain
    \/ CopySidecars
    \/ StepFails
    \/ Killed
-----------------------------------------------------------------------------
\* The manager starts the server it wants up: RunAtLoad, KeepAlive,
\* Restart=on-failure.
Spawn ==
    /\ manager.wants
    /\ Installed
    /\ account
    /\ server = "off"
    /\ server' = Database
    /\ UNCHANGED <<backend, installation, cmd, other, file, backup>>

ServerDies ==
    /\ server # "off"
    /\ server' = "off"
    /\ UNCHANGED <<backend, installation, cmd, other, file, backup>>

\* Another command opens the database, or ends.
RunCommand ==
    /\ other' = ~other
    /\ UNCHANGED <<backend, installation, cmd, server, file, backup>>

Open == server = "local" \/ other

Write ==
    /\ Open
    /\ written < MaxWrites
    /\ written' = written + 1
    /\ UNCHANGED <<backend, installation, cmd, server, other, main, backup>>

\* SQLite: every query has a connection of its own, and the last to close
\* moves the WAL into the main file and removes it.
Checkpoint ==
    /\ main < written
    /\ main' = written
    /\ \/ server = "local" /\ UNCHANGED backup
       \/ /\ other
          /\ backup' = IF backup.phase = "main"
                       THEN [backup EXCEPT !.disturbed = TRUE] ELSE backup
    /\ UNCHANGED <<backend, installation, cmd, server, other, written>>

Reboot ==
    /\ server' = "off"
    /\ other' = FALSE
    /\ manager' = [loaded |-> files["unit"] # "absent",
                   enabled |-> manager.enabled,
                   wants |-> manager.enabled /\ files["unit"] # "absent"]
    /\ cmd' = [NoCommand EXCEPT !.kind = "killed"]
    /\ backup' = IF backup.phase = "main" THEN NoBackup ELSE backup
    /\ UNCHANGED <<backend, files, account, file>>

HostNext ==
    \/ BeginInstall
    \/ BeginUninstall
    \/ BeginRestart
    \/ CommandStep
    \/ Spawn
    \/ ServerDies
    \/ RunCommand
    \/ Write
    \/ Checkpoint
    \/ Reboot

HostSpec == HostInit /\ [][HostNext]_host_vars
-----------------------------------------------------------------------------
\* The manager never has a unit whose env file or wrapper was never written
\* or is already removed, wherever an install or an uninstall stopped.
UnitPointsAtConfig == files["unit"] # "absent" => Installed

\* A backup of `daemon restart --backup` holds every write committed before
\* it was taken, those still in the WAL of the stopped server included: the
\* server moves no WAL under the copy.  Another command may, and is excepted.
BackupsHoldCommitted ==
    backup.phase = "done" /\ ~backup.disturbed => backup.holds >= backup.floor

\* A restart that is not killed leaves a service the manager is to keep up,
\* unless the manager refused the stop or the last request to start: a copy
\* that fails is no reason to stay down.
RestartBringsUp ==
    [][cmd.kind = "restart" /\ cmd'.kind = "none" =>
        \/ manager'.wants
        \/ Head(cmd.todo).do \in {"stop", "bootout", "start", "restart",
                                  "bootstrap", "kickstart"}]_host_vars
=============================================================================
