------------------------------ MODULE HostSetup ------------------------------
(***************************************************************************)
(* `komizo setup` with a definition: a host prepared and an application    *)
(* registered from a workstation.  The work is spread over the             *)
(* workstation's command (src/src/caller/provision.rs), the registration   *)
(* script it pipes to a shell on the host (src/src/runtime/alpine.sh) and  *)
(* the host's own policy verb.  None of it is a transaction: the command   *)
(* can be stopped between any two steps, the script goes on without it or   *)
(* is stopped by the broken connection, and setup is simply run again.     *)
(*                                                                         *)
(* One application; every operator has a workstation with a key directory  *)
(* of its own.                                                             *)
(***************************************************************************)
EXTENDS Naturals, Sequences

CONSTANTS
  Operators,  \* who run setup, each from another workstation
  NoKey       \* no operator: nobody's key is authorized

VARIABLES
  setup,       \* where each operator's setup command is, and what it has read
  keyfile,     \* the private key file in each operator's key directory
  bound,       \* operators whose targets.json names the application
  receipt,     \* "registered" if each operator's last setup said so
  script,      \* each operator's registration script on the host
  parts,       \* what those scripts have put in place
  authorized,  \* whose key the deploy account accepts
  policy,      \* the application's policy: "none", "initial", "enabled"
  agent        \* how far the host is initialised

setupVars == <<setup, keyfile, bound, receipt, script, parts, authorized, policy, agent>>
hostVars == <<script, parts, authorized, policy, agent>>

-----------------------------------------------------------------------------
(* The durable effects of the script, in order.  The last two edit a file    *)
(* that other registrations edit too, under a backup taken first.          *)
ScriptSteps == <<"account", "key", "record", "policy", "doas", "sshd">>

AtRest == "idle"
NoScript == [at |-> 0, backup |-> {}, end |-> "none"]

SetupInit ==
  /\ setup = [o \in Operators |-> AtRest]
  /\ keyfile = [o \in Operators |-> "none"]
  /\ bound = {}
  /\ receipt = [o \in Operators |-> "error"]
  /\ script = [o \in Operators |-> NoScript]
  /\ parts = {}
  /\ authorized = NoKey
  /\ policy = "none"
  /\ agent = "none"

Goes(o, step) == setup' = [setup EXCEPT ![o] = step]

(* The command ends with an error, or is killed, wherever it is. *)
SetupFails(o) ==
  /\ setup[o] # AtRest
  /\ Goes(o, AtRest)
  /\ receipt' = [receipt EXCEPT ![o] = "error"]
  /\ UNCHANGED <<keyfile, bound>> /\ UNCHANGED hostVars

(* Setup starts, or is run again: the definition is read, the host reached.  *)
(* The registration script of an earlier run may still be at work.         *)
Starts(o) ==
  /\ setup[o] = AtRest
  /\ Goes(o, "doctor")
  /\ UNCHANGED <<keyfile, bound, receipt>> /\ UNCHANGED hostVars

(* The prerequisites, and whether the agent is there: then the host counts   *)
(* as initialised.                                                         *)
Examines(o) ==
  /\ setup[o] = "doctor"
  /\ Goes(o, IF agent \in {"installed", "proxied"} THEN "report" ELSE "init")
  /\ UNCHANGED <<keyfile, bound, receipt>> /\ UNCHANGED hostVars

(* The three host-changing steps of `initialize`. *)
Initializes(o) ==
  /\ \/ /\ setup[o] = "init" /\ Goes(o, "agent")
        /\ agent' = IF agent = "none" THEN "prepared" ELSE agent
     \/ /\ setup[o] = "agent" /\ Goes(o, "proxy")
        /\ agent' = IF agent = "prepared" THEN "installed" ELSE agent
     \/ /\ setup[o] = "proxy" /\ Goes(o, "report")
        /\ agent' = "proxied"
  /\ UNCHANGED <<keyfile, bound, receipt, script, parts, authorized, policy>>

(* The report: an application with a record is an existing one, and its      *)
(* registration is not repeated.                                           *)
Reports(o) ==
  /\ setup[o] = "report"
  /\ Goes(o, IF "record" \in parts THEN "bootstrap" ELSE "key")
  /\ UNCHANGED <<keyfile, bound, receipt>> /\ UNCHANGED hostVars

(* A key file found is used when it is whole; one that is not is refused. *)
FindsKey(o) ==
  /\ setup[o] = "key"
  /\ \/ keyfile[o] \in {"private", "pair"} /\ Goes(o, "register")
     \/ keyfile[o] = "none" /\ Goes(o, "create")
  /\ UNCHANGED <<keyfile, bound, receipt>> /\ UNCHANGED hostVars

(* A new key is generated, and its file created. *)
CreatesKeyFile(o) ==
  /\ setup[o] = "create"
  /\ keyfile' = [keyfile EXCEPT ![o] = "torn"]
  /\ Goes(o, "write")
  /\ UNCHANGED <<bound, receipt>> /\ UNCHANGED hostVars

(* Bug: the public half is sent before the private one is on the disk. *)
SendsFirst(o) ==
  /\ setup[o] = "write"
  /\ Goes(o, "register")
  /\ UNCHANGED <<keyfile, bound, receipt>> /\ UNCHANGED hostVars

(* The private key is written and synced, then its public half beside it. *)
WritesKey(o) ==
  /\ \/ /\ setup[o] = "write" /\ keyfile' = [keyfile EXCEPT ![o] = "private"]
        /\ Goes(o, "public")
     \/ /\ setup[o] = "public" /\ keyfile' = [keyfile EXCEPT ![o] = "pair"]
        /\ Goes(o, "register")
  /\ UNCHANGED <<bound, receipt>> /\ UNCHANGED hostVars

(* The operator deletes a key file that setup refuses. *)
ClearsKey(o) ==
  /\ setup[o] = AtRest /\ keyfile[o] = "torn"
  /\ keyfile' = [keyfile EXCEPT ![o] = "none"]
  /\ UNCHANGED <<setup, bound, receipt>> /\ UNCHANGED hostVars

(* The script is piped to a shell on the host.  (One at a time of each        *)
(* operator.)                                                              *)
Registers(o) ==
  /\ setup[o] = "register" /\ script[o].at = 0
  /\ script' = [script EXCEPT ![o] = [NoScript EXCEPT !.at = 1]]
  /\ Goes(o, "await")
  /\ UNCHANGED <<keyfile, bound, receipt, parts, authorized, policy, agent>>

(* One step of the script.  The key file is overwritten with this operator's  *)
(* one key; a policy that is there is kept.  A shared file is copied aside,  *)
(* edited in place and the copy put away.                                  *)
Scripted(o) == ScriptSteps[script[o].at]
RunsScript(o) ==
  /\ script[o].at \in 1..Len(ScriptSteps) /\ script[o].end = "none"
  /\ \/ /\ Scripted(o) \notin {"doas", "sshd"}
        /\ parts' = parts \cup {Scripted(o)}
        /\ authorized' = IF Scripted(o) = "key" THEN o ELSE authorized
        /\ policy' = IF Scripted(o) = "policy" /\ policy = "none" THEN "initial" ELSE policy
        /\ script' = [script EXCEPT ![o].at = @ + 1]
     \/ /\ Scripted(o) \in {"doas", "sshd"} /\ script[o].backup = {}
        /\ script' = [script EXCEPT ![o].backup = {parts \cap {Scripted(o)}}]
        /\ UNCHANGED <<parts, authorized, policy>>
     \/ /\ script[o].backup # {}
        /\ parts' = parts \cup {Scripted(o)}
        /\ script' = [script EXCEPT ![o].backup = {}, ![o].at = @ + 1]
        /\ UNCHANGED <<authorized, policy>>
  /\ UNCHANGED <<setup, keyfile, bound, receipt, agent>>

(* A command of the script fails, or the broken connection ends it: the trap  *)
(* puts the copy back over whatever the file says now.                     *)
Aborts(o) ==
  /\ script[o].at \in 1..Len(ScriptSteps) /\ script[o].end = "none"
  /\ script' = [script EXCEPT ![o] = IF setup[o] = "await"
                                     THEN [NoScript EXCEPT !.end = "failed"] ELSE NoScript]
  /\ parts' = IF script[o].backup = {} THEN parts
              ELSE (parts \ {Scripted(o)}) \cup UNION script[o].backup
  /\ UNCHANGED <<setup, keyfile, bound, receipt, authorized, policy, agent>>

(* The script is through; its exit status waits for the command. *)
Completes(o) ==
  /\ script[o].at = Len(ScriptSteps) + 1
  /\ script' = [script EXCEPT ![o] = IF setup[o] = "await"
                                     THEN [NoScript EXCEPT !.end = "done"] ELSE NoScript]
  /\ UNCHANGED <<setup, keyfile, bound, receipt, parts, authorized, policy, agent>>

(* The command hears how the script ended and goes on only if it was well. *)
HearsScript(o) ==
  /\ setup[o] = "await" /\ script[o].end # "none"
  /\ script' = [script EXCEPT ![o] = NoScript]
  /\ IF script[o].end = "done" THEN Goes(o, "bootstrap") /\ UNCHANGED receipt
     ELSE Goes(o, AtRest) /\ receipt' = [receipt EXCEPT ![o] = "error"]
  /\ UNCHANGED <<keyfile, bound, parts, authorized, policy, agent>>

(* `policy-bootstrap` enables the policy of a registered application, once;  *)
(* again is the same.                                                      *)
Bootstraps(o) ==
  /\ setup[o] = "bootstrap"
  /\ "record" \in parts /\ policy # "none"
  /\ policy' = "enabled"
  /\ Goes(o, "bind")
  /\ UNCHANGED <<keyfile, bound, receipt, script, parts, authorized, agent>>

(* The workstation remembers the target, and the command says what it did;   *)
(* a binding that cannot be written is an error that takes nothing back.   *)
Binds(o) ==
  /\ setup[o] = "bind"
  /\ \/ /\ bound' = bound \cup {o}
        /\ receipt' = [receipt EXCEPT ![o] = "registered"]
     \/ receipt' = [receipt EXCEPT ![o] = "error"] /\ UNCHANGED bound
  /\ Goes(o, AtRest)
  /\ UNCHANGED keyfile /\ UNCHANGED hostVars

SetupNext ==
  \E o \in Operators :
    \/ SetupFails(o) \/ Starts(o) \/ Examines(o) \/ Initializes(o) \/ Reports(o)
    \/ FindsKey(o) \/ CreatesKeyFile(o) \/ WritesKey(o) \/ ClearsKey(o)
    \/ Registers(o) \/ RunsScript(o) \/ Aborts(o) \/ Completes(o) \/ HearsScript(o)
    \/ Bootstraps(o) \/ Binds(o)

SetupSpec == SetupInit /\ [][SetupNext]_setupVars

-----------------------------------------------------------------------------
SetupTypeOK ==
  /\ keyfile \in [Operators -> {"none", "torn", "private", "pair"}]
  /\ bound \subseteq Operators
  /\ authorized \in Operators \cup {NoKey}
  /\ parts \subseteq {ScriptSteps[i] : i \in 1..Len(ScriptSteps)}
  /\ policy \in {"none", "initial", "enabled"}
  /\ agent \in {"none", "prepared", "installed", "proxied"}

(* The key a deploy account accepts is one that somebody holds: its private   *)
(* half is whole on the disk of the workstation that sent it, whatever       *)
(* happened to that workstation's command since.                           *)
KeyHeld == authorized # NoKey => keyfile[authorized] \in {"private", "pair"}

(* Setup that says an application is registered leaves one that can be        *)
(* deployed to: its account accepts a key and may run the deploy command.    *)
(* README.md: "A registration interrupted after writing its key can resume   *)
(* with the intact key bound to the same app and host."  The resumption sees  *)
(* the record, takes the application for an existing one and never runs the  *)
(* rest of the registration.                                               *)
RegisteredIsUsable ==
  \A o \in Operators :
    receipt[o] = "registered" =>
      authorized # NoKey /\ policy = "enabled" /\ {"account", "doas", "sshd"} \subseteq parts
=============================================================================
