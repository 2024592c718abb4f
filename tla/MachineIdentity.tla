-------------------------- MODULE MachineIdentity --------------------------
(***************************************************************************)
(* The files one installation of ctxd shares between its processes:        *)
(* config.json (the "machine" section, the folders and the ctxfs endpoint) *)
(* and credentials.json (the installation proof, the API keys and the      *)
(* machine registrations), and the commands that read and rewrite them     *)
(* (src/ctxd/machine_identity.py, secure_store.py, folders.py, config.py). *)
(*                                                                         *)
(* Both files are read whole and replaced whole.  credentials.json is only *)
(* rewritten under its lock; config.json is rewritten by the identity      *)
(* commands under the identity lock and by the folder and endpoint         *)
(* commands under no lock at all.  Every read and every replacement is a   *)
(* step, so a process can save a copy another process has overtaken.       *)
(***************************************************************************)
EXTENDS Naturals

CONSTANTS
    Procs,        \* the processes that run commands
    Endpoints,    \* the ctxfs servers
    Names,        \* the machine names (name and description are one value)
    DefaultName,  \* the host's name, given to a new identity
    Folders,      \* the names of tracked folders
    MaxIds,       \* bound: identities this installation may make
    MaxCommands,  \* bound: commands that may be started
    MaxFaults,    \* bound: processes that die, and reads that fail
    None          \* Python's None

ASSUME IdentityAssumption ==
    /\ DefaultName \in Names
    /\ None \notin Procs /\ None \notin Endpoints /\ None \notin Folders /\ None \notin Nat
    /\ MaxIds \in Nat /\ MaxCommands \in Nat /\ MaxFaults \in Nat

VARIABLES
    config,            \* config.json
    bundle,            \* credentials.json
    server,            \* the registrations each ctxfs server has accepted
    identityLock,      \* who holds .ctxd-locks/identity-<digest>.lock
    registrationLock,  \* who holds .ctxd-locks/register-<digest>.lock
    credentialsLock,   \* who holds credentials.lock
    proc,              \* where each process is, and its local variables
    minted,            \* identities made so far
    clobbered,         \* history: a save put back another machine section
    started, faults    \* the bounds' counters

vars == <<config, bundle, server, identityLock, registrationLock,
          credentialsLock, proc, minted, clobbered, started, faults>>

-----------------------------------------------------------------------------
(* The data *)

\* The id stands for installation_id and local_registration_id, which are
\* made together; 0 is the identity in a config copied from another machine.
Identity == [id : 0 .. MaxIds, name : Names]

Foreign == [id |-> 0, name |-> DefaultName]

Config == [machine : Identity \cup {None},
           folders : SUBSET Folders,
           endpoint : Endpoints \cup {None}]

EmptyConfig == [machine |-> None, folders |-> {}, endpoint |-> None]

\* The request of a registration carries the identity's id and name.
Registration == [state : {"pending", "registered"},
                 installation : 0 .. MaxIds,
                 request : Identity]

Bundle == [proof : (0 .. MaxIds) \cup {None},
           registrations : [Endpoints -> Registration \cup {None}],
           keys : SUBSET Endpoints]

EmptyBundle == [proof |-> None,
                registrations |-> [e \in Endpoints |-> None],
                keys |-> {}]

\* Python's None is none of the records.
ASSUME RecordAssumption == None \notin Identity \cup Config \cup Registration

Command == ({"status", "register", "login", "logout", "endpoint"} \X Endpoints)
             \cup ({"configure"} \X Names)
             \cup ({"add", "remove"} \X Folders)

Labels == {"idle", "loadIdentity", "saveIdentity", "haveIdentity", "lockRegistration",
           "call", "loadConfig", "saveConfig", "loadBundle", "saveBundle"}

\* What the section of the bundle under edit is: the argument of the save.
Edits == {"none", "proof", "pending", "registered", "login", "logout"}

Idle == [pc |-> "idle", job |-> None, edit |-> "none", cfg |-> None, stale |-> FALSE,
         ident |-> None, request |-> None, copy |-> None]

Process == [pc : Labels, job : Command \cup {None}, edit : Edits,
            cfg : Config \cup {None}, stale : BOOLEAN,
            ident : Identity \cup {None}, request : Identity \cup {None},
            copy : Bundle \cup {None}]

Cmd(p) == proc[p].job[1]
Arg(p) == proc[p].job[2]

Released(lock, p) == IF lock = p THEN None ELSE lock

ReleaseAll(p) ==
    /\ identityLock' = Released(identityLock, p)
    /\ registrationLock' = [e \in Endpoints |-> Released(registrationLock[e], p)]
    /\ credentialsLock' = Released(credentialsLock, p)

\* Saving config.json leaves every other process with an overtaken copy.
Overtaken(q) == IF proc[q].cfg = None THEN proc[q] ELSE [proc[q] EXCEPT !.stale = TRUE]

-----------------------------------------------------------------------------
(* Starting a command, and a process that ends in the middle of one *)

FirstStep(c) == CASE c[1] \in {"status", "register", "configure"} -> "loadIdentity"
                  [] c[1] \in {"add", "remove", "endpoint"}       -> "loadConfig"
                  [] OTHER                                        -> "loadBundle"

Begin(p, c) ==
    /\ proc[p].pc = "idle"
    /\ started < MaxCommands
    /\ started' = started + 1
    /\ proc' = [proc EXCEPT ![p].pc = FirstStep(c), ![p].job = c,
                            ![p].edit = IF c[1] \in {"login", "logout"}
                                          THEN c[1] ELSE "none"]
    /\ UNCHANGED <<config, bundle, server, identityLock, registrationLock,
                   credentialsLock, minted, clobbered, faults>>

\* The process is killed or the command raises: the response of a server is
\* lost or malformed, a file cannot be read strictly.  flock is released.
Die(p) ==
    /\ proc[p].pc # "idle"
    /\ faults < MaxFaults
    /\ faults' = faults + 1
    /\ proc' = [proc EXCEPT ![p] = Idle]
    /\ ReleaseAll(p)
    /\ UNCHANGED <<config, bundle, server, minted, clobbered, started>>

-----------------------------------------------------------------------------
(* load_or_create_machine_identity *)

\* The faulty variant writes the section without the rest of the file.
WithMachineOnly(c, identity) == [EmptyConfig EXCEPT !.machine = identity]

WithMachine(c, identity) == [c EXCEPT !.machine = identity]

\* The faulty variant trusts whatever the file says.
ProvenByPresence == config.machine # None

Proven == config.machine # None /\ bundle.proof = config.machine.id

\* The faulty variant takes the name of a machine section that is not there.
NewIdentityNameless == [id   |-> minted + 1,
                        name |-> IF config.machine = None THEN None
                                                          ELSE config.machine.name]

NewIdentity == [id   |-> minted + 1,
                name |-> IF config.machine = None THEN DefaultName
                                                  ELSE config.machine.name]

\* The faulty variant does not take the lock.
IdentityFreeAlways == TRUE

IdentityFree == identityLock = None

LoadIdentity(p) ==
    /\ proc[p].pc = "loadIdentity"
    /\ IdentityFree
    /\ identityLock' = p
    /\ \/ /\ Proven
          /\ proc' = [proc EXCEPT ![p].pc = "haveIdentity", ![p].ident = config.machine]
          /\ UNCHANGED minted
       \/ /\ ~ Proven
          /\ minted < MaxIds
          /\ minted' = minted + 1
          /\ proc' = [proc EXCEPT ![p].pc = "saveIdentity", ![p].ident = NewIdentity,
                                  ![p].cfg = WithMachine(config, NewIdentity),
                                  ![p].stale = FALSE]
    /\ UNCHANGED <<config, bundle, server, registrationLock, credentialsLock,
                   clobbered, started, faults>>

SaveIdentity(p) ==
    /\ proc[p].pc = "saveIdentity"
    /\ config' = proc[p].cfg
    /\ proc' = [q \in Procs |->
                  IF q = p THEN [proc[p] EXCEPT !.pc = "loadBundle", !.edit = "proof",
                                                !.cfg = None, !.stale = FALSE]
                           ELSE Overtaken(q)]
    /\ UNCHANGED <<bundle, server, identityLock, registrationLock, credentialsLock,
                   minted, clobbered, started, faults>>

\* configure_machine, still under the lock: the file is read again.
ReloadConfig(p) ==
    /\ proc[p].pc = "haveIdentity"
    /\ Cmd(p) = "configure"
    /\ proc' = [proc EXCEPT ![p].pc = "saveConfig",
                            ![p].cfg = WithMachine(config,
                                         [proc[p].ident EXCEPT !.name = Arg(p)])]
    /\ UNCHANGED <<config, bundle, server, identityLock, registrationLock,
                   credentialsLock, minted, clobbered, started, faults>>

-----------------------------------------------------------------------------
(* machine_status *)

\* What machine_status answers for an identity at an endpoint.
RegistrationState(e, identity) ==
    LET stored == bundle.registrations[e]
    IN  IF stored = None \/ stored.installation # identity.id THEN "unregistered"
        ELSE IF stored.state = "pending" THEN "registration_pending" ELSE "registered"

\* The end of machine_status, which register_machine calls too: by then the
\* request is known, and the registration lock is still held.
Report(p) ==
    /\ proc[p].pc = "haveIdentity"
    /\ Cmd(p) = "status" \/ (Cmd(p) = "register" /\ proc[p].request # None)
    /\ proc' = [proc EXCEPT ![p] = Idle]
    /\ ReleaseAll(p)
    /\ UNCHANGED <<config, bundle, server, minted, clobbered, started, faults>>

-----------------------------------------------------------------------------
(* register_machine *)

\* The faulty variant keeps the identity lock for the whole registration.
LeaveIdentityLocked(p) ==
    /\ proc[p].pc = "haveIdentity"
    /\ Cmd(p) = "register"
    /\ proc[p].request = None
    /\ proc' = [proc EXCEPT ![p].pc = "lockRegistration"]
    /\ UNCHANGED <<config, bundle, server, identityLock, registrationLock,
                   credentialsLock, minted, clobbered, started, faults>>

\* load_or_create_machine_identity returns: the identity lock is released and
\* the registration lock of the endpoint is taken only afterwards.
LeaveIdentity(p) ==
    /\ proc[p].pc = "haveIdentity"
    /\ Cmd(p) = "register"
    /\ proc[p].request = None
    /\ identityLock' = None
    /\ proc' = [proc EXCEPT ![p].pc = "lockRegistration"]
    /\ UNCHANGED <<config, bundle, server, registrationLock, credentialsLock, minted,
                   clobbered, started, faults>>

RegistrationFree(e) == registrationLock[e] = None

RegistrationRequest(p) == proc[p].ident

\* The faulty variant builds the request from the present identity.
ResumedAnew(p, stored) == RegistrationRequest(p)

\* A registration of this installation is resumed with the request stored for
\* it, whatever the machine is called by now.
Resumed(p, stored) == stored.request

\* The faulty variant calls the server before anything is stored.
LockRegistrationUnsaved(p) ==
    /\ proc[p].pc = "lockRegistration"
    /\ RegistrationFree(Arg(p))
    /\ registrationLock' = [registrationLock EXCEPT ![Arg(p)] = p]
    /\ proc' = [proc EXCEPT ![p].pc = "call", ![p].request = RegistrationRequest(p)]
    /\ UNCHANGED <<config, bundle, server, identityLock, credentialsLock, minted,
                   clobbered, started, faults>>

LockRegistration(p) ==
    LET stored == bundle.registrations[Arg(p)]
        ours   == stored # None /\ stored.installation = proc[p].ident.id
    IN  /\ proc[p].pc = "lockRegistration"
        /\ RegistrationFree(Arg(p))
        /\ registrationLock' = [registrationLock EXCEPT ![Arg(p)] = p]
        /\ proc' = IF ours
                     THEN [proc EXCEPT ![p].pc = "call", ![p].request = Resumed(p, stored)]
                     ELSE [proc EXCEPT ![p].pc = "loadBundle", ![p].edit = "pending",
                                       ![p].request = RegistrationRequest(p)]
        /\ UNCHANGED <<config, bundle, server, identityLock, credentialsLock, minted,
                       clobbered, started, faults>>

\* The server answers a known local_registration_id again only when the rest
\* of the request is what it was; otherwise it refuses and the command raises.
Accepts(e, request) == server[e][request.id] \in {None, request.name}

Call(p) ==
    /\ proc[p].pc = "call"
    /\ \/ /\ Accepts(Arg(p), proc[p].request)
          /\ server' = [server EXCEPT ![Arg(p)][proc[p].request.id] = proc[p].request.name]
          /\ proc' = [proc EXCEPT ![p].pc = "loadBundle", ![p].edit = "registered"]
          /\ UNCHANGED <<identityLock, registrationLock, credentialsLock>>
       \/ /\ ~ Accepts(Arg(p), proc[p].request)
          /\ proc' = [proc EXCEPT ![p] = Idle]
          /\ ReleaseAll(p)
          /\ UNCHANGED server
    /\ UNCHANGED <<config, bundle, minted, clobbered, started, faults>>

-----------------------------------------------------------------------------
(* credentials.json: a section is changed in a copy read under the lock *)

WithProof(c, identity) == [c EXCEPT !.proof = identity.id]

WithRegistration(c, e, registration) == [c EXCEPT !.registrations[e] = registration]

WithKey(c, e) == [c EXCEPT !.keys = @ \cup {e}]

WithoutKey(c, e) == [c EXCEPT !.keys = @ \ {e}]

Edited(p) ==
    LET c == proc[p].copy
        registration == [state |-> proc[p].edit, installation |-> proc[p].ident.id,
                         request |-> proc[p].request]
    IN  CASE proc[p].edit = "proof"  -> WithProof(c, proc[p].ident)
          [] proc[p].edit = "login"  -> WithKey(c, Arg(p))
          [] proc[p].edit = "logout" -> WithoutKey(c, Arg(p))
          [] OTHER                   -> WithRegistration(c, Arg(p), registration)

\* The faulty variant does not take the lock.
CredentialsFreeAlways == TRUE

CredentialsFree == credentialsLock = None

LoadBundle(p) ==
    /\ proc[p].pc = "loadBundle"
    /\ CredentialsFree
    /\ credentialsLock' = p
    /\ proc' = [proc EXCEPT ![p].pc = "saveBundle", ![p].copy = bundle]
    /\ UNCHANGED <<config, bundle, server, identityLock, registrationLock, minted,
                   clobbered, started, faults>>

\* Where the command goes on once its section is saved.
AfterSave(edit) == CASE edit = "proof"      -> "haveIdentity"
                     [] edit = "pending"    -> "call"
                     [] edit = "registered" -> "loadIdentity"
                     [] OTHER               -> "idle"

SaveBundle(p) ==
    /\ proc[p].pc = "saveBundle"
    /\ bundle' = Edited(p)
    /\ credentialsLock' = None
    /\ LET next == AfterSave(proc[p].edit)
       IN  proc' = [proc EXCEPT ![p] =
                      IF next = "idle" THEN Idle
                      ELSE [@ EXCEPT !.pc = next, !.edit = "none", !.copy = None]]
    /\ UNCHANGED <<config, server, identityLock, registrationLock, minted, clobbered,
                   started, faults>>

-----------------------------------------------------------------------------
(* config.json: add_folder, remove_folder, save_ctxfs_endpoint, no lock *)

AddFolder(c, f) == [c EXCEPT !.folders = @ \cup {f}]

RemoveFolder(c, f) == [c EXCEPT !.folders = @ \ {f}]

SaveEndpoint(c, e) == [c EXCEPT !.endpoint = e]

Refused(c, cmd, arg) == \/ cmd = "add" /\ arg \in c.folders
                        \/ cmd = "remove" /\ arg \notin c.folders

Changed(c, cmd, arg) == CASE cmd = "add"    -> AddFolder(c, arg)
                          [] cmd = "remove" -> RemoveFolder(c, arg)
                          [] OTHER          -> SaveEndpoint(c, arg)

\* load_config takes an unreadable file for an empty one.
LoadConfig(p) ==
    /\ proc[p].pc = "loadConfig"
    /\ \E c \in {config, EmptyConfig} :
         /\ faults' = IF c = config THEN faults ELSE faults + 1
         /\ faults' <= MaxFaults
         /\ proc' = [proc EXCEPT ![p] =
                       IF Refused(c, Cmd(p), Arg(p)) THEN Idle
                       ELSE [@ EXCEPT !.pc = "saveConfig", !.stale = (c # config),
                                      !.cfg = Changed(c, Cmd(p), Arg(p))]]
    /\ UNCHANGED <<config, bundle, server, identityLock, registrationLock,
                   credentialsLock, minted, clobbered, started>>

MachineId(c) == IF c.machine = None THEN None ELSE c.machine.id

SaveConfig(p) ==
    /\ proc[p].pc = "saveConfig"
    /\ config' = proc[p].cfg
    /\ clobbered' = (clobbered \/ MachineId(proc[p].cfg) # MachineId(config))
    /\ identityLock' = Released(identityLock, p)
    /\ proc' = [q \in Procs |-> IF q = p THEN Idle ELSE Overtaken(q)]
    /\ UNCHANGED <<bundle, server, registrationLock, credentialsLock, minted, started,
                   faults>>

-----------------------------------------------------------------------------

Init ==
    /\ config \in {EmptyConfig, [EmptyConfig EXCEPT !.machine = Foreign]}
    /\ bundle = EmptyBundle
    /\ server = [e \in Endpoints |-> [i \in 0 .. MaxIds |-> None]]
    /\ identityLock = None
    /\ registrationLock = [e \in Endpoints |-> None]
    /\ credentialsLock = None
    /\ proc = [p \in Procs |-> Idle]
    /\ minted = 0
    /\ clobbered = FALSE
    /\ started = 0
    /\ faults = 0

\* A step of the command process p runs.
Step(p) ==
    \/ LoadIdentity(p) \/ SaveIdentity(p) \/ ReloadConfig(p) \/ Report(p)
    \/ LeaveIdentity(p) \/ LockRegistration(p) \/ Call(p)
    \/ LoadBundle(p) \/ SaveBundle(p) \/ LoadConfig(p) \/ SaveConfig(p)

Next == \E p \in Procs : (\E c \in Command : Begin(p, c)) \/ Step(p) \/ Die(p)

Fairness == \A p \in Procs : WF_vars(Step(p))

Spec == Init /\ [][Next]_vars /\ Fairness

-----------------------------------------------------------------------------
(* Properties *)

\* The type invariant of the two files, the locks and the processes.
TypeOK ==
    /\ config \in Config
    /\ bundle \in Bundle
    /\ server \in [Endpoints -> [0 .. MaxIds -> Names \cup {None}]]
    /\ identityLock \in Procs \cup {None}
    /\ registrationLock \in [Endpoints -> Procs \cup {None}]
    /\ credentialsLock \in Procs \cup {None}
    /\ proc \in [Procs -> Process]
    /\ minted \in 0 .. MaxIds
    /\ clobbered \in BOOLEAN
    /\ started \in 0 .. MaxCommands
    /\ faults \in 0 .. MaxFaults

\* An identity that load_or_create_machine_identity has returned, to a command
\* still running.
Holds(p) == proc[p].pc \in {"haveIdentity", "lockRegistration", "call"}
              \/ (proc[p].pc \in {"loadBundle", "saveBundle"}
                    /\ proc[p].edit \in {"pending", "registered"})

\* However commands interleave, die half way or start from a copied config,
\* all that hold an identity at a time hold the one that config.json and the
\* proof name, unless a save without the lock put back another machine section;
\* and no server is ever asked to register the identity of a copied config.
OneIdentity ==
    /\ \A e \in Endpoints : server[e][0] = None
    /\ clobbered \/ \A p \in Procs : Holds(p) =>
         /\ config.machine # None
         /\ config.machine.id = proc[p].ident.id
         /\ bundle.proof = proc[p].ident.id

\* A registration the server has accepted for the present identity is known
\* locally, so it is never reported as unregistered, and it is retried with the
\* very request the server knows, after any death, rename or concurrent command
\* but a save without the lock that put back another machine section.
RegistrationRemembered ==
    \/ clobbered
    \/ config.machine = None
    \/ \A e \in Endpoints : server[e][config.machine.id] # None =>
         /\ RegistrationState(e, config.machine) # "unregistered"
         /\ Accepts(e, bundle.registrations[e].request)

\* A save of credentials.json changes one section: no API key, registration or
\* proof that another process saved in between is lost.
CredentialsKept ==
    [][\/ bundle'.registrations = bundle.registrations /\ bundle'.keys = bundle.keys
       \/ bundle'.proof = bundle.proof /\ bundle'.keys = bundle.keys
            /\ \E e \in Endpoints : \A d \in Endpoints \ {e} :
                 bundle'.registrations[d] = bundle.registrations[d]
       \/ bundle'.proof = bundle.proof /\ bundle'.registrations = bundle.registrations
            /\ \E e \in Endpoints :
                 bundle'.keys \ {e} = bundle.keys \ {e}]_vars

\* The two differ in no section but the one the command is about: the machine, the
\* endpoint, or one folder.
OwnSection(job, c, d) ==
    /\ job[1] \in {"status", "register", "configure"} \/ d.machine = c.machine
    /\ job[1] = "endpoint" \/ d.endpoint = c.endpoint
    /\ \A f \in Folders : \/ job[1] \in {"add", "remove"} /\ job[2] = f
                         \/ (f \in d.folders) = (f \in c.folders)

\* p puts its copy of config.json in the file's place, or dies with it.
Saves(p) == proc[p].cfg # None /\ proc'[p].cfg = None

\* Whole-file saves of config.json, most of them without a lock: a command whose own
\* copy nobody has overtaken and which read the file right changes the section it is
\* about and no other.  Nothing is said of a save whose copy was overtaken or misread.
ConfigKeptUnlessOvertaken ==
    [][\/ UNCHANGED config
       \/ \E p \in Procs : /\ Saves(p)
                           /\ proc[p].stale \/ OwnSection(proc[p].job, config, config')]_vars

\* Every command ends: the three locks are never waited for in a circle.
CommandsEnd == \A p \in Procs : proc[p].pc # "idle" ~> proc[p].pc = "idle"
=============================================================================
