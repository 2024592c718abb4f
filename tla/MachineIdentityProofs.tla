----------------------- MODULE MachineIdentityProofs -----------------------
(***************************************************************************)
(* Theorems about MachineIdentity, for any number of processes, endpoints, *)
(* identities, commands and faults: one identity, registrations that are   *)
(* remembered, and files whose saves lose nothing they should keep.        *)
(***************************************************************************)
EXTENDS MachineIdentity, TLAPS

-----------------------------------------------------------------------------
(* The inductive invariant *)

Proving(p) == proc[p].pc \in {"loadBundle", "saveBundle"} /\ proc[p].edit = "proof"

Announcing(p) == proc[p].pc \in {"loadBundle", "saveBundle"} /\ proc[p].edit = "pending"

Recording(p) == proc[p].pc = "call"
                  \/ (proc[p].pc \in {"loadBundle", "saveBundle"} /\ proc[p].edit = "registered")

\* Which command is at which step.
CommandAt(p) ==
    /\ proc[p].pc = "idle" => proc[p] = Idle
    /\ proc[p].pc \in {"loadIdentity", "saveIdentity", "haveIdentity"} \/ Proving(p) =>
         proc[p].job \in Command /\ Cmd(p) \in {"status", "register", "configure"}
    /\ proc[p].pc = "lockRegistration" \/ Announcing(p) \/ Recording(p) =>
         proc[p].job \in Command /\ Cmd(p) = "register"
    /\ proc[p].pc = "loadConfig" =>
         proc[p].job \in Command /\ Cmd(p) \in {"add", "remove", "endpoint"}
    /\ proc[p].pc = "saveConfig" =>
         proc[p].job \in Command /\ Cmd(p) \in {"add", "remove", "endpoint", "configure"}
    /\ proc[p].pc \in {"loadBundle", "saveBundle"} =>
         /\ proc[p].edit # "none"
         /\ proc[p].edit \in {"login", "logout"} =>
                proc[p].job \in Command /\ Cmd(p) = proc[p].edit

\* What the local variables of a command are when it uses them.
LocalsAt(p) ==
    /\ proc[p].pc \in {"saveIdentity", "saveConfig"} => proc[p].cfg \in Config
    /\ proc[p].pc = "saveIdentity" => proc[p].cfg.machine = proc[p].ident
    /\ proc[p].pc = "saveIdentity" \/ Holds(p) \/ Proving(p) => proc[p].ident \in Identity
    /\ Announcing(p) \/ Recording(p) =>
         proc[p].request \in Identity /\ proc[p].request.id = proc[p].ident.id
    /\ proc[p].pc = "saveBundle" => proc[p].copy = bundle

\* The locks a command holds at its steps.
LocksAt(p) ==
    /\ proc[p].pc \in {"saveIdentity", "haveIdentity"} \/ Proving(p) => identityLock = p
    /\ proc[p].pc = "saveConfig" /\ Cmd(p) = "configure" => identityLock = p
    /\ Announcing(p) \/ Recording(p) => registrationLock[Arg(p)] = p
    /\ proc[p].pc = "saveBundle" => credentialsLock = p

\* A copy of config.json that nobody has overtaken differs from it in the section of
\* the command only.
CopyAt(p) ==
    proc[p].pc \in {"saveIdentity", "saveConfig"} =>
        proc[p].stale \/ OwnSection(proc[p].job, config, proc[p].cfg)

\* Every id in use was made by this installation; 0 never is.
IdsDrawn ==
    /\ bundle.proof # None => bundle.proof \in 1 .. minted
    /\ \A p \in Procs : proc[p].ident # None => proc[p].ident.id \in 1 .. minted
    /\ \A p \in Procs : proc[p].request # None => proc[p].request.id \in 1 .. minted
    /\ \A e \in Endpoints : bundle.registrations[e] # None =>
         /\ bundle.registrations[e].request.id = bundle.registrations[e].installation
         /\ bundle.registrations[e].installation \in 1 .. minted
    /\ \A e \in Endpoints : \A i \in 0 .. MaxIds : server[e][i] # None => i \in 1 .. minted

\* Nobody has heard of an identity that is not saved yet.
UnsavedUnknown(p) ==
    proc[p].pc = "saveIdentity" =>
        /\ \A e \in Endpoints : server[e][proc[p].ident.id] = None
        /\ \A e \in Endpoints : bundle.registrations[e] # None =>
             bundle.registrations[e].request.id # proc[p].ident.id
        /\ \A q \in Procs \ {p} : proc[q].ident # None =>
               proc[q].ident.id # proc[p].ident.id
        /\ \A q \in Procs : proc[q].request # None => proc[q].request.id # proc[p].ident.id

\* Unless a machine section was put back, what a command holds is what the files name,
\* and nobody holds an identity while a new one is being saved.
HeldIsSaved ==
    ~clobbered =>
        /\ \A p \in Procs : Holds(p) \/ Proving(p) =>
             config.machine \in Identity /\ config.machine.id = proc[p].ident.id
        /\ \A p \in Procs : Holds(p) => bundle.proof = proc[p].ident.id
        /\ \A p, q \in Procs : ~(Holds(q) /\ (proc[p].pc = "saveIdentity" \/ Proving(p)))

\* A request reaches a server only after it is stored, and the server knows it so.
RegistrationStored ==
    /\ \A p \in Procs : Recording(p) =>
         /\ bundle.registrations[Arg(p)] \in Registration
         /\ bundle.registrations[Arg(p)].installation = proc[p].ident.id
         /\ bundle.registrations[Arg(p)].request = proc[p].request
    /\ ~clobbered => \A p \in Procs : Announcing(p) =>
           server[Arg(p)][proc[p].ident.id] = None
    /\ (~clobbered /\ config.machine # None) =>
         \A e \in Endpoints : server[e][config.machine.id] # None =>
           /\ bundle.registrations[e] \in Registration
           /\ bundle.registrations[e].installation = config.machine.id
           /\ bundle.registrations[e].request.name = server[e][config.machine.id]

IdentitySound ==
    /\ TypeOK
    /\ \A p \in Procs : CommandAt(p) /\ LocalsAt(p) /\ LocksAt(p) /\ CopyAt(p) /\ UnsavedUnknown(p)
    /\ IdsDrawn /\ HeldIsSaved /\ RegistrationStored

-----------------------------------------------------------------------------
(* Every step keeps it *)

\* The registration stored for the endpoint is of the identity the command has.
Ours(p) == /\ bundle.registrations[Arg(p)] # None
           /\ bundle.registrations[Arg(p)].installation = proc[p].ident.id

\* The argument of `machine register` is an endpoint.
LEMMA RegisterArg ==
    ASSUME NEW p \in Procs, proc[p].job \in Command, Cmd(p) = "register"
    PROVE  Arg(p) \in Endpoints
BY DEF Command, Cmd, Arg

\* A command begins with nothing but its name.
LEMMA BeginKeeps ==
    ASSUME IdentitySound, NEW p \in Procs, NEW c \in Command, Begin(p, c)
    PROVE  IdentitySound'
<1> USE IdentityAssumption, RecordAssumption DEF IdentitySound
<1>1. /\ \A q \in Procs \ {p} : proc'[q] = proc[q]
      /\ proc'[p].pc = FirstStep(c) /\ proc'[p].job = c
      /\ proc'[p].edit = (IF c[1] \in {"login", "logout"} THEN c[1] ELSE "none")
      /\ proc'[p].cfg = proc[p].cfg
      /\ proc'[p].stale = proc[p].stale /\ proc'[p].ident = proc[p].ident
      /\ proc'[p].request = proc[p].request /\ proc'[p].copy = proc[p].copy
      /\ proc[p] = Idle
      /\ started' = started + 1 /\ started < MaxCommands
  BY DEF Begin, CommandAt, TypeOK, Process
<1>2. UNCHANGED <<config, bundle, server, identityLock, registrationLock,
       credentialsLock, minted, clobbered, faults>>
  BY DEF Begin, CommandAt
<1>3. /\ FirstStep(c) \in {"loadIdentity", "loadConfig", "loadBundle"}
      /\ FirstStep(c) = "loadIdentity" => c[1] \in {"status", "register", "configure"}
      /\ FirstStep(c) = "loadConfig" => c[1] \in {"add", "remove", "endpoint"}
      /\ FirstStep(c) = "loadBundle" => c[1] \in {"login", "logout"}
  BY DEF FirstStep, Command
<1>4. TypeOK'
  <2> DEFINE edit == IF c[1] \in {"login", "logout"} THEN c[1] ELSE "none"
  <2>1. FirstStep(c) \in Labels /\ edit \in Edits
    BY DEF FirstStep, Labels, Edits
  <2>2. proc' = [proc EXCEPT ![p] = [@ EXCEPT !.pc = FirstStep(c), !.job = c, !.edit = edit]]
    BY DEF Begin, TypeOK
  <2> HIDE DEF edit
  <2>3. proc[p] \in Process
    BY DEF TypeOK
  <2>4. [proc[p] EXCEPT !.pc = FirstStep(c), !.job = c, !.edit = edit] \in Process
    BY <2>1, <2>3 DEF Process
  <2>5. proc' \in [Procs -> Process]
    BY <2>2, <2>4 DEF TypeOK
  <2> QED BY <1>1, <1>2, <2>5 DEF TypeOK
<1>5. \A q \in Procs : CommandAt(q)'
  BY <1>1, <1>2, <1>3 DEF CommandAt, Proving, Announcing, Recording, Cmd
<1>6. \A q \in Procs : LocalsAt(q)'
  BY <1>1, <1>2, <1>3 DEF LocalsAt, Holds, Proving, Announcing, Recording
<1>7. \A q \in Procs : LocksAt(q)'
  BY <1>1, <1>2, <1>3 DEF LocksAt, Proving, Announcing, Recording, Cmd, Arg
<1>8. \A q \in Procs : CopyAt(q)'
  BY <1>1, <1>2, <1>3 DEF CopyAt
<1>9. \A q \in Procs : UnsavedUnknown(q)'
  BY <1>1, <1>2, <1>3 DEF UnsavedUnknown
<1>10. IdsDrawn'
  BY <1>1, <1>2 DEF IdsDrawn
<1>11. HeldIsSaved'
  BY <1>1, <1>2, <1>3 DEF HeldIsSaved, Holds, Proving
<1>12. RegistrationStored'
  BY <1>1, <1>2, <1>3 DEF RegistrationStored, Announcing, Recording, Arg
<1> QED BY <1>4, <1>5, <1>6, <1>7, <1>8, <1>9, <1>10, <1>11, <1>12

\* A command ends, well or badly: whoever else holds a lock still does.
LEMMA EndKeeps ==
    ASSUME IdentitySound, NEW p \in Procs, proc' = [proc EXCEPT ![p] = Idle],
           UNCHANGED <<config, bundle, server, minted, clobbered>>,
           started' \in 0 .. MaxCommands, faults' \in 0 .. MaxFaults,
           identityLock' \in {identityLock, Released(identityLock, p)},
           credentialsLock' \in {credentialsLock, Released(credentialsLock, p)},
           registrationLock' \in {registrationLock,
               [e \in Endpoints |-> Released(registrationLock[e], p)]}
    PROVE  IdentitySound'
<1> USE IdentityAssumption, RecordAssumption DEF IdentitySound
<1>1. /\ \A q \in Procs \ {p} : proc'[q] = proc[q]
      /\ proc'[p] = Idle
  BY DEF TypeOK, Process
<1>2. UNCHANGED <<config, bundle, server, minted, clobbered>>
  OBVIOUS
<1>3. TypeOK'
  <2>1. Idle \in Process
    BY DEF Idle, Process, Labels, Edits
  <2>2. proc' \in [Procs -> Process]
    BY <2>1 DEF TypeOK
  <2>3. /\ identityLock' \in Procs \cup {None} /\ credentialsLock' \in Procs \cup {None}
        /\ registrationLock' \in [Endpoints -> Procs \cup {None}]
    BY DEF TypeOK, Released
  <2> QED BY <1>2, <2>2, <2>3 DEF TypeOK
<1>4. \A q \in Procs : CommandAt(q)'
  <2>1. CommandAt(p)'
    BY <1>1 DEF CommandAt, Idle, Proving, Announcing, Recording
  <2>2. \A q \in Procs \ {p} : CommandAt(q)'
    BY <1>1 DEF CommandAt, Proving, Announcing, Recording, Cmd
  <2> QED BY <2>1, <2>2
<1>5. \A q \in Procs : LocalsAt(q)'
  BY <1>1, <1>2 DEF LocalsAt, Holds, Proving, Announcing, Recording, Idle
<1>6. \A q \in Procs : LocksAt(q)'
  <2>1. \A q \in Procs \ {p} :
            /\ identityLock = q => identityLock' = q
            /\ credentialsLock = q => credentialsLock' = q
            /\ \A e \in Endpoints : registrationLock[e] = q => registrationLock'[e] = q
    BY DEF TypeOK, Released
  <2>2. \A q \in Procs : Announcing(q) \/ Recording(q) => Arg(q) \in Endpoints
    BY RegisterArg DEF CommandAt
  <2>3. \A q \in Procs \ {p} : Announcing(q)' = Announcing(q) /\ Recording(q)' = Recording(q) /\ Arg(q)' = Arg(q)
            /\ Proving(q)' = Proving(q) /\ Cmd(q)' = Cmd(q) /\ proc'[q] = proc[q]
    BY <1>1 DEF Announcing, Recording, Arg, Proving, Cmd
  <2>4. \A q \in Procs \ {p} : LocksAt(q)'
    BY <2>1, <2>2, <2>3 DEF LocksAt
  <2>5. LocksAt(p)'
    BY <1>1 DEF LocksAt, Idle, Proving, Announcing, Recording
  <2> QED BY <2>4, <2>5
<1>7. \A q \in Procs : CopyAt(q)'
  BY <1>1, <1>2 DEF CopyAt, Idle
<1>8. \A q \in Procs : UnsavedUnknown(q)'
  BY <1>1, <1>2 DEF UnsavedUnknown, Idle
<1>9. IdsDrawn'
  BY <1>1, <1>2 DEF IdsDrawn, Idle
<1>10. HeldIsSaved'
  BY <1>1, <1>2 DEF HeldIsSaved, Holds, Proving, Idle
<1>11. RegistrationStored'
  BY <1>1, <1>2 DEF RegistrationStored, Announcing, Recording, Arg, Idle
<1> QED BY <1>3, <1>4, <1>5, <1>6, <1>7, <1>8, <1>9, <1>10, <1>11

\* A process is killed, or its command raises.
LEMMA DieKeeps ==
    ASSUME IdentitySound, NEW p \in Procs, Die(p)
    PROVE  IdentitySound'
<1>1. faults' \in 0 .. MaxFaults /\ started' \in 0 .. MaxCommands
  BY IdentityAssumption DEF IdentitySound, TypeOK, Die
<1> QED BY <1>1, EndKeeps DEF Die, ReleaseAll

\* machine_status answers.
LEMMA ReportKeeps ==
    ASSUME IdentitySound, NEW p \in Procs, Report(p)
    PROVE  IdentitySound'
<1>1. faults' \in 0 .. MaxFaults /\ started' \in 0 .. MaxCommands
  BY DEF IdentitySound, TypeOK, Report
<1> QED BY <1>1, EndKeeps DEF Report, ReleaseAll

\* load_or_create_machine_identity finds the identity that the proof names.
LEMMA LoadProvenKeeps ==
    ASSUME IdentitySound, NEW p \in Procs, LoadIdentity(p), Proven
    PROVE  IdentitySound'
<1> USE IdentityAssumption, RecordAssumption DEF IdentitySound
<1>1. /\ \A q \in Procs \ {p} : proc'[q] = proc[q]
      /\ proc'[p].pc = "haveIdentity" /\ proc'[p].job = proc[p].job
      /\ proc'[p].edit = proc[p].edit /\ proc'[p].cfg = proc[p].cfg
      /\ proc'[p].stale = proc[p].stale /\ proc'[p].ident = config.machine
      /\ proc'[p].request = proc[p].request /\ proc'[p].copy = proc[p].copy
      /\ proc[p].pc = "loadIdentity" /\ identityLock = None /\ identityLock' = p
      /\ config.machine \in Identity /\ bundle.proof = config.machine.id
  BY DEF LoadIdentity, IdentityFree, Proven, Config, TypeOK, Process
<1>2. UNCHANGED <<config, bundle, server, registrationLock, credentialsLock, minted,
       clobbered, started, faults>>
  BY DEF LoadIdentity, IdentityFree, Proven, Config
<1>3. \A q \in Procs : proc[q].pc # "saveIdentity" /\ ~Proving(q)
  BY <1>1 DEF LocksAt
<1>4. config.machine.id \in 1 .. minted
  BY <1>1 DEF IdsDrawn, Identity
<1>5. TypeOK'
  <2>1. proc[p] \in Process
    BY DEF TypeOK
  <2>2. [proc[p] EXCEPT !.pc = "haveIdentity", !.ident = config.machine] \in Process
    BY <1>1, <2>1 DEF Process, Labels, Edits
  <2>3. proc' \in [Procs -> Process]
    BY <2>2 DEF LoadIdentity, Proven, TypeOK
  <2> QED BY <1>1, <1>2, <2>3 DEF TypeOK
<1>6. \A q \in Procs : CommandAt(q)'
  BY <1>1, <1>2 DEF CommandAt, Proving, Announcing, Recording, Cmd
<1>7. \A q \in Procs : LocalsAt(q)'
  BY <1>1, <1>2 DEF LocalsAt, Holds, Proving, Announcing, Recording
<1>8. \A q \in Procs : LocksAt(q)'
  BY <1>1, <1>2 DEF LocksAt, Proving, Announcing, Recording, Cmd, Arg
<1>9. \A q \in Procs : CopyAt(q)'
  BY <1>1, <1>2 DEF CopyAt
<1>10. \A q \in Procs : UnsavedUnknown(q)'
  BY <1>1, <1>2, <1>3, <1>4 DEF UnsavedUnknown
<1>11. IdsDrawn'
  BY <1>1, <1>2, <1>3, <1>4 DEF IdsDrawn
<1>12. HeldIsSaved'
  BY <1>1, <1>2, <1>3, <1>4 DEF HeldIsSaved, Holds, Proving
<1>13. RegistrationStored'
  BY <1>1, <1>2 DEF RegistrationStored, Announcing, Recording, Arg
<1> QED BY <1>5, <1>6, <1>7, <1>8, <1>9, <1>10, <1>11, <1>12, <1>13

\* A new identity is made, which nobody has heard of; nobody holds one.
LEMMA MakeIdentityKeeps ==
    ASSUME IdentitySound, NEW p \in Procs, LoadIdentity(p), ~Proven
    PROVE  IdentitySound'
<1> USE IdentityAssumption, RecordAssumption DEF IdentitySound
<1>1. /\ \A q \in Procs \ {p} : proc'[q] = proc[q]
      /\ proc'[p].pc = "saveIdentity" /\ proc'[p].job = proc[p].job
      /\ proc'[p].edit = proc[p].edit /\ proc'[p].cfg = WithMachine(config, NewIdentity)
      /\ proc'[p].stale = FALSE /\ proc'[p].ident = NewIdentity
      /\ proc'[p].request = proc[p].request /\ proc'[p].copy = proc[p].copy
      /\ proc[p].pc = "loadIdentity" /\ identityLock = None /\ identityLock' = p
      /\ minted' = minted + 1 /\ minted < MaxIds
  BY DEF LoadIdentity, IdentityFree, Proven, Config, TypeOK, Process
<1>2. UNCHANGED <<config, bundle, server, registrationLock, credentialsLock, clobbered,
       started, faults>>
  BY DEF LoadIdentity, IdentityFree, Proven, Config
<1>3. \A q \in Procs : proc[q].pc # "saveIdentity" /\ ~Proving(q)
  BY <1>1 DEF LocksAt
<1>4. NewIdentity \in Identity /\ NewIdentity.id = minted + 1
  BY <1>1 DEF NewIdentity, Identity, TypeOK, Config
<1>5. /\ WithMachine(config, NewIdentity) \in Config
      /\ WithMachine(config, NewIdentity).machine = NewIdentity
      /\ OwnSection(proc[p].job, config, WithMachine(config, NewIdentity))
  BY <1>1, <1>4 DEF WithMachine, Config, TypeOK, OwnSection, CommandAt, Cmd
<1>6. ~clobbered => \A q \in Procs : ~Holds(q)
  BY DEF HeldIsSaved, Proven
<1>7. TypeOK'
  <2>1. proc[p] \in Process
    BY DEF TypeOK
  <2>2. [proc[p] EXCEPT !.pc = "saveIdentity", !.ident = NewIdentity,
             !.cfg = WithMachine(config, NewIdentity), !.stale = FALSE] \in Process
    BY <1>1, <1>4, <1>5, <2>1 DEF Process, Labels, Edits
  <2>3. proc' \in [Procs -> Process]
    BY <2>2 DEF LoadIdentity, Proven, TypeOK
  <2> QED BY <1>1, <1>2, <2>3 DEF TypeOK
<1>8. \A q \in Procs : CommandAt(q)'
  BY <1>1, <1>2 DEF CommandAt, Proving, Announcing, Recording, Cmd
<1>9. \A q \in Procs : LocalsAt(q)'
  BY <1>1, <1>2, <1>3, <1>4, <1>5, <1>6 DEF LocalsAt, Holds, Proving, Announcing, Recording
<1>10. \A q \in Procs : LocksAt(q)'
  BY <1>1, <1>2 DEF LocksAt, Proving, Announcing, Recording, Cmd, Arg
<1>11. \A q \in Procs : CopyAt(q)'
  BY <1>1, <1>2, <1>3, <1>4, <1>5, <1>6 DEF CopyAt
<1>12. \A q \in Procs : UnsavedUnknown(q)'
  <2>1. UnsavedUnknown(p)'
    <3>1. \A i \in 1 .. minted : i # minted + 1
      BY DEF TypeOK
    <3>2. minted + 1 \in 0 .. MaxIds
      BY <1>1 DEF TypeOK
    <3> QED BY <1>1, <1>2, <1>4, <3>1, <3>2 DEF UnsavedUnknown, IdsDrawn
  <2>2. \A q \in Procs \ {p} : UnsavedUnknown(q)'
    BY <1>1, <1>3 DEF UnsavedUnknown
  <2> QED BY <2>1, <2>2
<1>13. IdsDrawn'
  <2>1. \A i : i \in 1 .. minted => i \in 1 .. minted'
    BY <1>1 DEF TypeOK
  <2>2. NewIdentity.id \in 1 .. minted'
    BY <1>1, <1>4 DEF TypeOK
  <2> QED BY <1>1, <1>2, <2>1, <2>2 DEF IdsDrawn
<1>14. HeldIsSaved'
  BY <1>1, <1>2, <1>3, <1>4, <1>5, <1>6 DEF HeldIsSaved, Holds, Proving
<1>15. RegistrationStored'
  BY <1>1, <1>2 DEF RegistrationStored, Announcing, Recording, Arg
<1> QED BY <1>7, <1>8, <1>9, <1>10, <1>11, <1>12, <1>13, <1>14, <1>15

\* An overtaken process is where it was; only its copy of config.json is stale.
LEMMA OvertakenShape ==
    ASSUME TypeOK, NEW q \in Procs
    PROVE  /\ Overtaken(q) \in Process
           /\ Overtaken(q).pc = proc[q].pc /\ Overtaken(q).job = proc[q].job
           /\ Overtaken(q).edit = proc[q].edit /\ Overtaken(q).cfg = proc[q].cfg
           /\ Overtaken(q).ident = proc[q].ident /\ Overtaken(q).request = proc[q].request
           /\ Overtaken(q).copy = proc[q].copy
           /\ proc[q].cfg # None => Overtaken(q).stale
           /\ proc[q].cfg = None => Overtaken(q) = proc[q]
<1>1. proc[q] \in Process
  BY DEF TypeOK
<1> QED BY <1>1 DEF Overtaken, Process

\* The new identity is in config.json; nobody held the one before.
LEMMA SaveIdentityKeeps ==
    ASSUME IdentitySound, NEW p \in Procs, SaveIdentity(p)
    PROVE  IdentitySound'
<1> USE IdentityAssumption, RecordAssumption DEF IdentitySound
<1>0. \A q \in Procs \ {p} :
            /\ proc'[q].pc = proc[q].pc /\ proc'[q].job = proc[q].job
            /\ proc'[q].edit = proc[q].edit /\ proc'[q].cfg = proc[q].cfg
            /\ proc'[q].ident = proc[q].ident /\ proc'[q].request = proc[q].request
            /\ proc'[q].copy = proc[q].copy
            /\ proc[q].cfg # None => proc'[q].stale
            /\ proc[q].cfg = None => proc'[q] = proc[q]
  BY OvertakenShape DEF SaveIdentity, TypeOK
<1>1. /\ proc'[p].pc = "loadBundle" /\ proc'[p].job = proc[p].job
      /\ proc'[p].edit = "proof" /\ proc'[p].cfg = None
      /\ proc'[p].stale = FALSE /\ proc'[p].ident = proc[p].ident
      /\ proc'[p].request = proc[p].request /\ proc'[p].copy = proc[p].copy
      /\ proc[p].pc = "saveIdentity" /\ config' = proc[p].cfg
  <2>1. /\ proc[p] \in Process
        /\ proc'[p] = [proc[p] EXCEPT !.pc = "loadBundle", !.edit = "proof", !.cfg = None, !.stale = FALSE]
    BY DEF SaveIdentity, TypeOK
  <2> QED BY <2>1 DEF SaveIdentity, Process
<1>2. UNCHANGED <<bundle, server, identityLock, registrationLock, credentialsLock,
       minted, clobbered, started, faults>>
  BY DEF SaveIdentity
<1>3. identityLock = p /\ config'.machine = proc[p].ident /\ proc[p].ident \in Identity
  BY <1>1 DEF LocalsAt, LocksAt
<1>4. \A q \in Procs \ {p} : proc[q].pc # "saveIdentity" /\ ~Proving(q)
  BY <1>1, <1>3 DEF LocksAt
<1>5. \A q \in Procs \ {p} : proc[q].pc = "idle" => proc'[q] = Idle
  <2>1. Idle.cfg = None
    BY DEF Idle
  <2> QED BY <1>0, <2>1 DEF CommandAt
<1>6. TypeOK'
  <2>1. [proc[p] EXCEPT !.pc = "loadBundle", !.edit = "proof", !.cfg = None, !.stale = FALSE]
          \in Process
    <3>1. proc[p] \in Process
      BY DEF TypeOK
    <3> QED BY <3>1 DEF Process, Labels, Edits, Idle
  <2>2. proc' \in [Procs -> Process]
    BY <2>1, OvertakenShape DEF SaveIdentity
  <2>3. config' \in Config
    BY <1>1 DEF LocalsAt
  <2> QED BY <1>0, <1>1, <1>2, <2>2, <2>3 DEF TypeOK
<1>7. \A q \in Procs : CommandAt(q)'
  BY <1>0, <1>1, <1>2, <1>3, <1>4, <1>5 DEF CommandAt, Proving, Announcing, Recording, Cmd
<1>8. \A q \in Procs : LocalsAt(q)'
  BY <1>0, <1>1, <1>2 DEF LocalsAt, Holds, Proving, Announcing, Recording
<1>9. \A q \in Procs : LocksAt(q)'
  BY <1>0, <1>1, <1>2 DEF LocksAt, Proving, Announcing, Recording, Cmd, Arg
<1>10. \A q \in Procs : CopyAt(q)'
  BY <1>0, <1>1, <1>2 DEF CopyAt, LocalsAt
<1>11. \A q \in Procs : UnsavedUnknown(q)'
  BY <1>0, <1>1, <1>2 DEF UnsavedUnknown
<1>12. IdsDrawn'
  BY <1>0, <1>1, <1>2 DEF IdsDrawn
<1>13. HeldIsSaved'
  BY <1>0, <1>1, <1>2, <1>3, <1>4, <1>5 DEF HeldIsSaved, Holds, Proving
<1>14. RegistrationStored'
  BY <1>0, <1>1, <1>2, <1>3, <1>4, <1>5 DEF RegistrationStored, Announcing, Recording, Arg,
         UnsavedUnknown
<1> QED BY <1>6, <1>7, <1>8, <1>9, <1>10, <1>11, <1>12, <1>13, <1>14

\* config.json is replaced by the copy; the identity it names stays, or clobbered says so.
LEMMA SaveConfigKeeps ==
    ASSUME IdentitySound, NEW p \in Procs, SaveConfig(p)
    PROVE  IdentitySound'
<1> USE IdentityAssumption, RecordAssumption DEF IdentitySound
<1>0. \A q \in Procs \ {p} :
            /\ proc'[q].pc = proc[q].pc /\ proc'[q].job = proc[q].job
            /\ proc'[q].edit = proc[q].edit /\ proc'[q].cfg = proc[q].cfg
            /\ proc'[q].ident = proc[q].ident /\ proc'[q].request = proc[q].request
            /\ proc'[q].copy = proc[q].copy
            /\ proc[q].cfg # None => proc'[q].stale
            /\ proc[q].cfg = None => proc'[q] = proc[q]
  BY OvertakenShape DEF SaveConfig, TypeOK
<1>1. /\ proc'[p] = Idle
      /\ proc[p].pc = "saveConfig" /\ config' = proc[p].cfg
      /\ clobbered' = (clobbered \/ MachineId(proc[p].cfg) # MachineId(config))
      /\ identityLock' = Released(identityLock, p)
  <2>1. proc[p] \in Process /\ proc'[p] = Idle
    BY DEF SaveConfig, TypeOK
  <2> QED BY <2>1 DEF SaveConfig, Process
<1>2. UNCHANGED <<bundle, server, registrationLock, credentialsLock, minted, started,
       faults>>
  BY DEF SaveConfig
<1>3. proc[p].cfg \in Config
  BY <1>1 DEF LocalsAt
<1>4. ~clobbered' =>
          /\ ~clobbered /\ (config'.machine = None <=> config.machine = None)
          /\ config.machine # None =>
                 config'.machine \in Identity /\ config'.machine.id = config.machine.id
  <2>1. config.machine \in Identity \cup {None} /\ config'.machine \in Identity \cup {None}
    BY <1>1, <1>3 DEF TypeOK, Config
  <2>2. ~clobbered' => ~clobbered /\ MachineId(config') = MachineId(config)
    BY <1>1 DEF TypeOK
  <2>3. /\ MachineId(config) = IF config.machine = None THEN None ELSE config.machine.id
        /\ MachineId(config') = IF config'.machine = None THEN None ELSE config'.machine.id
    BY DEF MachineId
  <2>4. /\ config.machine \in Identity => config.machine.id # None /\ config.machine # None
        /\ config'.machine \in Identity =>
               config'.machine.id # None /\ config'.machine # None
    BY DEF Identity
  <2> QED BY <2>1, <2>2, <2>3, <2>4
<1>5. \A q \in Procs \ {p} : proc[q].pc = "idle" => proc'[q] = Idle
  <2>1. Idle.cfg = None
    BY DEF Idle
  <2> QED BY <1>0, <2>1 DEF CommandAt
<1>6. TypeOK'
  <2>1. Idle \in Process
    <3>1. proc[p] \in Process
      BY DEF TypeOK
    <3> QED BY <3>1 DEF Process, Labels, Edits, Idle
  <2>2. proc' \in [Procs -> Process]
    BY <2>1, OvertakenShape DEF SaveConfig
  <2>3. config' \in Config
    BY <1>1 DEF LocalsAt
  <2> QED BY <1>0, <1>1, <1>2, <2>2, <2>3 DEF TypeOK, Released
<1>7. \A q \in Procs : CommandAt(q)'
  <2>1. CommandAt(p)'
    BY <1>0, <1>1, <1>2, <1>3, <1>4, <1>5 DEF CommandAt, Proving, Announcing, Recording,
           Cmd, Idle
  <2>2. \A q \in Procs \ {p} : CommandAt(q)'
    BY <1>0, <1>1, <1>2, <1>3, <1>4, <1>5 DEF CommandAt, Proving, Announcing, Recording, Cmd
  <2> QED BY <2>1, <2>2
<1>8. \A q \in Procs : LocalsAt(q)'
  BY <1>0, <1>1, <1>2 DEF LocalsAt, Holds, Proving, Announcing, Recording, Idle
<1>9. \A q \in Procs : LocksAt(q)'
  BY <1>0, <1>1, <1>2 DEF LocksAt, Proving, Announcing, Recording, Cmd, Arg, Released, Idle
<1>10. \A q \in Procs : CopyAt(q)'
  BY <1>0, <1>1, <1>2 DEF CopyAt, LocalsAt, Idle
<1>11. \A q \in Procs : UnsavedUnknown(q)'
  BY <1>0, <1>1, <1>2 DEF UnsavedUnknown, Idle
<1>12. IdsDrawn'
  BY <1>0, <1>1, <1>2 DEF IdsDrawn, Idle
<1>13. HeldIsSaved'
  BY <1>0, <1>1, <1>2, <1>3, <1>4, <1>5 DEF HeldIsSaved, Holds, Proving, Idle
<1>14. RegistrationStored'
  BY <1>0, <1>1, <1>2, <1>3, <1>4, <1>5 DEF RegistrationStored, Announcing, Recording, Arg,
         Idle
<1> QED BY <1>6, <1>7, <1>8, <1>9, <1>10, <1>11, <1>12, <1>13, <1>14

\* configure_machine reads config.json again under the lock.
LEMMA ReloadConfigKeeps ==
    ASSUME IdentitySound, NEW p \in Procs, ReloadConfig(p)
    PROVE  IdentitySound'
<1> USE IdentityAssumption, RecordAssumption DEF IdentitySound
<1>1. /\ \A q \in Procs \ {p} : proc'[q] = proc[q]
      /\ proc'[p].pc = "saveConfig" /\ proc'[p].job = proc[p].job
      /\ proc'[p].edit = proc[p].edit
      /\ proc'[p].cfg = WithMachine(config, [proc[p].ident EXCEPT !.name = Arg(p)])
      /\ proc'[p].stale = proc[p].stale /\ proc'[p].ident = proc[p].ident
      /\ proc'[p].request = proc[p].request /\ proc'[p].copy = proc[p].copy
      /\ proc[p].pc = "haveIdentity" /\ Cmd(p) = "configure"
  BY DEF ReloadConfig, TypeOK, Process
<1>2. UNCHANGED <<config, bundle, server, identityLock, registrationLock,
       credentialsLock, minted, clobbered, started, faults>>
  BY DEF ReloadConfig
<1>3. proc[p].ident \in Identity /\ Arg(p) \in Names
  BY <1>1 DEF LocalsAt, CommandAt, Holds, Command, Cmd, Arg
<1>4. /\ WithMachine(config, [proc[p].ident EXCEPT !.name = Arg(p)]) \in Config
      /\ OwnSection(proc[p].job, config,
                    WithMachine(config, [proc[p].ident EXCEPT !.name = Arg(p)]))
  BY <1>1, <1>3 DEF WithMachine, Config, Identity, TypeOK, OwnSection, CommandAt, Cmd
<1>5. TypeOK'
  <2>1. proc[p] \in Process
    BY DEF TypeOK
  <2>2. [proc[p] EXCEPT !.pc = "saveConfig",
             !.cfg = WithMachine(config, [proc[p].ident EXCEPT !.name = Arg(p)])]
          \in Process
    BY <1>1, <1>4, <2>1 DEF Process, Labels, Edits
  <2>3. proc' \in [Procs -> Process]
    BY <2>2 DEF ReloadConfig, TypeOK
  <2> QED BY <1>1, <1>2, <2>3 DEF TypeOK
<1>6. \A q \in Procs : CommandAt(q)'
  BY <1>1, <1>2 DEF CommandAt, Proving, Announcing, Recording, Cmd
<1>7. \A q \in Procs : LocalsAt(q)'
  BY <1>1, <1>2, <1>3, <1>4 DEF LocalsAt, Holds, Proving, Announcing, Recording
<1>8. \A q \in Procs : LocksAt(q)'
  BY <1>1, <1>2 DEF LocksAt, Proving, Announcing, Recording, Cmd, Arg
<1>9. \A q \in Procs : CopyAt(q)'
  BY <1>1, <1>2, <1>3, <1>4 DEF CopyAt
<1>10. \A q \in Procs : UnsavedUnknown(q)'
  BY <1>1, <1>2 DEF UnsavedUnknown
<1>11. IdsDrawn'
  BY <1>1, <1>2 DEF IdsDrawn
<1>12. HeldIsSaved'
  BY <1>1, <1>2 DEF HeldIsSaved, Holds, Proving
<1>13. RegistrationStored'
  BY <1>1, <1>2 DEF RegistrationStored, Announcing, Recording, Arg
<1> QED BY <1>5, <1>6, <1>7, <1>8, <1>9, <1>10, <1>11, <1>12, <1>13

\* register_machine has its identity and releases the identity lock.
LEMMA LeaveIdentityKeeps ==
    ASSUME IdentitySound, NEW p \in Procs, LeaveIdentity(p)
    PROVE  IdentitySound'
<1> USE IdentityAssumption, RecordAssumption DEF IdentitySound
<1>1. /\ \A q \in Procs \ {p} : proc'[q] = proc[q]
      /\ proc'[p].pc = "lockRegistration" /\ proc'[p].job = proc[p].job
      /\ proc'[p].edit = proc[p].edit /\ proc'[p].cfg = proc[p].cfg
      /\ proc'[p].stale = proc[p].stale /\ proc'[p].ident = proc[p].ident
      /\ proc'[p].request = proc[p].request /\ proc'[p].copy = proc[p].copy
      /\ proc[p].pc = "haveIdentity" /\ Cmd(p) = "register" /\ identityLock' = None
  BY DEF LeaveIdentity, TypeOK, Process
<1>2. UNCHANGED <<config, bundle, server, registrationLock, credentialsLock, minted,
       clobbered, started, faults>>
  BY DEF LeaveIdentity
<1>3. \A q \in Procs \ {p} : identityLock # q
  BY <1>1 DEF LocksAt
<1>4. TypeOK'
  <2>1. proc[p] \in Process
    BY DEF TypeOK
  <2>2. [proc[p] EXCEPT !.pc = "lockRegistration"] \in Process
    BY <1>1, <2>1 DEF Process, Labels, Edits
  <2>3. proc' \in [Procs -> Process]
    BY <2>2 DEF LeaveIdentity, TypeOK
  <2> QED BY <1>1, <1>2, <2>3 DEF TypeOK
<1>5. \A q \in Procs : CommandAt(q)'
  BY <1>1, <1>2 DEF CommandAt, Proving, Announcing, Recording, Cmd
<1>6. \A q \in Procs : LocalsAt(q)'
  BY <1>1, <1>2 DEF LocalsAt, Holds, Proving, Announcing, Recording
<1>7. \A q \in Procs : LocksAt(q)'
  BY <1>1, <1>2 DEF LocksAt, Proving, Announcing, Recording, Cmd, Arg
<1>8. \A q \in Procs : CopyAt(q)'
  BY <1>1, <1>2 DEF CopyAt
<1>9. \A q \in Procs : UnsavedUnknown(q)'
  BY <1>1, <1>2 DEF UnsavedUnknown
<1>10. IdsDrawn'
  BY <1>1, <1>2 DEF IdsDrawn
<1>11. HeldIsSaved'
  BY <1>1, <1>2 DEF HeldIsSaved, Holds, Proving
<1>12. RegistrationStored'
  BY <1>1, <1>2 DEF RegistrationStored, Announcing, Recording, Arg
<1> QED BY <1>4, <1>5, <1>6, <1>7, <1>8, <1>9, <1>10, <1>11, <1>12

\* credentials.json is read under its lock.
LEMMA LoadBundleKeeps ==
    ASSUME IdentitySound, NEW p \in Procs, LoadBundle(p)
    PROVE  IdentitySound'
<1> USE IdentityAssumption, RecordAssumption DEF IdentitySound
<1>1. /\ \A q \in Procs \ {p} : proc'[q] = proc[q]
      /\ proc'[p].pc = "saveBundle" /\ proc'[p].job = proc[p].job
      /\ proc'[p].edit = proc[p].edit /\ proc'[p].cfg = proc[p].cfg
      /\ proc'[p].stale = proc[p].stale /\ proc'[p].ident = proc[p].ident
      /\ proc'[p].request = proc[p].request /\ proc'[p].copy = bundle
      /\ proc[p].pc = "loadBundle" /\ credentialsLock = None /\ credentialsLock' = p
  BY DEF LoadBundle, CredentialsFree, TypeOK, Process
<1>2. UNCHANGED <<config, bundle, server, identityLock, registrationLock, minted,
       clobbered, started, faults>>
  BY DEF LoadBundle, CredentialsFree
<1>3. TypeOK'
  <2>1. proc[p] \in Process
    BY DEF TypeOK
  <2>2. [proc[p] EXCEPT !.pc = "saveBundle", !.copy = bundle] \in Process
    BY <1>1, <2>1 DEF TypeOK, Process, Labels, Edits
  <2>3. proc' \in [Procs -> Process]
    BY <2>2 DEF LoadBundle, TypeOK
  <2> QED BY <1>1, <1>2, <2>3 DEF TypeOK
<1>4. \A q \in Procs : CommandAt(q)'
  BY <1>1, <1>2 DEF CommandAt, Proving, Announcing, Recording, Cmd
<1>5. \A q \in Procs : LocalsAt(q)'
  BY <1>1, <1>2 DEF LocalsAt, Holds, Proving, Announcing, Recording
<1>6. \A q \in Procs : LocksAt(q)'
  BY <1>1, <1>2 DEF LocksAt, Proving, Announcing, Recording, Cmd, Arg
<1>7. \A q \in Procs : CopyAt(q)'
  BY <1>1, <1>2 DEF CopyAt
<1>8. \A q \in Procs : UnsavedUnknown(q)'
  BY <1>1, <1>2 DEF UnsavedUnknown
<1>9. IdsDrawn'
  BY <1>1, <1>2 DEF IdsDrawn
<1>10. HeldIsSaved'
  BY <1>1, <1>2 DEF HeldIsSaved, Holds, Proving
<1>11. RegistrationStored'
  BY <1>1, <1>2 DEF RegistrationStored, Announcing, Recording, Arg
<1> QED BY <1>3, <1>4, <1>5, <1>6, <1>7, <1>8, <1>9, <1>10, <1>11

\* register_machine resumes the registration it finds stored for its identity.
LEMMA ResumeKeeps ==
    ASSUME IdentitySound, NEW p \in Procs, LockRegistration(p), Ours(p)
    PROVE  IdentitySound'
<1> USE IdentityAssumption, RecordAssumption DEF IdentitySound
<1>1. /\ \A q \in Procs \ {p} : proc'[q] = proc[q]
      /\ proc'[p].pc = "call" /\ proc'[p].job = proc[p].job
      /\ proc'[p].edit = proc[p].edit /\ proc'[p].cfg = proc[p].cfg
      /\ proc'[p].stale = proc[p].stale /\ proc'[p].ident = proc[p].ident
      /\ proc'[p].request = bundle.registrations[Arg(p)].request /\ proc'[p].copy = proc[p].copy
      /\ proc[p].pc = "lockRegistration" /\ registrationLock[Arg(p)] = None
      /\ registrationLock' = [registrationLock EXCEPT ![Arg(p)] = p]
  BY DEF LockRegistration, Ours, RegistrationFree, Resumed, TypeOK, Process
<1>2. UNCHANGED <<config, bundle, server, identityLock, credentialsLock, minted,
       clobbered, started, faults>>
  BY DEF LockRegistration, Ours, RegistrationFree, Resumed
<1>3. Arg(p) \in Endpoints
  BY <1>1, RegisterArg DEF CommandAt
<1>4. /\ registrationLock' \in [Endpoints -> Procs \cup {None}]
      /\ registrationLock'[Arg(p)] = p
      /\ \A e \in Endpoints \ {Arg(p)} : registrationLock'[e] = registrationLock[e]
  BY <1>1, <1>3 DEF TypeOK
<1>5. \A q \in Procs \ {p} : Announcing(q) \/ Recording(q) =>
          /\ Arg(q) \in Endpoints \ {Arg(p)} /\ Arg(q)' = Arg(q)
          /\ registrationLock'[Arg(q)] = registrationLock[Arg(q)]
  <2>1. \A q \in Procs \ {p} : Announcing(q) \/ Recording(q) =>
            Arg(q) \in Endpoints /\ Arg(q) # Arg(p)
    BY <1>1, RegisterArg DEF CommandAt, LocksAt
  <2> QED BY <1>1, <1>4, <2>1 DEF Arg
<1>6. proc[p].ident \in Identity
  BY <1>1 DEF LocalsAt, Holds
<1>7. /\ bundle.registrations[Arg(p)] \in Registration
      /\ bundle.registrations[Arg(p)].request \in Identity
      /\ bundle.registrations[Arg(p)].request.id = proc[p].ident.id
  BY <1>3 DEF Ours, TypeOK, Bundle, Registration, IdsDrawn
<1>8. TypeOK'
  <2>1. proc[p] \in Process
    BY DEF TypeOK
  <2>2. [proc[p] EXCEPT !.pc = "call", !.request = bundle.registrations[Arg(p)].request]
          \in Process
    BY <1>7, <2>1 DEF Process, Labels, Edits
  <2>3. proc' \in [Procs -> Process]
    BY <2>2 DEF LockRegistration, Ours, TypeOK, Resumed, RegistrationRequest
  <2> QED BY <1>2, <1>4, <2>3 DEF TypeOK
<1>9. \A q \in Procs : CommandAt(q)'
  BY <1>1, <1>2 DEF CommandAt, Proving, Announcing, Recording, Cmd
<1>10. \A q \in Procs : LocalsAt(q)'
  BY <1>1, <1>2, <1>3, <1>4, <1>5, <1>6, <1>7 DEF LocalsAt, Holds, Proving, Announcing,
         Recording
<1>11. \A q \in Procs : LocksAt(q)'
  <2>1. LocksAt(p)'
    BY <1>1, <1>2, <1>3, <1>4, <1>5, <1>6, <1>7 DEF LocksAt, Proving, Announcing,
           Recording, Cmd, Arg
  <2>2. \A q \in Procs \ {p} : LocksAt(q)'
    BY <1>1, <1>2, <1>3, <1>4, <1>5, <1>6, <1>7 DEF LocksAt, Proving, Announcing,
           Recording, Cmd, Arg
  <2> QED BY <2>1, <2>2
<1>12. \A q \in Procs : CopyAt(q)'
  BY <1>1, <1>2 DEF CopyAt
<1>13. \A q \in Procs : UnsavedUnknown(q)'
  BY <1>1, <1>2, <1>3, <1>4, <1>5, <1>6, <1>7 DEF UnsavedUnknown
<1>14. IdsDrawn'
  BY <1>1, <1>2, <1>3, <1>4, <1>5, <1>6, <1>7 DEF IdsDrawn
<1>15. HeldIsSaved'
  BY <1>1, <1>2 DEF HeldIsSaved, Holds, Proving
<1>16. RegistrationStored'
  <2>1. \A q \in Procs \ {p} : /\ Announcing(q)' = Announcing(q) /\ Recording(q)' = Recording(q)
                              /\ Arg(q)' = Arg(q) /\ proc'[q] = proc[q]
    BY <1>1 DEF Announcing, Recording, Arg
  <2>2. ~Announcing(p)' /\ Arg(p)' = Arg(p)
    BY <1>1 DEF Announcing, Arg
  <2>3. bundle.registrations[Arg(p)].installation = proc[p].ident.id
    BY DEF Ours
  <2> QED BY <1>1, <1>2, <1>7, <2>1, <2>2, <2>3 DEF RegistrationStored
<1> QED BY <1>8, <1>9, <1>10, <1>11, <1>12, <1>13, <1>14, <1>15, <1>16

\* register_machine starts a registration: no server has heard of the identity.
LEMMA AnnounceKeeps ==
    ASSUME IdentitySound, NEW p \in Procs, LockRegistration(p), ~Ours(p)
    PROVE  IdentitySound'
<1> USE IdentityAssumption, RecordAssumption DEF IdentitySound
<1>1. /\ \A q \in Procs \ {p} : proc'[q] = proc[q]
      /\ proc'[p].pc = "loadBundle" /\ proc'[p].job = proc[p].job
      /\ proc'[p].edit = "pending" /\ proc'[p].cfg = proc[p].cfg
      /\ proc'[p].stale = proc[p].stale /\ proc'[p].ident = proc[p].ident
      /\ proc'[p].request = proc[p].ident /\ proc'[p].copy = proc[p].copy
      /\ proc[p].pc = "lockRegistration" /\ registrationLock[Arg(p)] = None
      /\ registrationLock' = [registrationLock EXCEPT ![Arg(p)] = p]
  BY DEF LockRegistration, Ours, RegistrationFree, RegistrationRequest, TypeOK, Process
<1>2. UNCHANGED <<config, bundle, server, identityLock, credentialsLock, minted,
       clobbered, started, faults>>
  BY DEF LockRegistration, Ours, RegistrationFree, RegistrationRequest
<1>3. Arg(p) \in Endpoints
  BY <1>1, RegisterArg DEF CommandAt
<1>4. /\ registrationLock' \in [Endpoints -> Procs \cup {None}]
      /\ registrationLock'[Arg(p)] = p
      /\ \A e \in Endpoints \ {Arg(p)} : registrationLock'[e] = registrationLock[e]
  BY <1>1, <1>3 DEF TypeOK
<1>5. \A q \in Procs \ {p} : Announcing(q) \/ Recording(q) =>
          /\ Arg(q) \in Endpoints \ {Arg(p)} /\ Arg(q)' = Arg(q)
          /\ registrationLock'[Arg(q)] = registrationLock[Arg(q)]
  <2>1. \A q \in Procs \ {p} : Announcing(q) \/ Recording(q) =>
            Arg(q) \in Endpoints /\ Arg(q) # Arg(p)
    BY <1>1, RegisterArg DEF CommandAt, LocksAt
  <2> QED BY <1>1, <1>4, <2>1 DEF Arg
<1>6. proc[p].ident \in Identity
  BY <1>1 DEF LocalsAt, Holds
<1>7. ~clobbered => server[Arg(p)][proc[p].ident.id] = None
  BY <1>1, <1>3, <1>6 DEF HeldIsSaved, Holds, RegistrationStored, Ours
<1>8. TypeOK'
  <2>1. proc[p] \in Process
    BY DEF TypeOK
  <2>2. [proc[p] EXCEPT !.pc = "loadBundle", !.edit = "pending", !.request = proc[p].ident]
          \in Process
    BY <1>6, <2>1 DEF Process, Labels, Edits
  <2>3. proc' \in [Procs -> Process]
    BY <2>2 DEF LockRegistration, Ours, TypeOK, Resumed, RegistrationRequest
  <2> QED BY <1>2, <1>4, <2>3 DEF TypeOK
<1>9. \A q \in Procs : CommandAt(q)'
  BY <1>1 DEF CommandAt, Proving, Announcing, Recording, Cmd
<1>10. \A q \in Procs : LocalsAt(q)'
  BY <1>1, <1>2 DEF LocalsAt, Holds, Proving, Announcing, Recording
<1>11. \A q \in Procs : LocksAt(q)'
  BY <1>1, <1>2, <1>3, <1>4, <1>5, <1>6, <1>7 DEF LocksAt, Proving, Announcing,
         Recording, Cmd, Arg
<1>12. \A q \in Procs : CopyAt(q)'
  BY <1>1, <1>2 DEF CopyAt
<1>13. \A q \in Procs : UnsavedUnknown(q)'
  BY <1>1, <1>2 DEF UnsavedUnknown
<1>14. IdsDrawn'
  BY <1>1, <1>2 DEF IdsDrawn
<1>15. HeldIsSaved'
  BY <1>1, <1>2 DEF HeldIsSaved, Holds, Proving
<1>16. RegistrationStored'
  BY <1>1, <1>2, <1>7 DEF RegistrationStored, Announcing, Recording, Arg
<1> QED BY <1>8, <1>9, <1>10, <1>11, <1>12, <1>13, <1>14, <1>15, <1>16

\* The server accepts a request that is stored.
LEMMA AcceptedKeeps ==
    ASSUME IdentitySound, NEW p \in Procs, Call(p), Accepts(Arg(p), proc[p].request)
    PROVE  IdentitySound'
<1> USE IdentityAssumption, RecordAssumption DEF IdentitySound
<1>1. /\ \A q \in Procs \ {p} : proc'[q] = proc[q]
      /\ proc'[p].pc = "loadBundle" /\ proc'[p].job = proc[p].job
      /\ proc'[p].edit = "registered" /\ proc'[p].cfg = proc[p].cfg
      /\ proc'[p].stale = proc[p].stale /\ proc'[p].ident = proc[p].ident
      /\ proc'[p].request = proc[p].request /\ proc'[p].copy = proc[p].copy
      /\ proc[p].pc = "call"
      /\ server' = [server EXCEPT ![Arg(p)][proc[p].request.id] = proc[p].request.name]
  BY DEF Call, TypeOK, Process
<1>2. UNCHANGED <<config, bundle, identityLock, registrationLock, credentialsLock,
       minted, clobbered, started, faults>>
  BY DEF Call
<1>3. Recording(p) /\ Holds(p)
  BY <1>1 DEF Recording, Holds
<1>4. /\ Arg(p) \in Endpoints /\ registrationLock[Arg(p)] = p
      /\ proc[p].request \in Identity /\ proc[p].ident \in Identity /\ proc[p].request.id = proc[p].ident.id
  BY <1>3, RegisterArg DEF CommandAt, LocksAt, LocalsAt
<1>5. /\ server' \in [Endpoints -> [0 .. MaxIds -> Names \cup {None}]]
      /\ server'[Arg(p)][proc[p].request.id] = proc[p].request.name
      /\ \A e \in Endpoints, i \in 0 .. MaxIds :
           (e # Arg(p) \/ i # proc[p].request.id) => server'[e][i] = server[e][i]
  BY <1>1, <1>4 DEF TypeOK, Identity
<1>6. \A q \in Procs \ {p} : Announcing(q) => Arg(q) \in Endpoints \ {Arg(p)}
  BY <1>4, RegisterArg DEF CommandAt, LocksAt
<1>7. \A q \in Procs : proc[q].ident # None => proc[q].ident.id \in 0 .. MaxIds
  BY DEF TypeOK, Process, Identity
<1>8. config.machine # None => config.machine.id \in 0 .. MaxIds
  BY DEF TypeOK, Config, Identity
<1>9. TypeOK'
  <2>1. proc[p] \in Process
    BY DEF TypeOK
  <2>2. [proc[p] EXCEPT !.pc = "loadBundle", !.edit = "registered"] \in Process
    BY <1>1, <2>1 DEF Process, Labels, Edits
  <2>3. proc' \in [Procs -> Process]
    BY <2>2 DEF Call, TypeOK
  <2> QED BY <1>2, <1>5, <2>3 DEF TypeOK
<1>10. \A q \in Procs : CommandAt(q)'
  BY <1>1 DEF CommandAt, Proving, Announcing, Recording, Cmd
<1>11. \A q \in Procs : LocalsAt(q)'
  BY <1>1, <1>2 DEF LocalsAt, Holds, Proving, Announcing, Recording
<1>12. \A q \in Procs : LocksAt(q)'
  BY <1>1, <1>2 DEF LocksAt, Proving, Announcing, Recording, Cmd, Arg
<1>13. \A q \in Procs : CopyAt(q)'
  BY <1>1, <1>2 DEF CopyAt
<1>14. \A q \in Procs : UnsavedUnknown(q)'
  <2>1. UnsavedUnknown(p)'
    BY <1>1 DEF UnsavedUnknown
  <2>2. \A q \in Procs \ {p} : proc[q].pc = "saveIdentity" =>
            proc[q].ident.id \in 0 .. MaxIds /\ proc[p].request.id # proc[q].ident.id
    BY <1>4, <1>7 DEF UnsavedUnknown, LocalsAt
  <2>3. \A q \in Procs \ {p} : UnsavedUnknown(q)'
    <3>1. \A r \in Procs : proc'[r].ident = proc[r].ident /\ proc'[r].request = proc[r].request
      BY <1>1
    <3>2. \A q \in Procs \ {p} : proc[q].pc = "saveIdentity" =>
              \A e \in Endpoints : server'[e][proc[q].ident.id] = server[e][proc[q].ident.id]
      BY <1>5, <2>2
    <3>3. \A q \in Procs \ {p} : proc'[q].pc = proc[q].pc
      BY <1>1
    <3> QED BY <1>2, <3>1, <3>2, <3>3 DEF UnsavedUnknown
  <2> QED BY <2>1, <2>3
<1>15. IdsDrawn'
  <2>1. proc[p].request.id \in 1 .. minted
    BY <1>4 DEF IdsDrawn
  <2>2. \A e \in Endpoints : \A i \in 0 .. MaxIds : server'[e][i] # None =>
            i \in 1 .. minted
    BY <1>5, <2>1 DEF IdsDrawn
  <2> QED BY <1>1, <1>2, <2>2 DEF IdsDrawn
<1>16. HeldIsSaved'
  BY <1>1, <1>2 DEF HeldIsSaved, Holds, Proving
<1>17. RegistrationStored'
  <2>1. \A q \in Procs : Recording(q)' =>
            /\ bundle'.registrations[Arg(q)'] \in Registration
            /\ bundle'.registrations[Arg(q)'].installation = proc'[q].ident.id
            /\ bundle'.registrations[Arg(q)'].request = proc'[q].request
    BY <1>1, <1>2 DEF RegistrationStored, Recording, Arg
  <2>2. ~clobbered' => \A q \in Procs : Announcing(q)' =>
            server'[Arg(q)'][proc'[q].ident.id] = None
    <3> SUFFICES ASSUME ~clobbered', NEW q \in Procs, Announcing(q)'
                 PROVE  server'[Arg(q)'][proc'[q].ident.id] = None
      OBVIOUS
    <3>1. q # p /\ Announcing(q) /\ Arg(q)' = Arg(q) /\ proc'[q] = proc[q]
      BY <1>1 DEF Announcing, Arg
    <3>2. Arg(q) \in Endpoints \ {Arg(p)} /\ server[Arg(q)][proc[q].ident.id] = None
      BY <1>2, <1>6, <3>1 DEF RegistrationStored
    <3>3. proc[q].ident.id \in 0 .. MaxIds
      BY <1>7, <3>1 DEF LocalsAt, Holds, Announcing
    <3> QED BY <1>5, <3>1, <3>2, <3>3
  <2>3. ~clobbered => config.machine.id = proc[p].request.id
    BY <1>3, <1>4 DEF HeldIsSaved
  <2>4. (~clobbered' /\ config'.machine # None) =>
          \A e \in Endpoints : server'[e][config'.machine.id] # None =>
            /\ bundle'.registrations[e] \in Registration
            /\ bundle'.registrations[e].installation = config'.machine.id
            /\ bundle'.registrations[e].request.name = server'[e][config'.machine.id]
    <3>1. /\ bundle.registrations[Arg(p)] \in Registration
          /\ bundle.registrations[Arg(p)].installation = proc[p].ident.id
          /\ bundle.registrations[Arg(p)].request = proc[p].request
      BY <1>3 DEF RegistrationStored
    <3> QED BY <1>2, <1>4, <1>5, <1>8, <2>3, <3>1 DEF RegistrationStored
  <2> QED BY <2>1, <2>2, <2>4 DEF RegistrationStored, Announcing, Recording, Arg
<1> QED BY <1>9, <1>10, <1>11, <1>12, <1>13, <1>14, <1>15, <1>16, <1>17

\* The server is asked, and accepts or refuses.
LEMMA CallKeeps ==
    ASSUME IdentitySound, NEW p \in Procs, Call(p)
    PROVE  IdentitySound'
<1>1. CASE Accepts(Arg(p), proc[p].request)
  BY <1>1, AcceptedKeeps
<1>2. CASE ~Accepts(Arg(p), proc[p].request)
  <2>1. faults' \in 0 .. MaxFaults /\ started' \in 0 .. MaxCommands
    BY DEF IdentitySound, TypeOK, Call
  <2> QED BY <1>2, <2>1, EndKeeps DEF Call, ReleaseAll
<1> QED BY <1>1, <1>2

\* A save of credentials.json: the copy is the file, and one section of it changes.
LEMMA EditedShape ==
    ASSUME IdentitySound, NEW p \in Procs, SaveBundle(p)
    PROVE  /\ proc[p].pc = "saveBundle" /\ credentialsLock = p /\ bundle' \in Bundle
           /\ proc[p].edit \in {"proof", "pending", "registered", "login", "logout"}
           /\ proc[p].edit = "proof" =>
                /\ bundle'.proof = proc[p].ident.id
                /\ bundle'.registrations = bundle.registrations /\ bundle'.keys = bundle.keys
           /\ proc[p].edit \in {"pending", "registered"} =>
                /\ Arg(p) \in Endpoints
                /\ bundle'.proof = bundle.proof /\ bundle'.keys = bundle.keys
                /\ bundle'.registrations = [bundle.registrations EXCEPT ![Arg(p)] =
                     [state |-> proc[p].edit, installation |-> proc[p].ident.id,
                      request |-> proc[p].request]]
           /\ proc[p].edit \in {"login", "logout"} =>
                /\ Arg(p) \in Endpoints
                /\ bundle'.proof = bundle.proof /\ bundle'.registrations = bundle.registrations
                /\ bundle'.keys \ {Arg(p)} = bundle.keys \ {Arg(p)}
<1> USE DEF IdentitySound
<1>1. /\ proc[p].pc = "saveBundle" /\ credentialsLock = p /\ proc[p].copy = bundle
      /\ proc[p].edit \in {"proof", "pending", "registered", "login", "logout"}
  <2>1. proc[p].pc = "saveBundle"
    BY DEF SaveBundle
  <2>2. proc[p].edit \in Edits
    BY DEF TypeOK, Process
  <2> QED BY <2>1, <2>2 DEF CommandAt, LocalsAt, LocksAt, Edits
<1>2. bundle \in Bundle /\ bundle' = Edited(p)
  BY DEF TypeOK, SaveBundle
<1>3. CASE proc[p].edit = "proof"
  <2>1. proc[p].ident \in Identity
    BY <1>1, <1>3 DEF LocalsAt, Proving
  <2>2. bundle' = [bundle EXCEPT !.proof = proc[p].ident.id]
    BY <1>1, <1>2, <1>3 DEF Edited, WithProof
  <2> QED BY <1>1, <1>2, <1>3, <2>1, <2>2 DEF Bundle, Identity
<1>4. CASE proc[p].edit \in {"pending", "registered"}
  <2> DEFINE registration == [state |-> proc[p].edit, installation |-> proc[p].ident.id,
                              request |-> proc[p].request]
  <2>1. Announcing(p) \/ Recording(p)
    BY <1>1, <1>4 DEF Announcing, Recording
  <2>2. Arg(p) \in Endpoints /\ proc[p].request \in Identity
    BY <2>1, RegisterArg DEF CommandAt, LocalsAt
  <2>3. proc[p].ident.id \in 0 .. MaxIds
    BY <2>1, <2>2 DEF LocalsAt, Identity
  <2>4. registration \in Registration
    BY <1>4, <2>2, <2>3 DEF Registration
  <2>5. bundle' = [bundle EXCEPT !.registrations = [@ EXCEPT ![Arg(p)] = registration]]
    BY <1>1, <1>2, <1>4 DEF Edited, WithRegistration, Bundle
  <2> HIDE DEF registration
  <2>6. bundle' \in Bundle /\ bundle'.proof = bundle.proof /\ bundle'.keys = bundle.keys
        /\ bundle'.registrations = [bundle.registrations EXCEPT ![Arg(p)] = registration]
    BY <1>2, <2>2, <2>4, <2>5 DEF Bundle
  <2> QED BY <1>1, <1>4, <2>2, <2>6 DEF registration
<1>5. CASE proc[p].edit \in {"login", "logout"}
  <2>1. Arg(p) \in Endpoints
    BY <1>1, <1>5 DEF CommandAt, Command, Cmd, Arg
  <2>2. bundle' = [bundle EXCEPT !.keys = IF proc[p].edit = "login" THEN @ \cup {Arg(p)} ELSE @ \ {Arg(p)}]
    BY <1>1, <1>2, <1>5 DEF Edited, WithKey, WithoutKey
  <2> QED BY <1>1, <1>2, <1>5, <2>1, <2>2 DEF Bundle
<1> QED BY <1>1, <1>3, <1>4, <1>5

\* The proof of a new identity is saved.
LEMMA SaveProofKeeps ==
    ASSUME IdentitySound, NEW p \in Procs, SaveBundle(p), proc[p].edit = "proof"
    PROVE  IdentitySound'
<1> USE IdentityAssumption, RecordAssumption DEF IdentitySound
<1>1. /\ \A q \in Procs \ {p} : proc'[q] = proc[q]
      /\ proc'[p].pc = "haveIdentity" /\ proc'[p].job = proc[p].job
      /\ proc'[p].edit = "none" /\ proc'[p].cfg = proc[p].cfg
      /\ proc'[p].stale = proc[p].stale /\ proc'[p].ident = proc[p].ident
      /\ proc'[p].request = proc[p].request /\ proc'[p].copy = None
      /\ proc[p].pc = "saveBundle" /\ credentialsLock = p
      /\ credentialsLock' = None
      /\ bundle'.proof = proc[p].ident.id /\ bundle'.registrations = bundle.registrations
  <2>1. /\ proc[p] \in Process
        /\ proc'[p] = [proc[p] EXCEPT !.pc = "haveIdentity", !.edit = "none", !.copy = None]
    BY DEF SaveBundle, AfterSave, TypeOK
  <2>2. \A q \in Procs \ {p} : proc'[q] = proc[q]
    BY DEF SaveBundle, TypeOK
  <2>3. credentialsLock' = None
    BY DEF SaveBundle
  <2>4. /\ proc'[p].pc = "haveIdentity" /\ proc'[p].job = proc[p].job
        /\ proc'[p].edit = "none" /\ proc'[p].cfg = proc[p].cfg
        /\ proc'[p].stale = proc[p].stale /\ proc'[p].ident = proc[p].ident
        /\ proc'[p].request = proc[p].request /\ proc'[p].copy = None
    BY <2>1 DEF Process
  <2> QED BY <2>2, <2>3, <2>4, EditedShape
<1>2. UNCHANGED <<config, server, identityLock, registrationLock, minted, clobbered,
       started, faults>>
  BY DEF SaveBundle, AfterSave
<1>3. \A q \in Procs \ {p} : proc[q].pc # "saveBundle"
  BY <1>1 DEF LocksAt
<1>4. Proving(p) /\ identityLock = p /\ proc[p].ident \in Identity
  BY <1>1 DEF Proving, LocksAt, LocalsAt
<1>5. \A q \in Procs \ {p} : proc[q].pc # "saveIdentity" /\ ~Proving(q) /\ (~clobbered =>
          ~Holds(q))
  BY <1>4 DEF LocksAt, HeldIsSaved
<1>6. TypeOK'
  <2>1. [proc[p] EXCEPT !.pc = "haveIdentity", !.edit = "none", !.copy = None] \in Process
    <3>1. proc[p] \in Process
      BY DEF TypeOK
    <3> QED BY <3>1 DEF Process, Labels, Edits, Idle
  <2>2. proc' \in [Procs -> Process]
    BY <2>1 DEF SaveBundle, AfterSave, TypeOK
  <2>3. bundle' \in Bundle
    BY EditedShape
  <2> QED BY <1>1, <1>2, <2>2, <2>3 DEF TypeOK
<1>7. \A q \in Procs : CommandAt(q)'
  BY <1>1, <1>2 DEF CommandAt, Proving, Announcing, Recording, Cmd
<1>8. \A q \in Procs : LocalsAt(q)'
  BY <1>1, <1>2, <1>3, <1>4, <1>5 DEF LocalsAt, Holds, Proving, Announcing, Recording
<1>9. \A q \in Procs : LocksAt(q)'
  BY <1>1, <1>2 DEF LocksAt, Proving, Announcing, Recording, Cmd, Arg
<1>10. \A q \in Procs : CopyAt(q)'
  BY <1>1, <1>2 DEF CopyAt
<1>11. \A q \in Procs : UnsavedUnknown(q)'
  BY <1>1, <1>2 DEF UnsavedUnknown
<1>12. IdsDrawn'
  BY <1>1, <1>2, <1>3, <1>4, <1>5 DEF IdsDrawn
<1>13. HeldIsSaved'
  BY <1>1, <1>2, <1>3, <1>4, <1>5 DEF HeldIsSaved, Holds, Proving
<1>14. RegistrationStored'
  BY <1>1, <1>2 DEF RegistrationStored, Announcing, Recording, Arg
<1> QED BY <1>6, <1>7, <1>8, <1>9, <1>10, <1>11, <1>12, <1>13, <1>14

\* An API key is saved or removed.
LEMMA SaveKeysKeeps ==
    ASSUME IdentitySound, NEW p \in Procs, SaveBundle(p), proc[p].edit \in {"login", "logout"}
    PROVE  IdentitySound'
<1> USE IdentityAssumption, RecordAssumption DEF IdentitySound
<1>1. /\ \A q \in Procs \ {p} : proc'[q] = proc[q]
      /\ proc'[p] = Idle
      /\ proc[p].pc = "saveBundle" /\ credentialsLock = p
      /\ credentialsLock' = None
      /\ bundle'.proof = bundle.proof /\ bundle'.registrations = bundle.registrations
  <2>1. proc[p] \in Process /\ proc'[p] = Idle
    BY DEF SaveBundle, AfterSave, TypeOK
  <2>2. \A q \in Procs \ {p} : proc'[q] = proc[q]
    BY DEF SaveBundle, TypeOK
  <2>3. credentialsLock' = None
    BY DEF SaveBundle
  <2>4. proc'[p] = Idle
    BY <2>1
  <2> QED BY <2>2, <2>3, <2>4, EditedShape
<1>2. UNCHANGED <<config, server, identityLock, registrationLock, minted, clobbered,
       started, faults>>
  BY DEF SaveBundle, AfterSave
<1>3. \A q \in Procs \ {p} : proc[q].pc # "saveBundle"
  BY <1>1 DEF LocksAt
<1>4. TypeOK'
  <2>1. Idle \in Process
    <3>1. proc[p] \in Process
      BY DEF TypeOK
    <3> QED BY <3>1 DEF Process, Labels, Edits, Idle
  <2>2. proc' \in [Procs -> Process]
    BY <2>1 DEF SaveBundle, AfterSave, TypeOK
  <2>3. bundle' \in Bundle
    BY EditedShape
  <2> QED BY <1>1, <1>2, <2>2, <2>3 DEF TypeOK
<1>5. \A q \in Procs : CommandAt(q)'
  <2>1. CommandAt(p)'
    BY <1>1, <1>2, <1>3 DEF CommandAt, Proving, Announcing, Recording, Cmd, Idle
  <2>2. \A q \in Procs \ {p} : CommandAt(q)'
    BY <1>1, <1>2, <1>3 DEF CommandAt, Proving, Announcing, Recording, Cmd
  <2> QED BY <2>1, <2>2
<1>6. \A q \in Procs : LocalsAt(q)'
  BY <1>1, <1>2, <1>3 DEF LocalsAt, Holds, Proving, Announcing, Recording, Idle
<1>7. \A q \in Procs : LocksAt(q)'
  BY <1>1, <1>2 DEF LocksAt, Proving, Announcing, Recording, Cmd, Arg, Idle
<1>8. \A q \in Procs : CopyAt(q)'
  BY <1>1, <1>2 DEF CopyAt, Idle
<1>9. \A q \in Procs : UnsavedUnknown(q)'
  BY <1>1, <1>2 DEF UnsavedUnknown, Idle
<1>10. IdsDrawn'
  BY <1>1, <1>2 DEF IdsDrawn, Idle
<1>11. HeldIsSaved'
  BY <1>1, <1>2 DEF HeldIsSaved, Holds, Proving, Idle
<1>12. RegistrationStored'
  BY <1>1, <1>2 DEF RegistrationStored, Announcing, Recording, Arg, Idle
<1> QED BY <1>4, <1>5, <1>6, <1>7, <1>8, <1>9, <1>10, <1>11, <1>12

\* The request is stored before the server is asked.
LEMMA SavePendingKeeps ==
    ASSUME IdentitySound, NEW p \in Procs, SaveBundle(p), proc[p].edit = "pending"
    PROVE  IdentitySound'
<1> USE IdentityAssumption, RecordAssumption DEF IdentitySound
<1>1. /\ \A q \in Procs \ {p} : proc'[q] = proc[q]
      /\ proc'[p].pc = "call" /\ proc'[p].job = proc[p].job
      /\ proc'[p].edit = "none" /\ proc'[p].cfg = proc[p].cfg
      /\ proc'[p].stale = proc[p].stale /\ proc'[p].ident = proc[p].ident
      /\ proc'[p].request = proc[p].request /\ proc'[p].copy = None
      /\ proc[p].pc = "saveBundle" /\ credentialsLock = p
      /\ credentialsLock' = None
      /\ bundle'.proof = bundle.proof /\ bundle'.keys = bundle.keys
  <2>1. /\ proc[p] \in Process
        /\ proc'[p] = [proc[p] EXCEPT !.pc = "call", !.edit = "none", !.copy = None]
    BY DEF SaveBundle, AfterSave, TypeOK
  <2>2. \A q \in Procs \ {p} : proc'[q] = proc[q]
    BY DEF SaveBundle, TypeOK
  <2>3. credentialsLock' = None
    BY DEF SaveBundle
  <2>4. /\ proc'[p].pc = "call" /\ proc'[p].job = proc[p].job
        /\ proc'[p].edit = "none" /\ proc'[p].cfg = proc[p].cfg
        /\ proc'[p].stale = proc[p].stale /\ proc'[p].ident = proc[p].ident
        /\ proc'[p].request = proc[p].request /\ proc'[p].copy = None
    BY <2>1 DEF Process
  <2> QED BY <2>2, <2>3, <2>4, EditedShape
<1>2. UNCHANGED <<config, server, identityLock, registrationLock, minted, clobbered,
       started, faults>>
  BY DEF SaveBundle, AfterSave
<1>3. \A q \in Procs \ {p} : proc[q].pc # "saveBundle"
  BY <1>1 DEF LocksAt
<1>4. Holds(p) /\ (Announcing(p) \/ Recording(p))
  BY <1>1 DEF Holds, Announcing, Recording
<1>5. /\ Arg(p) \in Endpoints /\ registrationLock[Arg(p)] = p
      /\ proc[p].ident \in Identity /\ proc[p].request \in Identity
      /\ proc[p].request.id = proc[p].ident.id
  BY <1>4, RegisterArg DEF CommandAt, LocksAt, LocalsAt
<1>6. \E r \in Registration :
          /\ bundle'.registrations[Arg(p)] = r
          /\ r.installation = proc[p].ident.id /\ r.request = proc[p].request
  <2>1. bundle.registrations \in [Endpoints -> Registration \cup {None}] /\ bundle' \in Bundle
    BY EditedShape DEF TypeOK, Bundle
  <2>2. bundle'.registrations = [bundle.registrations EXCEPT ![Arg(p)] =
             [state |-> proc[p].edit, installation |-> proc[p].ident.id, request |-> proc[p].request]]
    BY EditedShape
  <2>3. [state |-> proc[p].edit, installation |-> proc[p].ident.id, request |-> proc[p].request]
           \in Registration
    BY <1>5 DEF Registration, Identity
  <2> QED BY <1>5, <2>1, <2>2, <2>3
<1>7. \A e \in Endpoints \ {Arg(p)} : bundle'.registrations[e] = bundle.registrations[e]
  <2>1. bundle.registrations \in [Endpoints -> Registration \cup {None}]
    BY DEF TypeOK, Bundle
  <2> QED BY <2>1, EditedShape
<1>8. \A q \in Procs \ {p} : Recording(q) => Arg(q) \in Endpoints \ {Arg(p)}
  BY <1>5, RegisterArg DEF CommandAt, LocksAt
<1>9. TypeOK'
  <2>1. [proc[p] EXCEPT !.pc = "call", !.edit = "none", !.copy = None] \in Process
    <3>1. proc[p] \in Process
      BY DEF TypeOK
    <3> QED BY <3>1 DEF Process, Labels, Edits, Idle
  <2>2. proc' \in [Procs -> Process]
    BY <2>1 DEF SaveBundle, AfterSave, TypeOK
  <2>3. bundle' \in Bundle
    BY EditedShape
  <2> QED BY <1>1, <1>2, <2>2, <2>3 DEF TypeOK
<1>10. \A q \in Procs : CommandAt(q)'
  BY <1>1, <1>2 DEF CommandAt, Proving, Announcing, Recording, Cmd
<1>11. \A q \in Procs : LocalsAt(q)'
  BY <1>1, <1>2, <1>3, <1>4, <1>5, <1>6, <1>7, <1>8 DEF LocalsAt, Holds, Proving,
         Announcing, Recording
<1>12. \A q \in Procs : LocksAt(q)'
  BY <1>1, <1>2 DEF LocksAt, Proving, Announcing, Recording, Cmd, Arg
<1>13. \A q \in Procs : CopyAt(q)'
  BY <1>1, <1>2 DEF CopyAt
<1>14. \A q \in Procs : UnsavedUnknown(q)'
  <2>1. UnsavedUnknown(p)'
    BY <1>1 DEF UnsavedUnknown
  <2>2. \A q \in Procs \ {p} : proc[q].pc = "saveIdentity" =>
            \A e \in Endpoints : bundle'.registrations[e] # None =>
              bundle'.registrations[e].request.id # proc[q].ident.id
    BY <1>5, <1>6, <1>7 DEF UnsavedUnknown
  <2>3. \A r \in Procs : proc'[r].ident = proc[r].ident /\ proc'[r].request = proc[r].request
    BY <1>1
  <2>4. \A q \in Procs \ {p} : UnsavedUnknown(q)'
    BY <1>1, <1>2, <2>2, <2>3 DEF UnsavedUnknown
  <2> QED BY <2>1, <2>4
<1>15. IdsDrawn'
  <2>1. proc[p].request.id \in 1 .. minted
    BY <1>5 DEF IdsDrawn
  <2>2. \A e \in Endpoints : bundle'.registrations[e] # None =>
            /\ bundle'.registrations[e].request.id = bundle'.registrations[e].installation
            /\ bundle'.registrations[e].installation \in 1 .. minted
    BY <1>5, <1>6, <1>7, <2>1 DEF IdsDrawn
  <2> QED BY <1>1, <1>2, <2>2 DEF IdsDrawn
<1>16. HeldIsSaved'
  BY <1>1, <1>2 DEF HeldIsSaved, Holds, Proving
<1>17. RegistrationStored'
  <2>1. \A q \in Procs : Recording(q)' =>
            /\ bundle'.registrations[Arg(q)'] \in Registration
            /\ bundle'.registrations[Arg(q)'].installation = proc'[q].ident.id
            /\ bundle'.registrations[Arg(q)'].request = proc'[q].request
    BY <1>1, <1>6, <1>7, <1>8 DEF RegistrationStored, Recording, Arg
  <2>2. ~clobbered' => \A q \in Procs : Announcing(q)' =>
            server'[Arg(q)'][proc'[q].ident.id] = None
    BY <1>1, <1>2 DEF RegistrationStored, Announcing, Arg
  <2>3. ~clobbered => config.machine \in Identity /\ config.machine.id = proc[p].ident.id
    BY <1>4 DEF HeldIsSaved
  <2>4. ~clobbered => server[Arg(p)][proc[p].ident.id] \in {None, proc[p].request.name}
    BY <1>4, <1>5, <2>3 DEF RegistrationStored
  <2>5. (~clobbered' /\ config'.machine # None) =>
          \A e \in Endpoints : server'[e][config'.machine.id] # None =>
            /\ bundle'.registrations[e] \in Registration
            /\ bundle'.registrations[e].installation = config'.machine.id
            /\ bundle'.registrations[e].request.name = server'[e][config'.machine.id]
    BY <1>2, <1>6, <1>7, <2>3, <2>4 DEF RegistrationStored
  <2> QED BY <2>1, <2>2, <2>5 DEF RegistrationStored, Announcing, Recording, Arg
<1> QED BY <1>9, <1>10, <1>11, <1>12, <1>13, <1>14, <1>15, <1>16, <1>17

\* The registration that the server accepted is stored as registered.
LEMMA SaveRegisteredKeeps ==
    ASSUME IdentitySound, NEW p \in Procs, SaveBundle(p), proc[p].edit = "registered"
    PROVE  IdentitySound'
<1> USE IdentityAssumption, RecordAssumption DEF IdentitySound
<1>1. /\ \A q \in Procs \ {p} : proc'[q] = proc[q]
      /\ proc'[p].pc = "loadIdentity" /\ proc'[p].job = proc[p].job
      /\ proc'[p].edit = "none" /\ proc'[p].cfg = proc[p].cfg
      /\ proc'[p].stale = proc[p].stale /\ proc'[p].ident = proc[p].ident
      /\ proc'[p].request = proc[p].request /\ proc'[p].copy = None
      /\ proc[p].pc = "saveBundle" /\ credentialsLock = p
      /\ credentialsLock' = None
      /\ bundle'.proof = bundle.proof /\ bundle'.keys = bundle.keys
  <2>1. /\ proc[p] \in Process
        /\ proc'[p] = [proc[p] EXCEPT !.pc = "loadIdentity", !.edit = "none", !.copy = None]
    BY DEF SaveBundle, AfterSave, TypeOK
  <2>2. \A q \in Procs \ {p} : proc'[q] = proc[q]
    BY DEF SaveBundle, TypeOK
  <2>3. credentialsLock' = None
    BY DEF SaveBundle
  <2>4. /\ proc'[p].pc = "loadIdentity" /\ proc'[p].job = proc[p].job
        /\ proc'[p].edit = "none" /\ proc'[p].cfg = proc[p].cfg
        /\ proc'[p].stale = proc[p].stale /\ proc'[p].ident = proc[p].ident
        /\ proc'[p].request = proc[p].request /\ proc'[p].copy = None
    BY <2>1 DEF Process
  <2> QED BY <2>2, <2>3, <2>4, EditedShape
<1>2. UNCHANGED <<config, server, identityLock, registrationLock, minted, clobbered,
       started, faults>>
  BY DEF SaveBundle, AfterSave
<1>3. \A q \in Procs \ {p} : proc[q].pc # "saveBundle"
  BY <1>1 DEF LocksAt
<1>4. Holds(p) /\ (Announcing(p) \/ Recording(p))
  BY <1>1 DEF Holds, Announcing, Recording
<1>5. /\ Arg(p) \in Endpoints /\ registrationLock[Arg(p)] = p
      /\ proc[p].ident \in Identity /\ proc[p].request \in Identity
      /\ proc[p].request.id = proc[p].ident.id
  BY <1>4, RegisterArg DEF CommandAt, LocksAt, LocalsAt
<1>6. \E r \in Registration :
          /\ bundle'.registrations[Arg(p)] = r
          /\ r.installation = proc[p].ident.id /\ r.request = proc[p].request
  <2>1. bundle.registrations \in [Endpoints -> Registration \cup {None}] /\ bundle' \in Bundle
    BY EditedShape DEF TypeOK, Bundle
  <2>2. bundle'.registrations = [bundle.registrations EXCEPT ![Arg(p)] =
             [state |-> proc[p].edit, installation |-> proc[p].ident.id, request |-> proc[p].request]]
    BY EditedShape
  <2>3. [state |-> proc[p].edit, installation |-> proc[p].ident.id, request |-> proc[p].request]
           \in Registration
    BY <1>5 DEF Registration, Identity
  <2> QED BY <1>5, <2>1, <2>2, <2>3
<1>7. \A e \in Endpoints \ {Arg(p)} : bundle'.registrations[e] = bundle.registrations[e]
  <2>1. bundle.registrations \in [Endpoints -> Registration \cup {None}]
    BY DEF TypeOK, Bundle
  <2> QED BY <2>1, EditedShape
<1>8. \A q \in Procs \ {p} : Recording(q) => Arg(q) \in Endpoints \ {Arg(p)}
  BY <1>5, RegisterArg DEF CommandAt, LocksAt
<1>9. TypeOK'
  <2>1. [proc[p] EXCEPT !.pc = "loadIdentity", !.edit = "none", !.copy = None] \in Process
    <3>1. proc[p] \in Process
      BY DEF TypeOK
    <3> QED BY <3>1 DEF Process, Labels, Edits, Idle
  <2>2. proc' \in [Procs -> Process]
    BY <2>1 DEF SaveBundle, AfterSave, TypeOK
  <2>3. bundle' \in Bundle
    BY EditedShape
  <2> QED BY <1>1, <1>2, <2>2, <2>3 DEF TypeOK
<1>10. \A q \in Procs : CommandAt(q)'
  BY <1>1, <1>2 DEF CommandAt, Proving, Announcing, Recording, Cmd
<1>11. \A q \in Procs : LocalsAt(q)'
  BY <1>1, <1>2, <1>3, <1>4, <1>5, <1>6, <1>7, <1>8 DEF LocalsAt, Holds, Proving,
         Announcing, Recording
<1>12. \A q \in Procs : LocksAt(q)'
  BY <1>1, <1>2 DEF LocksAt, Proving, Announcing, Recording, Cmd, Arg
<1>13. \A q \in Procs : CopyAt(q)'
  BY <1>1, <1>2 DEF CopyAt
<1>14. \A q \in Procs : UnsavedUnknown(q)'
  <2>1. UnsavedUnknown(p)'
    BY <1>1 DEF UnsavedUnknown
  <2>2. \A q \in Procs \ {p} : proc[q].pc = "saveIdentity" =>
            \A e \in Endpoints : bundle'.registrations[e] # None =>
              bundle'.registrations[e].request.id # proc[q].ident.id
    BY <1>5, <1>6, <1>7 DEF UnsavedUnknown
  <2>3. \A r \in Procs : proc'[r].ident = proc[r].ident /\ proc'[r].request = proc[r].request
    BY <1>1
  <2>4. \A q \in Procs \ {p} : UnsavedUnknown(q)'
    BY <1>1, <1>2, <2>2, <2>3 DEF UnsavedUnknown
  <2> QED BY <2>1, <2>4
<1>15. IdsDrawn'
  <2>1. proc[p].request.id \in 1 .. minted
    BY <1>5 DEF IdsDrawn
  <2>2. \A e \in Endpoints : bundle'.registrations[e] # None =>
            /\ bundle'.registrations[e].request.id = bundle'.registrations[e].installation
            /\ bundle'.registrations[e].installation \in 1 .. minted
    BY <1>5, <1>6, <1>7, <2>1 DEF IdsDrawn
  <2> QED BY <1>1, <1>2, <2>2 DEF IdsDrawn
<1>16. HeldIsSaved'
  BY <1>1, <1>2 DEF HeldIsSaved, Holds, Proving
<1>17. RegistrationStored'
  <2>1. \A q \in Procs : Recording(q)' =>
            /\ bundle'.registrations[Arg(q)'] \in Registration
            /\ bundle'.registrations[Arg(q)'].installation = proc'[q].ident.id
            /\ bundle'.registrations[Arg(q)'].request = proc'[q].request
    BY <1>1, <1>6, <1>7, <1>8 DEF RegistrationStored, Recording, Arg
  <2>2. ~clobbered' => \A q \in Procs : Announcing(q)' =>
            server'[Arg(q)'][proc'[q].ident.id] = None
    BY <1>1, <1>2 DEF RegistrationStored, Announcing, Arg
  <2>3. ~clobbered => config.machine \in Identity /\ config.machine.id = proc[p].ident.id
    BY <1>4 DEF HeldIsSaved
  <2>4. ~clobbered => server[Arg(p)][proc[p].ident.id] \in {None, proc[p].request.name}
    BY <1>4, <1>5, <2>3 DEF RegistrationStored
  <2>5. (~clobbered' /\ config'.machine # None) =>
          \A e \in Endpoints : server'[e][config'.machine.id] # None =>
            /\ bundle'.registrations[e] \in Registration
            /\ bundle'.registrations[e].installation = config'.machine.id
            /\ bundle'.registrations[e].request.name = server'[e][config'.machine.id]
    BY <1>2, <1>6, <1>7, <2>3, <2>4 DEF RegistrationStored
  <2> QED BY <2>1, <2>2, <2>5 DEF RegistrationStored, Announcing, Recording, Arg
<1> QED BY <1>9, <1>10, <1>11, <1>12, <1>13, <1>14, <1>15, <1>16, <1>17

\* A section of credentials.json is saved and its lock released.
LEMMA SaveBundleKeeps ==
    ASSUME IdentitySound, NEW p \in Procs, SaveBundle(p)
    PROVE  IdentitySound'
BY EditedShape, SaveProofKeeps, SavePendingKeeps, SaveRegisteredKeeps, SaveKeysKeeps

\* LoadConfig when the command is not refused: c is what it took the file for.
EditConfig(p, c) ==
    /\ proc[p].pc = "loadConfig"
    /\ proc' = [proc EXCEPT ![p] = [@ EXCEPT !.pc = "saveConfig", !.stale = (c # config),
                                             !.cfg = Changed(c, Cmd(p), Arg(p))]]
    /\ faults' \in 0 .. MaxFaults
    /\ UNCHANGED <<config, bundle, server, identityLock, registrationLock, credentialsLock,
                   minted, clobbered, started>>

\* A folder or endpoint command has changed its copy of config.json.
LEMMA EditConfigKeeps ==
    ASSUME IdentitySound, NEW p \in Procs, NEW c \in {config, EmptyConfig}, EditConfig(p, c)
    PROVE  IdentitySound'
<1> USE IdentityAssumption, RecordAssumption DEF IdentitySound
<1>1. /\ \A q \in Procs \ {p} : proc'[q] = proc[q]
      /\ proc'[p].pc = "saveConfig" /\ proc'[p].job = proc[p].job
      /\ proc'[p].edit = proc[p].edit /\ proc'[p].cfg = Changed(c, Cmd(p), Arg(p))
      /\ proc'[p].stale = (c # config) /\ proc'[p].ident = proc[p].ident
      /\ proc'[p].request = proc[p].request /\ proc'[p].copy = proc[p].copy
      /\ proc[p].pc = "loadConfig"
      /\ faults' \in 0 .. MaxFaults
  BY DEF EditConfig, TypeOK, Process
<1>2. UNCHANGED <<config, bundle, server, identityLock, registrationLock,
       credentialsLock, minted, clobbered, started>>
  BY DEF EditConfig
<1>3. /\ proc[p].job \in Command /\ Cmd(p) \in {"add", "remove", "endpoint"}
      /\ Cmd(p) \in {"add", "remove"} => Arg(p) \in Folders
      /\ Cmd(p) = "endpoint" => Arg(p) \in Endpoints
  BY <1>1 DEF CommandAt, Command, Cmd, Arg
<1>4. Changed(c, Cmd(p), Arg(p)) \in Config 
      /\ OwnSection(proc[p].job, c, Changed(c, Cmd(p), Arg(p)))
  <2>1. c \in Config
    BY DEF TypeOK, EmptyConfig, Config
  <2>2. CASE Cmd(p) \in {"add", "remove"}
    <3>1. Changed(c, Cmd(p), Arg(p)) =
              [c EXCEPT !.folders = Changed(c, Cmd(p), Arg(p)).folders]
      BY <2>1, <2>2 DEF Changed, AddFolder, RemoveFolder, Config
    <3>2. /\ Changed(c, Cmd(p), Arg(p)).folders \subseteq Folders
          /\ \A f \in Folders \ {Arg(p)} :
                 (f \in Changed(c, Cmd(p), Arg(p)).folders) = (f \in c.folders)
      BY <1>3, <2>1, <2>2 DEF Changed, AddFolder, RemoveFolder, Config
    <3> HIDE DEF Changed
    <3>3. Changed(c, Cmd(p), Arg(p)) \in Config
      BY <2>1, <3>1, <3>2 DEF Config
    <3>4. OwnSection(proc[p].job, c, Changed(c, Cmd(p), Arg(p)))
      BY <2>1, <2>2, <3>1, <3>2 DEF OwnSection, Config, Cmd, Arg
    <3> QED BY <3>3, <3>4
  <2>3. CASE Cmd(p) = "endpoint"
    BY <1>3, <2>1, <2>3 DEF Changed, SaveEndpoint, Config, OwnSection, Cmd
  <2> QED BY <1>3, <2>2, <2>3
<1>5. TypeOK'
  <2>1. proc[p] \in Process
    BY DEF TypeOK
  <2>2. [proc[p] EXCEPT !.pc = "saveConfig", !.stale = (c # config),
                           !.cfg = Changed(c, Cmd(p), Arg(p))] \in Process
    BY <1>4, <2>1 DEF Process, Labels, Edits
  <2>3. proc' \in [Procs -> Process]
    BY <2>2 DEF EditConfig, TypeOK
  <2> QED BY <1>1, <1>2, <2>3 DEF TypeOK
<1>6. \A q \in Procs : CommandAt(q)'
  BY <1>1, <1>2 DEF CommandAt, Proving, Announcing, Recording, Cmd
<1>7. \A q \in Procs : LocalsAt(q)'
  BY <1>1, <1>2, <1>3, <1>4 DEF LocalsAt, Holds, Proving, Announcing, Recording
<1>8. \A q \in Procs : LocksAt(q)'
  BY <1>1, <1>2, <1>3, <1>4 DEF LocksAt, Proving, Announcing, Recording, Cmd, Arg
<1>9. \A q \in Procs : CopyAt(q)'
  BY <1>1, <1>2, <1>3, <1>4 DEF CopyAt
<1>10. \A q \in Procs : UnsavedUnknown(q)'
  BY <1>1, <1>2 DEF UnsavedUnknown
<1>11. IdsDrawn'
  BY <1>1, <1>2 DEF IdsDrawn
<1>12. HeldIsSaved'
  BY <1>1, <1>2 DEF HeldIsSaved, Holds, Proving
<1>13. RegistrationStored'
  BY <1>1, <1>2 DEF RegistrationStored, Announcing, Recording, Arg
<1> QED BY <1>5, <1>6, <1>7, <1>8, <1>9, <1>10, <1>11, <1>12, <1>13

\* A folder or endpoint command reads config.json, under no lock.
LEMMA LoadConfigKeeps ==
    ASSUME IdentitySound, NEW p \in Procs, LoadConfig(p)
    PROVE  IdentitySound'
<1>1. PICK c \in {config, EmptyConfig} :
          /\ faults' = IF c = config THEN faults ELSE faults + 1
          /\ faults' <= MaxFaults
          /\ proc' = [proc EXCEPT ![p] =
                        IF Refused(c, Cmd(p), Arg(p)) THEN Idle
                        ELSE [@ EXCEPT !.pc = "saveConfig", !.stale = (c # config),
                                       !.cfg = Changed(c, Cmd(p), Arg(p))]]
  BY DEF LoadConfig
<1>2. /\ faults' \in 0 .. MaxFaults /\ started' \in 0 .. MaxCommands
      /\ UNCHANGED <<config, bundle, server, identityLock, registrationLock,
                     credentialsLock, minted, clobbered, started>>
  BY <1>1, IdentityAssumption DEF LoadConfig, IdentitySound, TypeOK
<1>3. CASE Refused(c, Cmd(p), Arg(p))
  BY <1>1, <1>2, <1>3, EndKeeps
<1>4. CASE ~Refused(c, Cmd(p), Arg(p))
  <2>1. proc[p].pc = "loadConfig"
    BY DEF LoadConfig
  <2> QED BY <1>1, <1>2, <1>4, <2>1, EditConfigKeeps DEF EditConfig
<1> QED BY <1>3, <1>4

-----------------------------------------------------------------------------
(* The theorems *)

\* IdentitySound holds at the start and every step keeps it.
LEMMA IdentityInductive ==
    /\ Init => IdentitySound
    /\ IdentitySound /\ [Next]_vars => IdentitySound'
<1>1. Init => IdentitySound
  <2> SUFFICES ASSUME Init PROVE IdentitySound
    OBVIOUS
  <2> USE IdentityAssumption, RecordAssumption
  <2>1. \A p \in Procs : proc[p] = Idle
    BY DEF Init
  <2>2. TypeOK
    <3>1. config \in Config
      BY DEF Init, EmptyConfig, Foreign, Config, Identity
    <3>2. bundle \in Bundle
      BY DEF Init, EmptyBundle, Bundle
    <3>3. Idle \in Process
      BY DEF Idle, Process, Labels, Edits
    <3>4. proc \in [Procs -> Process]
      BY <3>3 DEF Init
    <3>5. server \in [Endpoints -> [0 .. MaxIds -> Names \cup {None}]]
      BY DEF Init
    <3>6. clobbered \in BOOLEAN
      BY DEF Init
    <3> QED BY <3>1, <3>2, <3>4, <3>5, <3>6 DEF Init, TypeOK
  <2>3. \A p \in Procs : proc[p].pc = "idle"
    <3>1. Idle.pc = "idle"
      BY DEF Idle
    <3> QED BY <2>1, <3>1
  <2>4. \A p \in Procs : CommandAt(p) /\ LocalsAt(p) /\ LocksAt(p) /\ CopyAt(p) /\ UnsavedUnknown(p)
    <3>1. \A p \in Procs : ~Holds(p) /\ ~Proving(p) /\ ~Announcing(p) /\ ~Recording(p)
      BY <2>3 DEF Holds, Proving, Announcing, Recording
    <3> QED BY <2>1, <2>3, <3>1 DEF CommandAt, LocalsAt, LocksAt, CopyAt, UnsavedUnknown
  <2>5. IdsDrawn
    BY <2>1 DEF Init, Idle, EmptyBundle, IdsDrawn
  <2>6. HeldIsSaved
    BY <2>1 DEF Idle, HeldIsSaved, Holds, Proving
  <2>7. RegistrationStored
    <3>1. config.machine # None => config.machine.id \in 0 .. MaxIds
      BY <2>2 DEF TypeOK, Config, Identity
    <3> QED BY <2>1, <3>1 DEF Init, Idle, RegistrationStored, Announcing, Recording
  <2> QED BY <2>2, <2>4, <2>5, <2>6, <2>7 DEF IdentitySound
<1>2. IdentitySound /\ [Next]_vars => IdentitySound'
  <2> SUFFICES ASSUME IdentitySound, [Next]_vars PROVE IdentitySound'
    OBVIOUS
  <2>1. CASE UNCHANGED vars
    <3>1. TypeOK'
      BY <2>1 DEF vars, IdentitySound, TypeOK
    <3>2. ASSUME NEW p \in Procs PROVE (CommandAt(p) /\ LocalsAt(p) /\ LocksAt(p))'
      <4>1. CommandAt(p)'
        BY <2>1 DEF vars, IdentitySound, CommandAt, Proving, Announcing, Recording, Cmd
      <4>2. LocalsAt(p)'
        BY <2>1 DEF vars, IdentitySound, LocalsAt, Holds, Proving, Announcing, Recording
      <4>3. LocksAt(p)'
        BY <2>1 DEF vars, IdentitySound, LocksAt, Proving, Announcing, Recording, Cmd, Arg
      <4> QED BY <4>1, <4>2, <4>3
    <3>3. ASSUME NEW p \in Procs PROVE (CopyAt(p) /\ UnsavedUnknown(p))'
      BY <2>1 DEF vars, IdentitySound, CopyAt, UnsavedUnknown, Holds, Proving
    <3>4. (IdsDrawn /\ HeldIsSaved)'
      BY <2>1 DEF vars, IdentitySound, IdsDrawn, HeldIsSaved, Holds, Proving
    <3>5. RegistrationStored'
      BY <2>1 DEF vars, IdentitySound, RegistrationStored, Announcing, Recording, Arg
    <3> QED BY <3>1, <3>2, <3>3, <3>4, <3>5 DEF IdentitySound
  <2>2. CASE \E p \in Procs : \E c \in Command : Begin(p, c)
    BY <2>2, BeginKeeps
  <2>3. CASE \E p \in Procs : Die(p)
    BY <2>3, DieKeeps
  <2>4. ASSUME NEW p \in Procs, Step(p) PROVE IdentitySound'
    <3>1. CASE LoadIdentity(p)
      BY <3>1, LoadProvenKeeps, MakeIdentityKeeps
    <3>2. CASE LockRegistration(p)
      BY <3>2, ResumeKeeps, AnnounceKeeps
    <3> QED BY <2>4, <3>1, <3>2, SaveIdentityKeeps, ReloadConfigKeeps, ReportKeeps,
               LeaveIdentityKeeps, CallKeeps, LoadBundleKeeps, SaveBundleKeeps,
               LoadConfigKeeps, SaveConfigKeeps DEF Step
  <2> QED BY <2>1, <2>2, <2>3, <2>4 DEF Next
<1> QED BY <1>1, <1>2

\* IdentitySound holds in every state of Spec.
THEOREM IdentityInvariant == Spec => []IdentitySound
BY IdentityInductive, PTL DEF Spec

\* The two files, the locks and the processes always have their types.
THEOREM IdentityTyped == Spec => []TypeOK
<1>1. IdentitySound => TypeOK
  BY DEF IdentitySound
<1> QED BY <1>1, IdentityInvariant, PTL

\* All commands that hold an identity hold the one that config.json and the proof name,
\* unless a save without the lock put back another machine section; and no server is
\* asked to register the identity of a copied config.
THEOREM OneIdentityAlways == Spec => []OneIdentity
<1>1. IdentitySound => OneIdentity
  <2> SUFFICES ASSUME IdentitySound PROVE OneIdentity
    OBVIOUS
  <2> USE IdentityAssumption, RecordAssumption
  <2>1. \A e \in Endpoints : server[e][0] = None
    BY DEF IdentitySound, TypeOK, IdsDrawn
  <2>2. ~clobbered => \A p \in Procs : Holds(p) =>
            /\ config.machine # None
            /\ config.machine.id = proc[p].ident.id
            /\ bundle.proof = proc[p].ident.id
    BY DEF IdentitySound, HeldIsSaved
  <2> QED BY <2>1, <2>2 DEF OneIdentity
<1> QED BY <1>1, IdentityInvariant, PTL

\* A registration that a server accepted for the present identity is known locally, with
\* the very request the server knows.
THEOREM RegistrationRememberedAlways == Spec => []RegistrationRemembered
<1>1. IdentitySound => RegistrationRemembered
  <2> SUFFICES ASSUME IdentitySound, ~clobbered, config.machine # None, NEW e \in Endpoints,
                      server[e][config.machine.id] # None
               PROVE  /\ RegistrationState(e, config.machine) # "unregistered"
                      /\ Accepts(e, bundle.registrations[e].request)
    BY DEF RegistrationRemembered
  <2>1. /\ bundle.registrations[e] \in Registration
        /\ bundle.registrations[e].installation = config.machine.id
        /\ bundle.registrations[e].request.name = server[e][config.machine.id]
    BY DEF IdentitySound, RegistrationStored
  <2>2. bundle.registrations[e] # None
    BY <2>1, RecordAssumption
  <2>3. bundle.registrations[e].request.id = config.machine.id
    BY <2>1, <2>2 DEF IdentitySound, IdsDrawn
  <2> QED BY <2>1, <2>2, <2>3 DEF RegistrationState, Accepts
<1> QED BY <1>1, IdentityInvariant, PTL

\* A save of credentials.json changes one section and loses nothing another process saved.
THEOREM CredentialsKeptAlways == Spec => CredentialsKept
<1> DEFINE Kept ==
      \/ bundle'.registrations = bundle.registrations /\ bundle'.keys = bundle.keys
      \/ bundle'.proof = bundle.proof /\ bundle'.keys = bundle.keys
           /\ \E e \in Endpoints : \A d \in Endpoints \ {e} :
                bundle'.registrations[d] = bundle.registrations[d]
      \/ bundle'.proof = bundle.proof /\ bundle'.registrations = bundle.registrations
           /\ \E e \in Endpoints :
                bundle'.keys \ {e} = bundle.keys \ {e}
<1>1. IdentitySound /\ [Next]_vars => [Kept]_vars
  <2> SUFFICES ASSUME IdentitySound, Next PROVE Kept
    OBVIOUS
  <2>1. CASE UNCHANGED bundle
    BY <2>1
  <2>2. ASSUME NEW p \in Procs, SaveBundle(p) PROVE Kept
    <3>1. CASE proc[p].edit = "proof"
      BY <2>2, <3>1, EditedShape
    <3>2. CASE proc[p].edit \in {"pending", "registered"}
      <4>1. bundle.registrations \in [Endpoints -> Registration \cup {None}]
        BY DEF IdentitySound, TypeOK, Bundle
      <4> QED BY <2>2, <3>2, <4>1, EditedShape
    <3>3. CASE proc[p].edit \in {"login", "logout"}
      BY <2>2, <3>3, EditedShape
    <3> QED BY <2>2, <3>1, <3>2, <3>3, EditedShape
  <2>3. ASSUME NEW p \in Procs, NEW c \in Command, Begin(p, c) PROVE UNCHANGED bundle
    BY <2>3 DEF Begin
  <2>4. ASSUME NEW p \in Procs, Die(p) PROVE UNCHANGED bundle
    BY <2>4 DEF Die
  <2>5. ASSUME NEW p \in Procs, Step(p), ~SaveBundle(p) PROVE UNCHANGED bundle
    <3>1. CASE LoadIdentity(p) \/ SaveIdentity(p) \/ ReloadConfig(p) \/ Report(p)
      BY <3>1 DEF LoadIdentity, SaveIdentity, ReloadConfig, Report
    <3>2. CASE LeaveIdentity(p) \/ LockRegistration(p) \/ Call(p)
      BY <3>2 DEF LeaveIdentity, LockRegistration, Call
    <3>3. CASE LoadBundle(p) \/ LoadConfig(p) \/ SaveConfig(p)
      BY <3>3 DEF LoadBundle, LoadConfig, SaveConfig
    <3> QED BY <2>5, <3>1, <3>2, <3>3 DEF Step
  <2> QED BY <2>1, <2>2, <2>3, <2>4, <2>5 DEF Next
<1> QED BY <1>1, IdentityInvariant, PTL DEF Spec, CredentialsKept

\* A command whose own copy of config.json nobody has overtaken and which read the file
\* right changes the section it is about and no other when it saves the file whole.
THEOREM ConfigKeptAlways == Spec => ConfigKeptUnlessOvertaken
<1> DEFINE Kept ==
        \/ UNCHANGED config
        \/ \E p \in Procs : /\ Saves(p)
                            /\ proc[p].stale \/ OwnSection(proc[p].job, config, config')
<1>1. IdentitySound /\ [Next]_vars => [Kept]_vars
  <2> SUFFICES ASSUME IdentitySound, Next PROVE Kept
    OBVIOUS
  <2>1. ASSUME NEW p \in Procs, SaveIdentity(p) \/ SaveConfig(p) PROVE Kept
    <3>1. /\ proc[p].pc \in {"saveIdentity", "saveConfig"}
          /\ config' = proc[p].cfg /\ proc'[p].cfg = None
      <4>1. CASE SaveIdentity(p)
        <5>1. proc[p] \in Process
          BY DEF IdentitySound, TypeOK
        <5>2. proc'[p] = [proc[p] EXCEPT !.pc = "loadBundle", !.edit = "proof",
                                         !.cfg = None, !.stale = FALSE]
          BY <4>1 DEF SaveIdentity
        <5>3. proc'[p].cfg = None
          BY <5>1, <5>2 DEF Process
        <5> QED BY <4>1, <5>3 DEF SaveIdentity
      <4>2. CASE SaveConfig(p)
        BY <4>2 DEF SaveConfig, Idle
      <4> QED BY <2>1, <4>1, <4>2
    <3>2. Saves(p)
      BY <3>1, RecordAssumption DEF Saves, IdentitySound, LocalsAt
    <3>3. proc[p].stale \/ OwnSection(proc[p].job, config, config')
      BY <3>1 DEF IdentitySound, CopyAt
    <3> QED BY <3>2, <3>3
  <2>2. ASSUME NEW p \in Procs, NEW c \in Command, Begin(p, c) PROVE UNCHANGED config
    BY <2>2 DEF Begin
  <2>3. ASSUME NEW p \in Procs, Die(p) PROVE UNCHANGED config
    BY <2>3 DEF Die
  <2>4. ASSUME NEW p \in Procs, Step(p), ~SaveIdentity(p), ~SaveConfig(p)
        PROVE  UNCHANGED config
    <3>1. CASE LoadIdentity(p) \/ ReloadConfig(p) \/ Report(p) \/ LeaveIdentity(p)
      BY <3>1 DEF LoadIdentity, ReloadConfig, Report, LeaveIdentity
    <3>2. CASE LockRegistration(p) \/ Call(p)
      BY <3>2 DEF LockRegistration, Call
    <3>3. CASE LoadBundle(p) \/ SaveBundle(p) \/ LoadConfig(p)
      BY <3>3 DEF LoadBundle, SaveBundle, LoadConfig
    <3> QED BY <2>4, <3>1, <3>2, <3>3 DEF Step
  <2>5. UNCHANGED config => Kept
    OBVIOUS
  <2> HIDE DEF Kept
  <2>6. PICK p \in Procs : (\E c \in Command : Begin(p, c)) \/ Step(p) \/ Die(p)
    BY DEF Next
  <2> QED BY <2>1, <2>2, <2>3, <2>4, <2>5, <2>6
<1> QED BY <1>1, IdentityInvariant, PTL DEF Spec, ConfigKeptUnlessOvertaken
=============================================================================
