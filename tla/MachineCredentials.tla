------------------------- MODULE MachineCredentials -------------------------
(***************************************************************************)
(* The life of a machine's key on the ctxfs server: registration under a   *)
(* one-use enrollment key, rotation in two calls, revocation               *)
(* (MachineCredentialCoordinator in src/ctxfs/enrollment.py, over the      *)
(* tables of src/ctxfs/credentials.py and src/ctxfs/store.py), behind the  *)
(* authentication of src/ctxd/local_ctxfs_server.py.                       *)
(*                                                                         *)
(*   row, bound   the catalog database: the machines table, and its        *)
(*                credential_key_id                                        *)
(*   creds, uses  the credential database: keys, and the ledger of         *)
(*                enrollments                                              *)
(*   txn          what the open transaction makes of creds and uses        *)
(*                                                                         *)
(* The credential database is locked for the whole of a call (BEGIN        *)
(* IMMEDIATE) and commits at its end; each catalog statement commits by    *)
(* itself, before.  A call that dies in between leaves the two apart.      *)
(* Authentication reads both without the lock, so a request may be stale   *)
(* by the time it is served.  machine_id and local_registration_id are one *)
(* to one, and both are a member of Machines here.  Whoever ever received  *)
(* a token may use it; keys have no expiry here.                           *)
(***************************************************************************)
EXTENDS Naturals, FiniteSets

CONSTANTS
    Machines,       \* local registration ids
    Keys,           \* key ids of machine keys
    Enrollments,    \* key ids of enrollment keys
    Metas,          \* what else a registration request says (name, platform, ...)
    Admin,          \* the principal with the admin scope
    Sessions,       \* requests the server works on at once
    None,
    MaxRequests,    \* bound on requests
    MaxFaults       \* bound on calls cut short

ASSUME CredentialsAssumption ==
    /\ Admin \notin Keys \cup Enrollments
    /\ Keys \cap Enrollments = {}
    /\ None \notin Keys \cup Enrollments \cup Metas \cup {Admin}
    /\ MaxRequests \in Nat /\ MaxFaults \in Nat

\* Credential: machine_id, revoked_at, replaced_by, rotation_from.
Credential == [machine : Machines, revoked : BOOLEAN,
               replaced_by : Keys \cup {None}, rotation_from : Keys \cup {None}]

\* A registration request, also as the row of the machines table that it made
\* and as the row of the ledger.
Registration == [by : Enrollments \cup {None}, meta : Metas]
Use          == [machine : Machines, meta : Metas]

Kinds == {"register", "prepare", "confirm", "revoke"}

Request == [kind : Kinds, who : Keys \cup Enrollments \cup {Admin}, machine : Machines,
            meta : Metas \cup {None}, key : Keys \cup {None},
            at : {"verified", "admitted", "catalog", "commit"}]

\* What a route takes: registration under an enrollment or by the admin, the other
\* routes from the admin or a machine key.
Arrivals ==
    [kind : {"register"}, who : Enrollments \cup {Admin}, machine : Machines,
     meta : Metas, key : {None}, at : {"verified"}]
    \cup [kind : {"prepare", "revoke"}, who : Keys \cup {Admin}, machine : Machines,
          meta : {None}, key : {None}, at : {"verified"}]
    \cup [kind : {"confirm"}, who : Keys \cup {Admin}, machine : Machines,
          meta : {None}, key : Keys, at : {"verified"}]

ASSUME NoneAssumption == None \notin Credential \cup Registration \cup Use \cup Request

VARIABLES
    row, bound, creds, uses, txn,
    sess,           \* session -> the request it works on
    issued,         \* key ids drawn so far (they are random and never repeat)
    via,            \* history: the enrollment under which a key was issued
    orphaned,       \* history: machines bound to a key whose transaction was lost
    asked,          \* history: registration requests received
    requests, faults

vars == <<row, bound, creds, uses, txn, sess, issued, via, orphaned, asked, requests, faults>>

-----------------------------------------------------------------------------
(***************************************************************************)
(* The two databases                                                       *)
(***************************************************************************)
Active(c, k) == c[k] # None /\ ~c[k].revoked

\* revoke_machine_key on several keys; COALESCE keeps an earlier successor.
Revoked(c, keys, by) ==
    [k \in Keys |->
        IF k \in keys /\ c[k] # None
        THEN [c[k] EXCEPT !.revoked = TRUE, !.replaced_by = IF @ = None THEN by ELSE @]
        ELSE c[k]]

\* issue_machine
WithKey(c, k, m, pred) ==
    [c EXCEPT ![k] = [machine |-> m, revoked |-> FALSE,
                      replaced_by |-> None, rotation_from |-> pred]]

\* machine_credentials: a key of the machine, and the active ones.
HasKey(c, m, k) == c[k] # None /\ c[k].machine = m
KeysOf(c, m) == {k \in Keys : Active(c, k) /\ c[k].machine = m}

\* Faulty variants of the loop that retires stale keys: the bound key is one of
\* them; there is no loop.
StaleKeysAll(c, m)  == KeysOf(c, m)
StaleKeysNone(c, m) == {}

\* Active keys of the machine that the catalog does not name.
StaleKeys(c, m) == KeysOf(c, m) \ {bound[m]}

\* Faulty variant: BEGIN DEFERRED.
UnlockedAlways == TRUE

\* BEGIN IMMEDIATE waits until no other call is in its transaction.
Unlocked == \A s \in Sessions : sess[s] # None => sess[s].at \in {"verified", "admitted"}

-----------------------------------------------------------------------------
(***************************************************************************)
(* Authentication                                                          *)
(***************************************************************************)

\* CredentialStore.verify: an enrollment is checked against the ledger later, a
\* machine key must be active and of the machine the request names.
Verify(s, q) ==
    /\ sess[s] = None
    /\ requests < MaxRequests
    /\ requests' = requests + 1
    /\ q.who \in Keys => q.who \in KeysOf(creds, q.machine)
    /\ sess' = [sess EXCEPT ![s] = q]
    /\ asked' = IF q.kind = "register"
                THEN asked \cup {[who |-> q.who, machine |-> q.machine, meta |-> q.meta]}
                ELSE asked
    /\ UNCHANGED <<row, bound, creds, uses, txn, issued, via, orphaned, faults>>

\* _machine_credential_is_admissible: a machine's key is the one the catalog
\* names; when it names none, the key may still finish a revocation.
Admissible(q) ==
    q.who \in Keys => \/ bound[q.machine] = q.who
                      \/ bound[q.machine] = None /\ q.kind = "revoke"

Admit(s) ==
    /\ sess[s] # None /\ sess[s].at = "verified"
    /\ sess' = [sess EXCEPT ![s] = IF Admissible(sess[s]) THEN [sess[s] EXCEPT !.at = "admitted"]
                                   ELSE None]
    /\ UNCHANGED <<row, bound, creds, uses, txn, issued, via, orphaned, asked, requests, faults>>

-----------------------------------------------------------------------------
(***************************************************************************)
(* register                                                                *)
(***************************************************************************)

\* Faulty variant: the ledger is not asked for what the key was used.
ConsumableAgain(q) == TRUE

\* consume_enrollment: unused, or used for this very request.
Consumable(q) ==
    q.who # Admin => uses[q.who] \in {None, [machine |-> q.machine, meta |-> q.meta]}

Authority(q) == IF q.who = Admin THEN None ELSE q.who

\* Faulty variant: a retry needs its entry in the ledger.
ReplayableFromLedger(q) ==
    LET r == row[q.machine]
    IN  r # None => /\ r.meta = q.meta
                    /\ q.who # Admin => r.by = q.who /\ uses[q.who] # None

\* register_machine for a registration that exists: the same authority (or none
\* on record and an entry in the ledger) and the same metadata.
Replayable(q) ==
    LET r == row[q.machine]
    IN  r # None => /\ r.meta = q.meta
                    /\ q.who # Admin => \/ r.by = q.who
                                        \/ r.by = None /\ uses[q.who] # None

MayRegister(q) == Consumable(q) /\ Replayable(q)

\* The transaction begins; the catalog has the machine from here on.
RegisterMachine(s) ==
    LET q == sess[s]
        m == q.machine
    IN  /\ q # None /\ q.at = "admitted" /\ q.kind = "register" /\ Unlocked
        /\ MayRegister(q)
        /\ row' = [row EXCEPT ![m] =
               IF @ = None THEN [by |-> Authority(q), meta |-> q.meta]
               ELSE IF @.by = None THEN [@ EXCEPT !.by = Authority(q)] ELSE @]
        /\ txn' = [creds |-> creds,
                   uses  |-> IF q.who = Admin THEN uses
                             ELSE [uses EXCEPT ![q.who] = [machine |-> m, meta |-> q.meta]]]
        /\ sess' = [sess EXCEPT ![s].at = "catalog"]
        /\ UNCHANGED <<bound, creds, uses, issued, via, orphaned, asked, requests, faults>>

\* The machine's other keys are retired, a new one is issued, and the catalog
\* names it; it replaces the key named before, if that one exists.
BindIssued(s, k) ==
    LET q == sess[s]
        m == q.machine
    IN  /\ q # None /\ q.at = "catalog" /\ k \notin issued
        /\ txn' = [txn EXCEPT !.creds =
               Revoked(WithKey(Revoked(@, StaleKeys(@, m), None), k, m, None),
                       {j \in Keys : j = bound[m] /\ HasKey(creds, m, j)}, k)]
        /\ bound' = [bound EXCEPT ![m] = k]
        /\ issued' = issued \cup {k}
        /\ via' = [via EXCEPT ![k] = Authority(q)]
        /\ sess' = [sess EXCEPT ![s].at = "commit"]
        /\ UNCHANGED <<row, creds, uses, orphaned, asked, requests, faults>>

-----------------------------------------------------------------------------
(***************************************************************************)
(* prepare_rotation, confirm_rotation, revoke.  _require_current asks the  *)
(* catalog again, under the lock.                                          *)
(***************************************************************************)
Current(q) == row[q.machine] # None /\ (q.who = Admin \/ bound[q.machine] = q.who)

Prepare(s, k) ==
    LET q == sess[s]
        m == q.machine
    IN  /\ q # None /\ q.at = "admitted" /\ q.kind = "prepare" /\ Unlocked
        /\ Current(q)
        /\ k \notin issued
        /\ txn' = [creds |-> WithKey(Revoked(creds, StaleKeys(creds, m), None), k, m, bound[m]),
                   uses  |-> uses]
        /\ issued' = issued \cup {k}
        /\ sess' = [sess EXCEPT ![s].at = "commit"]
        /\ UNCHANGED <<row, bound, creds, uses, via, orphaned, asked, requests, faults>>

\* The replacement is an active key of the machine, prepared for the bound key.
MayConfirm(q) ==
    /\ Current(q)
    /\ bound[q.machine] \notin {q.key, None}
    /\ q.key \in KeysOf(creds, q.machine)
    /\ creds[q.key].rotation_from = bound[q.machine]

\* The catalog names the replacement, then the old key is revoked.  When the machine
\* has no such key that raises, and the catalog keeps the replacement.
Confirm(s) ==
    LET q   == sess[s]
        m   == q.machine
        old == bound[m]
    IN  /\ q # None /\ q.at = "admitted" /\ q.kind = "confirm" /\ Unlocked
        /\ MayConfirm(q)
        /\ bound' = [bound EXCEPT ![m] = q.key]
        /\ \/ /\ HasKey(creds, m, old)
              /\ txn' = [creds |-> Revoked(creds, {old}, q.key), uses |-> uses]
              /\ sess' = [sess EXCEPT ![s].at = "commit"]
           \/ /\ ~HasKey(creds, m, old)
              /\ sess' = [sess EXCEPT ![s] = None]
              /\ UNCHANGED txn
        /\ orphaned' = orphaned \ {m}
        /\ UNCHANGED <<row, creds, uses, issued, via, asked, requests, faults>>

\* The same confirmation again: the catalog already names the replacement, and
\* its predecessor is active and unreplaced, or replaced by it.
MayConfirmAgain(q) ==
    LET pred == creds[q.key].rotation_from
    IN  /\ Current(q)
        /\ bound[q.machine] = q.key
        /\ q.key \in KeysOf(creds, q.machine)
        /\ q.who \in {Admin, q.key}
        /\ pred # None
        /\ HasKey(creds, q.machine, pred)
        /\ IF creds[pred].revoked THEN creds[pred].replaced_by = q.key
                                  ELSE creds[pred].replaced_by = None

ConfirmAgain(s) ==
    LET q == sess[s]
    IN  /\ q # None /\ q.at = "admitted" /\ q.kind = "confirm" /\ Unlocked
        /\ MayConfirmAgain(q)
        /\ txn' = [creds |-> Revoked(creds, {creds[q.key].rotation_from}, q.key), uses |-> uses]
        /\ sess' = [sess EXCEPT ![s].at = "commit"]
        /\ UNCHANGED <<row, bound, creds, uses, issued, via, orphaned, asked, requests, faults>>

MayRevoke(q) ==
    LET b == bound[q.machine]
    IN  /\ row[q.machine] # None
        /\ q.who = Admin \/ b \in {q.who, None}
        /\ b # None => HasKey(creds, q.machine, b)

\* With a bound key, that key goes and the catalog names none; with none, a
\* revocation that was cut short is completed.
RevokeMachine(s) ==
    LET q == sess[s]
        m == q.machine
    IN  /\ q # None /\ q.at = "admitted" /\ q.kind = "revoke" /\ Unlocked
        /\ MayRevoke(q)
        /\ txn' = [creds |-> Revoked(creds, IF bound[m] = None THEN KeysOf(creds, m)
                                            ELSE {bound[m]}, None),
                   uses  |-> uses]
        /\ bound' = [bound EXCEPT ![m] = None]
        /\ sess' = [sess EXCEPT ![s].at = "commit"]
        /\ UNCHANGED <<row, creds, uses, issued, via, orphaned, asked, requests, faults>>

-----------------------------------------------------------------------------
\* The call raises before it changes anything, and its transaction is rolled back.
Refuse(s) ==
    LET q == sess[s]
    IN  /\ q # None /\ q.at = "admitted" /\ Unlocked
        /\ CASE q.kind = "register" -> ~MayRegister(q)
             [] q.kind = "prepare"  -> ~Current(q)
             [] q.kind = "confirm"  -> ~MayConfirm(q) /\ ~MayConfirmAgain(q)
             [] q.kind = "revoke"   -> ~MayRevoke(q)
        /\ sess' = [sess EXCEPT ![s] = None]
        /\ UNCHANGED <<row, bound, creds, uses, txn, issued, via, orphaned, asked, requests, faults>>

Commit(s) ==
    LET q == sess[s]
    IN  /\ q # None /\ q.at = "commit"
        /\ creds' = txn.creds /\ uses' = txn.uses
        /\ orphaned' = IF q.kind = "register" THEN orphaned \ {q.machine} ELSE orphaned
        /\ sess' = [sess EXCEPT ![s] = None]
        /\ UNCHANGED <<row, bound, txn, issued, via, asked, requests, faults>>

\* An exception or the death of the server inside a call, after its last catalog
\* statement that counts: the transaction is lost, the catalog is not.
Abort(s) ==
    LET q == sess[s]
    IN  /\ q # None /\ q.at \in {"catalog", "commit"}
        /\ faults < MaxFaults
        /\ faults' = faults + 1
        /\ orphaned' = IF q.kind = "register" /\ q.at = "commit"
                       THEN orphaned \cup {q.machine} ELSE orphaned
        /\ sess' = [sess EXCEPT ![s] = None]
        /\ UNCHANGED <<row, bound, creds, uses, txn, issued, via, asked, requests>>

Init ==
    /\ row = [m \in Machines |-> None] /\ bound = [m \in Machines |-> None]
    /\ creds = [k \in Keys |-> None] /\ uses = [e \in Enrollments |-> None]
    /\ txn = [creds |-> creds, uses |-> uses]
    /\ sess = [s \in Sessions |-> None]
    /\ issued = {} /\ via = [k \in Keys |-> None]
    /\ orphaned = {} /\ asked = {}
    /\ requests = 0 /\ faults = 0

Step(s) ==
    \/ \E q \in Arrivals : Verify(s, q)
    \/ Admit(s) \/ RegisterMachine(s)
    \/ \E k \in Keys : BindIssued(s, k) \/ Prepare(s, k)
    \/ Confirm(s) \/ ConfirmAgain(s) \/ RevokeMachine(s)
    \/ Refuse(s) \/ Commit(s) \/ Abort(s)

Next == \E s \in Sessions : Step(s)

Spec == Init /\ [][Next]_vars

-----------------------------------------------------------------------------
(***************************************************************************)
(* Properties                                                              *)
(***************************************************************************)

Tables(c, u) ==
    /\ c \in [Keys -> Credential \cup {None}]
    /\ u \in [Enrollments -> Use \cup {None}]

InTransaction(q) == q # None /\ q.at \in {"catalog", "commit"}

\* Types, and that calls are in their transactions one at a time.
TypeOK ==
    /\ row \in [Machines -> Registration \cup {None}]
    /\ bound \in [Machines -> Keys \cup {None}]
    /\ Tables(creds, uses)
    /\ DOMAIN txn = {"creds", "uses"} /\ Tables(txn.creds, txn.uses)
    /\ sess \in [Sessions -> Request \cup {None}]
    /\ issued \subseteq Keys
    /\ via \in [Keys -> Enrollments \cup {None}]
    /\ orphaned \subseteq Machines
    /\ \A s, t \in Sessions : InTransaction(sess[s]) /\ InTransaction(sess[t]) => s = t

\* A machine is in the middle of a registration that will commit its key.
Registering(m) ==
    \E s \in Sessions : /\ sess[s] # None /\ sess[s].at = "commit"
                        /\ sess[s].kind = "register" /\ sess[s].machine = m

\* The catalog never names a revoked key, and names a key that does not exist only
\* after a registration was cut short between the two commits: rotation,
\* revocation and their retries, cut short anywhere, lock no machine out.
NeverLockedOut ==
    \A m \in Machines : bound[m] # None =>
        \/ Active(creds, bound[m]) /\ creds[bound[m]].machine = m
        \/ creds[bound[m]] = None /\ (m \in orphaned \/ Registering(m))

\* Beside the key the catalog names, a machine has at most one other active key:
\* the replacement prepared for it, or the predecessor that an interrupted
\* confirmation left.  No key survives a second rotation unnoticed.
OneOtherKey ==
    \A m \in Machines : (bound[m] # None /\ creds[bound[m]] # None) =>
        /\ \A k \in KeysOf(creds, m) \ {bound[m]} :
               creds[k].rotation_from = bound[m] \/ creds[bound[m]].rotation_from = k
        /\ \A j, k \in KeysOf(creds, m) \ {bound[m]} : j = k

\* One use of an enrollment: whatever is retried and whatever was rolled back, all
\* keys ever issued under it belong to one machine.
EnrollmentSingleUse ==
    \A j, k \in Keys :
        (/\ creds[j] # None /\ creds[k] # None /\ via[j] = via[k] /\ via[j] # None)
            => creds[j].machine = creds[k].machine

\* A registration may always be retried: it is refused only if its enrollment or
\* its machine was named by a different request too.
RetryAccepted ==
    [][\A s \in Sessions :
          (/\ sess[s] # None /\ sess[s].at = "admitted" /\ sess[s].kind = "register"
           /\ sess'[s] = None)
          => \E other \in asked :
                 /\ other # [who |-> sess[s].who, machine |-> sess[s].machine,
                             meta |-> sess[s].meta]
                 /\ other.who = sess[s].who \/ other.machine = sess[s].machine]_vars

-----------------------------------------------------------------------------
(***************************************************************************)
(* The inductive invariant behind the three state properties above.  What  *)
(* it says of the committed keys it also says of those of the open         *)
(* transaction, so that a commit has nothing left to show.                 *)
(***************************************************************************)

\* Machine m under binding b and keys c: the bound key is live if it exists; a
\* replacement prepared for it leaves no third key; any other key is its
\* replacement or its predecessor.
KeysSound(b, c, m) ==
    b[m] # None =>
        /\ c[b[m]] # None => ~c[b[m]].revoked /\ c[b[m]].machine = m
        /\ \A r \in KeysOf(c, m) :
               c[r].rotation_from = b[m] => KeysOf(c, m) \subseteq {r, b[m]}
        /\ c[b[m]] # None =>
               \A k \in KeysOf(c, m) :
                   k = b[m] \/ c[k].rotation_from = b[m] \/ c[b[m]].rotation_from = k

\* Key ids are drawn before they are used.
Drawn(ids, c) ==
    \A k \in Keys : c[k] # None => /\ k \in ids /\ c[k].rotation_from \in ids \cup {None}
                                  /\ c[k].rotation_from # k

\* The ledger knows the machine of each key issued under an enrollment.
InLedger(v, c, u) ==
    \A k \in Keys : (c[k] # None /\ v[k] # None) =>
        u[v[k]] # None /\ u[v[k]].machine = c[k].machine

TablesSound(c, u) ==
    /\ \A m \in Machines : KeysSound(bound, c, m)
    /\ Drawn(issued, c) /\ InLedger(via, c, u)

\* What a request keeps to on its way.
WellFormed(q) ==
    /\ q.kind = "register" => q.who \in Enrollments \cup {Admin} /\ q.meta # None
    /\ q.kind = "confirm" => q.key # None

\* What the transaction of a call is about to commit.
TransactionSound(q) ==
    /\ TablesSound(txn.creds, txn.uses)
    /\ q.at = "catalog" =>
           /\ q.kind = "register" /\ txn.creds = creds
           /\ q.who # Admin => txn.uses[q.who] # None /\ txn.uses[q.who].machine = q.machine
    /\ q.at = "commit" =>
           \A m \in Machines : (bound[m] # None /\ txn.creds[bound[m]] = None) =>
               m \in orphaned /\ ~(q.kind = "register" /\ q.machine = m)

\* No machine is bound to a key that does not exist, unless a registration is about
\* to create it or one was lost.
BindingsKnown ==
    \A m \in Machines : (bound[m] # None /\ creds[bound[m]] = None) =>
        m \in orphaned \/ Registering(m)

\* The inductive invariant: types and the lock, sound tables before and after the
\* open transaction, ids that are never reused, and no lost binding unaccounted for.
CredentialsSound ==
    /\ TypeOK
    /\ TablesSound(creds, uses)
    /\ \A s \in Sessions : sess[s] # None => WellFormed(sess[s])
    /\ \A s \in Sessions : InTransaction(sess[s]) => TransactionSound(sess[s])
    /\ \A m \in Machines : bound[m] \in issued \cup {None}
    /\ \A k \in Keys : via[k] # None => k \in issued
    /\ BindingsKnown

=============================================================================
