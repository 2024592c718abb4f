-------------------------- MODULE WriterAuthority --------------------------
(***************************************************************************)
(* Who may write where: API keys and their grants (src/ctxfs/credentials.py*)
(* create, rotate, revoke), the authorization of a submission              *)
(* (src/ctxfs/auth.py, POST /api/ctxfs/submissions of                      *)
(* src/ctxd/local_ctxfs_server.py) and the registry of writers' prefixes   *)
(* in the store (register_prefix of src/ctxfs/store.py).  The writer of a  *)
(* submission is derived from the key and the granted prefix, and the      *)
(* registry never forgets a writer.                                        *)
(***************************************************************************)
EXTENDS Naturals, FiniteSets

CONSTANTS
    Keys,       \* key ids
    Prefixes,   \* normalized ctxfs paths
    Ancestors,  \* Ancestors[p]: the proper prefixes of p
    Threads,    \* the server's request threads
    Local,      \* the trusted peer of the Unix socket
    None

VARIABLES
    creds,      \* the credential table
    rotations,  \* rotations that have read the old key and not yet written
    registry,   \* writer_prefixes: <<writer, prefix>>
    request     \* the submission each thread is working on

vars == <<creds, rotations, registry, request>>

Scopes == {"read", "submit", "admin"}

Absent == [state |-> "absent", scopes |-> {}, prefixes |-> {}, replacedBy |-> None]

Idle == [pc |-> "idle", scopes |-> {}, prefixes |-> {}, writer |-> None]

-----------------------------------------------------------------------------
(* Credentials *)

\* _validate_grants for keys that are bound to no machine and enroll none.
ValidGrants(scopes, prefixes) ==
    /\ scopes # {}
    /\ prefixes # {} => "submit" \in scopes
    /\ "admin" \in scopes => scopes = {"admin"}

Issued(scopes, prefixes) ==
    [state |-> "live", scopes |-> scopes, prefixes |-> prefixes, replacedBy |-> None]

Create(k, scopes, prefixes) ==
    /\ creds[k].state = "absent"
    /\ \A r \in rotations : r.new # k
    /\ ValidGrants(scopes, prefixes)
    /\ creds' = [creds EXCEPT ![k] = Issued(scopes, prefixes)]
    /\ UNCHANGED <<rotations, registry, request>>

Revoke(k) ==
    /\ creds[k].state = "live"
    /\ creds' = [creds EXCEPT ![k].state = "revoked"]
    /\ UNCHANGED <<rotations, registry, request>>

\* rotate reads the old key and prepares its successor ...
BeginRotation(k, new) ==
    /\ creds[k].state = "live"
    /\ creds[new].state = "absent"
    /\ \A r \in rotations : r.new # new
    /\ rotations' = rotations \cup {[old |-> k, new |-> new]}
    /\ UNCHANGED <<creds, registry, request>>

\* ... and writes both in one transaction, unless the old key was revoked
\* or rotated in between.
EndRotation(r) ==
    /\ r \in rotations
    /\ rotations' = rotations \ {r}
    /\ creds' = IF creds[r.old].state = "live"
                  THEN [creds EXCEPT
                          ![r.new] = Issued(creds[r.old].scopes, creds[r.old].prefixes),
                          ![r.old].state = "revoked",
                          ![r.old].replacedBy = r.new]
                  ELSE creds
    /\ UNCHANGED <<registry, request>>

-----------------------------------------------------------------------------
(* A submission *)

Within(path, prefix) == path = prefix \/ prefix \in Ancestors[path]

Overlap(p, q) == Within(p, q) \/ Within(q, p)

\* authorize(principal, submit, path)
MaySubmit(scopes, prefixes, path) ==
    \/ "admin" \in scopes
    \/ "submit" \in scopes /\ \E g \in prefixes : Within(path, g)

\* _submission_prefix: the most specific grant; an admin's claim is taken.
GrantedPrefix(scopes, prefixes, path) ==
    IF "admin" \in scopes THEN path
    ELSE CHOOSE g \in prefixes : Within(path, g)
           /\ \A h \in prefixes : Within(path, h) => h \in Ancestors[g] \cup {g}

\* The middleware's principal, and the checks of the route on the claimed prefix.
Arrive(t, who, path) ==
    LET scopes   == IF who = Local THEN {"admin"} ELSE creds[who].scopes
        prefixes == IF who = Local THEN {} ELSE creds[who].prefixes
    IN  /\ request[t].pc = "idle"
        /\ who # Local => creds[who].state = "live"
        /\ MaySubmit(scopes, prefixes, path)
        /\ request' = [request EXCEPT ![t] =
                         [pc |-> "select", scopes |-> scopes, prefixes |-> prefixes,
                          writer |-> <<who, GrantedPrefix(scopes, prefixes, path)>>]]
        /\ UNCHANGED <<creds, rotations, registry>>

\* register_prefix: the registered prefixes are read before the transaction
\* has the write lock ...
Select(t) ==
    /\ request[t].pc = "select"
    /\ LET w       == request[t].writer
           overlap == \E e \in registry : e.writer # w /\ Overlap(w[2], e.prefix)
       IN  request' = [request EXCEPT ![t].pc = IF overlap THEN "refused" ELSE "insert"]
    /\ UNCHANGED <<creds, rotations, registry>>

\* ... and the writer is inserted, or is there already; then the store is
\* given the operations.
Insert(t) ==
    /\ request[t].pc = "insert"
    /\ registry' = registry \cup {[writer |-> request[t].writer,
                                   prefix |-> request[t].writer[2]]}
    /\ request' = [request EXCEPT ![t].pc = "accepted"]
    /\ UNCHANGED <<creds, rotations>>

Answer(t) ==
    /\ request[t].pc \in {"refused", "accepted"}
    /\ request' = [request EXCEPT ![t] = Idle]
    /\ UNCHANGED <<creds, rotations, registry>>

-----------------------------------------------------------------------------

Init ==
    /\ creds = [k \in Keys |-> Absent]
    /\ rotations = {}
    /\ registry = {}
    /\ request = [t \in Threads |-> Idle]

Next ==
    \/ \E k \in Keys, s \in SUBSET Scopes, p \in SUBSET Prefixes : Create(k, s, p)
    \/ \E k \in Keys : Revoke(k)
    \/ \E k, new \in Keys : BeginRotation(k, new)
    \/ \E r \in rotations : EndRotation(r)
    \/ \E t \in Threads :
         \/ \E who \in Keys \cup {Local}, path \in Prefixes : Arrive(t, who, path)
         \/ Select(t) \/ Insert(t) \/ Answer(t)

Spec == Init /\ [][Next]_vars

-----------------------------------------------------------------------------
(* Properties *)

\* A principal other than w's that may write under a prefix overlapping w's.
Rival(w) ==
    \/ w[1] # Local /\ \E e \in registry : e.writer[1] = Local /\ Overlap(w[2], e.prefix)
    \/ \E k \in Keys \ {w[1]} :
         /\ creds[k].state = "live"
         /\ \/ "admin" \in creds[k].scopes
            \/ \E g \in creds[k].prefixes : Overlap(w[2], g)

\* `keys rotate` replaces a key: the replacement has the same grants, so a
\* submission made with it is refused only when another principal may write
\* under the prefix too.
ReplacementKeyServed ==
    \A t \in Threads :
      /\ request[t].pc = "refused"
      /\ \E old \in Keys : creds[old].replacedBy = request[t].writer[1]
      => Rival(request[t].writer)
=============================================================================
