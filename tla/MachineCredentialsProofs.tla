---------------------- MODULE MachineCredentialsProofs ----------------------
(***************************************************************************)
(* Proofs about MachineCredentials: CredentialsSound is an invariant of    *)
(* Spec, and with it NeverLockedOut, OneOtherKey and EnrollmentSingleUse,  *)
(* for any number of machines, keys, sessions, requests and faults.        *)
(***************************************************************************)
EXTENDS MachineCredentials, TLAPS

CredentialTable == [Keys -> Credential \cup {None}]

-----------------------------------------------------------------------------
(***************************************************************************)
(* The credential table                                                    *)
(***************************************************************************)

\* revoke_machine_key changes which keys are revoked, and nothing else that the
\* invariant looks at.
LEMMA RevokedShape ==
    ASSUME NEW c \in CredentialTable, NEW S, NEW by \in Keys \cup {None}
    PROVE  /\ Revoked(c, S, by) \in CredentialTable
           /\ \A k \in Keys : /\ Revoked(c, S, by)[k] = None <=> c[k] = None
                              /\ k \notin S => Revoked(c, S, by)[k] = c[k]
                              /\ c[k] # None =>
                                    /\ Revoked(c, S, by)[k].machine = c[k].machine
                                    /\ Revoked(c, S, by)[k].rotation_from = c[k].rotation_from
                                    /\ k \in S => Revoked(c, S, by)[k].revoked
<1> DEFINE d == Revoked(c, S, by)
<1>1. \A k \in Keys : d[k] = IF k \in S /\ c[k] # None
                             THEN [c[k] EXCEPT !.revoked = TRUE,
                                               !.replaced_by = IF @ = None THEN by ELSE @]
                             ELSE c[k]
  BY DEF Revoked
<1>2. \A k \in Keys : (k \in S /\ c[k] # None) =>
          /\ d[k] \in Credential /\ d[k].revoked
          /\ d[k].machine = c[k].machine /\ d[k].rotation_from = c[k].rotation_from
  BY <1>1 DEF CredentialTable, Credential
<1>3. d \in CredentialTable
  BY <1>1, <1>2 DEF Revoked, CredentialTable
<1> QED BY <1>1, <1>2, <1>3, NoneAssumption

\* issue_machine adds one active key.
LEMMA WithKeyShape ==
    ASSUME NEW c \in CredentialTable, NEW k \in Keys, NEW m \in Machines,
           NEW pred \in Keys \cup {None}
    PROVE  /\ WithKey(c, k, m, pred) \in CredentialTable
           /\ \A j \in Keys \ {k} : WithKey(c, k, m, pred)[j] = c[j]
           /\ WithKey(c, k, m, pred)[k] # None
           /\ WithKey(c, k, m, pred)[k].machine = m
           /\ ~WithKey(c, k, m, pred)[k].revoked
           /\ WithKey(c, k, m, pred)[k].rotation_from = pred
<1> DEFINE new == [machine |-> m, revoked |-> FALSE, replaced_by |-> None, rotation_from |-> pred]
<1>1. new \in Credential /\ ~new.revoked
  BY DEF Credential
<1>2. new.machine = m /\ new.rotation_from = pred
  OBVIOUS
<1>3. WithKey(c, k, m, pred) = [c EXCEPT ![k] = new]
  BY DEF WithKey
<1> HIDE DEF new
<1>4. WithKey(c, k, m, pred) \in CredentialTable /\ WithKey(c, k, m, pred)[k] = new
  BY <1>1, <1>3 DEF CredentialTable
<1>5. \A j \in Keys \ {k} : WithKey(c, k, m, pred)[j] = c[j]
  BY <1>3 DEF CredentialTable
<1>6. new # None
  BY <1>1, NoneAssumption
<1> QED BY <1>1, <1>2, <1>4, <1>5, <1>6

\* Revoking keys that the catalog does not name keeps a machine's keys sound.
LEMMA RevokeKeeps ==
    ASSUME NEW c \in CredentialTable, NEW S, NEW by \in Keys \cup {None},
           NEW b \in [Machines -> Keys \cup {None}], NEW m \in Machines,
           KeysSound(b, c, m), b[m] \notin S \/ b[m] = None
    PROVE  KeysSound(b, Revoked(c, S, by), m)
<1> DEFINE d == Revoked(c, S, by)
<1>1. /\ \A k \in Keys : d[k] = None <=> c[k] = None
      /\ \A k \in Keys : k \notin S => d[k] = c[k]
      /\ \A k \in Keys : c[k] # None => /\ d[k].machine = c[k].machine
                                        /\ d[k].rotation_from = c[k].rotation_from
                                        /\ k \in S => d[k].revoked
  BY RevokedShape
<1> HIDE DEF d
<1>2. KeysOf(d, m) \subseteq KeysOf(c, m)
  BY <1>1 DEF KeysOf, Active
<1>3. KeysOf(c, m) \subseteq Keys /\ \A k \in KeysOf(c, m) : c[k] # None
  BY DEF KeysOf, Active
<1>4. SUFFICES ASSUME b[m] # None PROVE KeysSound(b, d, m)
  BY DEF KeysSound, d
<1>5. b[m] \in Keys /\ d[b[m]] = c[b[m]]
  BY <1>1, <1>4
<1> QED BY <1>1, <1>2, <1>3, <1>4, <1>5 DEF KeysSound

\* Revoking keeps the other two parts of TablesSound.
LEMMA RevokeKeepsRest ==
    ASSUME NEW c \in CredentialTable, NEW S, NEW by \in Keys \cup {None},
           NEW ids, NEW v, NEW u
    PROVE  /\ Drawn(ids, c) => Drawn(ids, Revoked(c, S, by))
           /\ InLedger(v, c, u) => InLedger(v, Revoked(c, S, by), u)
BY RevokedShape DEF Drawn, InLedger

\* Only its own binding matters to a machine's keys.
LEMMA OwnBinding ==
    ASSUME NEW b, NEW d, NEW c, NEW m \in Machines, b[m] = d[m], KeysSound(b, c, m)
    PROVE  KeysSound(d, c, m)
BY DEF KeysSound

\* Issuing a key that was never drawn keeps the keys of the other machines sound.
LEMMA IssueKeepsOthers ==
    ASSUME NEW c \in CredentialTable, NEW k \in Keys, NEW m \in Machines,
           NEW pred \in Keys \cup {None}, NEW b \in [Machines -> Keys \cup {None}],
           NEW n \in Machines \ {m}, b[n] # k, c[k] = None, KeysSound(b, c, n)
    PROVE  KeysSound(b, WithKey(c, k, m, pred), n)
<1> DEFINE d == WithKey(c, k, m, pred)
<1>1. (\A j \in Keys \ {k} : d[j] = c[j]) /\ d[k].machine = m
  BY WithKeyShape
<1> HIDE DEF d
<1>2. KeysOf(d, n) = KeysOf(c, n) /\ k \notin KeysOf(c, n) /\ KeysOf(c, n) \subseteq Keys
  BY <1>1 DEF KeysOf, Active
<1>3. b[n] # None => b[n] \in Keys /\ d[b[n]] = c[b[n]]
  BY <1>1
<1>4. KeysSound(b, d, n)
  BY <1>1, <1>2, <1>3 DEF KeysSound
<1> QED BY <1>4 DEF d

\* A new key whose predecessor was drawn keeps the other two parts.
LEMMA IssueKeepsRest ==
    ASSUME NEW c \in CredentialTable, NEW k \in Keys, NEW m \in Machines,
           NEW pred \in Keys \cup {None}, NEW ids, NEW v, NEW w, NEW u,
           pred \in ids \cup {None}, k \notin ids,
           \A j \in Keys \ {k} : w[j] = v[j],
           w[k] # None => u[w[k]] # None /\ u[w[k]].machine = m
    PROVE  /\ Drawn(ids, c) => Drawn(ids \cup {k}, WithKey(c, k, m, pred))
           /\ InLedger(v, c, u) => InLedger(w, WithKey(c, k, m, pred), u)
<1> DEFINE d == WithKey(c, k, m, pred)
<1>1. /\ \A j \in Keys \ {k} : d[j] = c[j]
      /\ d[k].machine = m /\ d[k].rotation_from = pred
  BY WithKeyShape
<1> HIDE DEF d
<1>2. Drawn(ids, c) => Drawn(ids \cup {k}, d)
  BY <1>1, CredentialsAssumption DEF Drawn
<1>3. InLedger(v, c, u) => InLedger(w, d, u)
  BY <1>1 DEF InLedger
<1> QED BY <1>2, <1>3 DEF d

-----------------------------------------------------------------------------
(***************************************************************************)
(* Sessions                                                                *)
(***************************************************************************)

\* No call is in its transaction when another takes the lock.
LEMMA UnlockedMeans ==
    ASSUME TypeOK, Unlocked
    PROVE  /\ \A s \in Sessions : ~InTransaction(sess[s])
           /\ \A m \in Machines : ~Registering(m)
BY DEF TypeOK, Unlocked, InTransaction, Registering

\* A request moves on: it stays what it was, and alone if it is in a transaction.
LEMMA SessionMoves ==
    ASSUME TypeOK, NEW s \in Sessions, sess[s] # None,
           NEW a \in {"verified", "admitted", "catalog", "commit"},
           sess' = [sess EXCEPT ![s].at = a],
           \/ a \notin {"catalog", "commit"}
           \/ \A t \in Sessions \ {s} : ~InTransaction(sess[t])
    PROVE  /\ sess' \in [Sessions -> Request \cup {None}]
           /\ \A t \in Sessions \ {s} : sess'[t] = sess[t]
           /\ sess'[s] # None /\ sess'[s].at = a
           /\ sess'[s].kind = sess[s].kind /\ sess'[s].who = sess[s].who
           /\ sess'[s].machine = sess[s].machine /\ sess'[s].meta = sess[s].meta
           /\ sess'[s].key = sess[s].key
           /\ \A t, r \in Sessions :
                  InTransaction(sess'[t]) /\ InTransaction(sess'[r]) => t = r
<1> DEFINE q == [sess[s] EXCEPT !.at = a]
<1>1. sess \in [Sessions -> Request \cup {None}] /\ sess[s] \in Request
  BY DEF TypeOK
<1>2. q \in Request /\ q.at = a /\ q.kind = sess[s].kind /\ q.who = sess[s].who
      /\ q.machine = sess[s].machine /\ q.meta = sess[s].meta /\ q.key = sess[s].key
  BY <1>1 DEF Request
<1>3. sess' = [sess EXCEPT ![s] = q]
  OBVIOUS
<1> HIDE DEF q
<1>4. sess' \in [Sessions -> Request \cup {None}] /\ sess'[s] = q
      /\ \A t \in Sessions \ {s} : sess'[t] = sess[t]
  BY <1>1, <1>2, <1>3
<1>5. q # None
  BY <1>2, NoneAssumption
<1>6. \A t, r \in Sessions : InTransaction(sess'[t]) /\ InTransaction(sess'[r]) => t = r
  BY <1>2, <1>4 DEF TypeOK, InTransaction
<1> QED BY <1>2, <1>4, <1>5, <1>6

\* A request is answered.
LEMMA SessionEnds ==
    ASSUME TypeOK, NEW s \in Sessions, sess' = [sess EXCEPT ![s] = None]
    PROVE  /\ sess' \in [Sessions -> Request \cup {None}]
           /\ \A t \in Sessions \ {s} : sess'[t] = sess[t]
           /\ sess'[s] = None
           /\ \A t, r \in Sessions :
                  InTransaction(sess'[t]) /\ InTransaction(sess'[r]) => t = r
BY DEF TypeOK, InTransaction

-----------------------------------------------------------------------------
(***************************************************************************)
(* Steps outside a transaction                                             *)
(***************************************************************************)

\* A step that changes one request, which is in no transaction before or after.
LEMMA QuietStep ==
    ASSUME CredentialsSound, NEW s \in Sessions,
           UNCHANGED <<row, bound, creds, uses, txn, issued, via, orphaned>>,
           sess' \in [Sessions -> Request \cup {None}],
           \A t \in Sessions \ {s} : sess'[t] = sess[t],
           ~InTransaction(sess[s]), ~InTransaction(sess'[s]),
           sess'[s] # None => WellFormed(sess'[s])
    PROVE  CredentialsSound'
<1>1. TypeOK'
  BY DEF CredentialsSound, TypeOK, Tables
<1>2. TablesSound(creds, uses)'
  BY DEF CredentialsSound, TablesSound
<1>3. \A t \in Sessions : sess'[t] # None => WellFormed(sess'[t])
  BY DEF CredentialsSound
<1>4. ASSUME NEW t \in Sessions, InTransaction(sess'[t])
      PROVE  TransactionSound(sess[t])'
  <2>1. t # s /\ sess'[t] = sess[t]
    BY <1>4
  <2>2. TransactionSound(sess[t])
    BY <1>4, <2>1 DEF CredentialsSound
  <2> QED BY <2>1, <2>2 DEF TransactionSound, TablesSound
<1>5. ASSUME NEW m \in Machines, Registering(m)
      PROVE  Registering(m)'
  BY <1>5 DEF Registering, InTransaction
<1>6. BindingsKnown'
  BY <1>5 DEF CredentialsSound, BindingsKnown
<1> QED BY <1>1, <1>2, <1>3, <1>4, <1>6 DEF CredentialsSound

\* Verify keeps CredentialsSound: the scopes of the routes make a request well formed.
LEMMA VerifyStep ==
    ASSUME CredentialsSound, NEW s \in Sessions, NEW q \in Arrivals, Verify(s, q)
    PROVE  CredentialsSound'
<1>0. q \in Request /\ q.at = "verified" /\ WellFormed(q)
  <2>1. CASE q.kind = "register"
    BY <2>1, CredentialsAssumption DEF Arrivals, Request, Kinds, WellFormed
  <2>2. CASE q.kind = "confirm"
    BY <2>2, CredentialsAssumption DEF Arrivals, Request, Kinds, WellFormed
  <2>3. CASE q.kind \in {"prepare", "revoke"}
    BY <2>3, CredentialsAssumption DEF Arrivals, Request, Kinds, WellFormed
  <2> QED BY <2>1, <2>2, <2>3 DEF Arrivals
<1>1. sess \in [Sessions -> Request \cup {None}]
  BY DEF CredentialsSound, TypeOK
<1>2. sess' \in [Sessions -> Request \cup {None}] /\ sess'[s] = q
      /\ \A t \in Sessions \ {s} : sess'[t] = sess[t]
  BY <1>0, <1>1 DEF Verify
<1>3. ~InTransaction(sess[s]) /\ ~InTransaction(q)
  BY <1>0 DEF Verify, InTransaction
<1> QED BY <1>0, <1>2, <1>3, QuietStep DEF Verify

\* Admit keeps CredentialsSound: it reads the catalog only.
LEMMA AdmitStep ==
    ASSUME CredentialsSound, NEW s \in Sessions, Admit(s)
    PROVE  CredentialsSound'
<1>1. TypeOK /\ sess \in [Sessions -> Request \cup {None}] /\ WellFormed(sess[s])
  BY DEF CredentialsSound, TypeOK, Admit
<1>2. ~InTransaction(sess[s])
  BY DEF Admit, InTransaction
<1>3. CASE Admissible(sess[s])
  <2>1. sess' = [sess EXCEPT ![s].at = "admitted"]
    BY <1>1, <1>3 DEF Admit
  <2>2. sess[s] # None
    BY DEF Admit
  <2>3. /\ sess' \in [Sessions -> Request \cup {None}]
        /\ \A t \in Sessions \ {s} : sess'[t] = sess[t]
        /\ sess'[s].at = "admitted"
        /\ sess'[s].kind = sess[s].kind /\ sess'[s].who = sess[s].who
        /\ sess'[s].meta = sess[s].meta /\ sess'[s].key = sess[s].key
    BY <1>1, <2>1, <2>2, SessionMoves
  <2>4. ~InTransaction(sess'[s]) /\ WellFormed(sess'[s])
    BY <1>1, <2>3 DEF InTransaction, WellFormed
  <2> QED BY <1>2, <2>3, <2>4, QuietStep DEF Admit
<1>4. CASE ~Admissible(sess[s])
  <2>1. sess' = [sess EXCEPT ![s] = None]
    BY <1>4 DEF Admit
  <2>2. /\ sess' \in [Sessions -> Request \cup {None}] /\ sess'[s] = None
        /\ \A t \in Sessions \ {s} : sess'[t] = sess[t]
    BY <1>1, <2>1, SessionEnds
  <2>3. ~InTransaction(sess'[s])
    BY <2>2 DEF InTransaction
  <2> QED BY <1>2, <2>2, <2>3, QuietStep DEF Admit
<1> QED BY <1>3, <1>4

\* Refuse keeps CredentialsSound: a call that raises first has changed nothing.
LEMMA RefuseStep ==
    ASSUME CredentialsSound, NEW s \in Sessions, Refuse(s)
    PROVE  CredentialsSound'
<1>1. TypeOK /\ sess' = [sess EXCEPT ![s] = None]
  BY DEF CredentialsSound, Refuse
<1>2. /\ sess' \in [Sessions -> Request \cup {None}] /\ sess'[s] = None
      /\ \A t \in Sessions \ {s} : sess'[t] = sess[t]
  BY <1>1, SessionEnds
<1>3. ~InTransaction(sess[s]) /\ ~InTransaction(sess'[s])
  BY <1>2 DEF InTransaction, Refuse
<1> QED BY <1>2, <1>3, QuietStep DEF Refuse

-----------------------------------------------------------------------------
(***************************************************************************)
(* Steps inside a transaction                                              *)
(***************************************************************************)

\* What is left of CredentialsSound when the step of a call to stage a has shown its
\* tables sound.
LEMMA ServedStep ==
    ASSUME CredentialsSound, NEW s \in Sessions, sess[s] # None, NEW a \in {"catalog", "commit"},
           sess' = [sess EXCEPT ![s].at = a],
           \A t \in Sessions \ {s} : ~InTransaction(sess[t]),
           row' \in [Machines -> Registration \cup {None}],
           bound' \in [Machines -> Keys \cup {None}], Tables(creds, uses)',
           DOMAIN txn' = {"creds", "uses"}, Tables(txn.creds, txn.uses)',
           issued' \subseteq Keys, via' \in [Keys -> Enrollments \cup {None}],
           orphaned' \subseteq Machines,
           TablesSound(creds, uses)', TransactionSound(sess[s])', BindingsKnown',
           \A m \in Machines : bound'[m] \in issued' \cup {None},
           \A k \in Keys : via'[k] # None => k \in issued'
    PROVE  CredentialsSound'
<1>1. TypeOK /\ WellFormed(sess[s])
  BY DEF CredentialsSound
<1>2. /\ sess' \in [Sessions -> Request \cup {None}]
      /\ \A t \in Sessions \ {s} : sess'[t] = sess[t]
      /\ sess'[s].kind = sess[s].kind /\ sess'[s].who = sess[s].who
      /\ sess'[s].meta = sess[s].meta /\ sess'[s].key = sess[s].key
      /\ \A t, r \in Sessions : InTransaction(sess'[t]) /\ InTransaction(sess'[r]) => t = r
  BY <1>1, SessionMoves
<1>3. TypeOK'
  BY <1>2 DEF TypeOK, Tables, InTransaction
<1>4. \A t \in Sessions : sess'[t] # None => WellFormed(sess'[t])
  <2>1. WellFormed(sess'[s])
    BY <1>1, <1>2 DEF WellFormed
  <2> QED BY <1>2, <2>1 DEF CredentialsSound
<1>5. \A t \in Sessions : InTransaction(sess'[t]) => TransactionSound(sess[t])'
  BY <1>2
<1> QED BY <1>3, <1>4, <1>5 DEF CredentialsSound, InTransaction

\* A registration's machine and metadata in the ledger, where its enrollment was
\* unused or used for the same, contradict no key that was issued.
LEMMA RegisterStep ==
    ASSUME CredentialsSound, NEW s \in Sessions, RegisterMachine(s)
    PROVE  CredentialsSound'
<1> DEFINE q == sess[s]
           m == q.machine
           use == [machine |-> m, meta |-> q.meta]
<1>1. TypeOK /\ q # None /\ q.at = "admitted" /\ q.kind = "register" /\ Unlocked
      /\ sess' = [sess EXCEPT ![s].at = "catalog"]
  BY DEF CredentialsSound, RegisterMachine
<1>2. q \in Request /\ WellFormed(q)
  BY <1>1 DEF CredentialsSound, TypeOK
<1>3. m \in Machines /\ q.meta \in Metas /\ q.who \in Enrollments \cup {Admin}
  BY <1>1, <1>2 DEF WellFormed, Request
<1>4. (\A t \in Sessions : ~InTransaction(sess[t])) /\ \A n \in Machines : ~Registering(n)
  BY <1>1, UnlockedMeans
<1>5. UNCHANGED <<bound, creds, uses, issued, via, orphaned>>
  BY DEF RegisterMachine
<1>6. use \in Use /\ use # None /\ use.machine = m
  BY <1>3, NoneAssumption DEF Use
<1>7. txn' = [creds |-> creds,
              uses |-> IF q.who = Admin THEN uses ELSE [uses EXCEPT ![q.who] = use]]
  BY DEF RegisterMachine
<1>8. q.who # Admin => uses[q.who] \in {None, use}
  BY DEF RegisterMachine, MayRegister, Consumable
<1>9. Tables(creds, uses) /\ TablesSound(creds, uses)
  BY <1>1 DEF CredentialsSound, TypeOK
<1>10. DOMAIN txn' = {"creds", "uses"} /\ txn'.creds = creds
  BY <1>7
<1>11. txn'.uses = IF q.who = Admin THEN uses ELSE [uses EXCEPT ![q.who] = use]
  BY <1>7
<1> HIDE DEF use
<1>12. /\ txn'.uses \in [Enrollments -> Use \cup {None}]
       /\ \A e \in Enrollments : e # q.who => txn'.uses[e] = uses[e]
       /\ q.who # Admin => txn'.uses[q.who] = use
  BY <1>3, <1>6, <1>9, <1>11 DEF Tables
<1>13. Tables(txn.creds, txn.uses)'
  BY <1>9, <1>10, <1>12 DEF Tables
<1>14. InLedger(via, creds, txn'.uses)
  <2>1. via \in [Keys -> Enrollments \cup {None}]
    BY <1>1 DEF TypeOK
  <2>2. InLedger(via, creds, uses)
    BY <1>9 DEF TablesSound
  <2>3. ASSUME NEW k \in Keys, creds[k] # None, via[k] # None
        PROVE  txn'.uses[via[k]] # None /\ txn'.uses[via[k]].machine = creds[k].machine
    <3>1. via[k] \in Enrollments /\ uses[via[k]] # None
          /\ uses[via[k]].machine = creds[k].machine
      BY <2>1, <2>2, <2>3 DEF InLedger
    <3>2. CASE via[k] = q.who
      <4>1. q.who # Admin
        BY <3>1, <3>2, CredentialsAssumption
      <4> QED BY <1>8, <1>12, <3>1, <3>2, <4>1
    <3> QED BY <1>12, <3>1, <3>2
  <2> QED BY <2>3 DEF InLedger
<1>15. TablesSound(creds, uses)' /\ TablesSound(txn.creds, txn.uses)'
  BY <1>5, <1>9, <1>10, <1>14 DEF TablesSound
<1>16. /\ sess'[s].at = "catalog" /\ sess'[s].kind = "register"
       /\ sess'[s].who = q.who /\ sess'[s].machine = m
  BY <1>1, <1>4, SessionMoves
<1>17. TransactionSound(sess[s])'
  BY <1>5, <1>6, <1>10, <1>12, <1>15, <1>16 DEF TransactionSound
<1>18. row' \in [Machines -> Registration \cup {None}]
  <2>1. row \in [Machines -> Registration \cup {None}]
    BY <1>1 DEF TypeOK
  <2>2. Authority(q) \in Enrollments \cup {None}
    BY <1>3 DEF Authority
  <2> DEFINE v == IF row[m] = None THEN [by |-> Authority(q), meta |-> q.meta]
                  ELSE IF row[m].by = None THEN [row[m] EXCEPT !.by = Authority(q)]
                  ELSE row[m]
  <2>3. v \in Registration
    BY <1>3, <2>1, <2>2 DEF Registration
  <2>4. row' = [row EXCEPT ![m] = v]
    BY <1>3, <2>1 DEF RegisterMachine
  <2> HIDE DEF v
  <2> QED BY <1>3, <2>1, <2>3, <2>4
<1>19. BindingsKnown'
  BY <1>4, <1>5 DEF CredentialsSound, BindingsKnown
<1>20. Tables(creds, uses)' /\ bound' \in [Machines -> Keys \cup {None}] /\ issued' \subseteq Keys
       /\ via' \in [Keys -> Enrollments \cup {None}] /\ orphaned' \subseteq Machines
  BY <1>1, <1>5, <1>9 DEF TypeOK, Tables
<1>21. /\ \A n \in Machines : bound'[n] \in issued' \cup {None}
       /\ \A k \in Keys : via'[k] # None => k \in issued'
  BY <1>5 DEF CredentialsSound
<1> QED
  BY <1>1, <1>4, <1>10, <1>13, <1>15, <1>17, <1>18, <1>19, <1>20, <1>21, ServedStep

-----------------------------------------------------------------------------
\* Two machines are never bound to one key that exists.
LEMMA OneOwner ==
    ASSUME CredentialsSound, NEW m \in Machines, NEW k \in Keys,
           creds[k] # None, creds[k].machine = m
    PROVE  \A n \in Machines \ {m} : bound[n] # k
<1>1. TypeOK /\ TablesSound(creds, uses)
  BY DEF CredentialsSound
<1>2. \A n \in Machines : KeysSound(bound, creds, n)
  BY <1>1 DEF TablesSound
<1>3. \A n \in Machines : bound[n] = k => k # None /\ creds[k].machine = n
  BY <1>2, CredentialsAssumption DEF KeysSound
<1> QED BY <1>3

\* Retiring the stale keys of a machine leaves it the key the catalog names at most,
\* and takes no key the catalog names.
LEMMA RetireStale ==
    ASSUME CredentialsSound, NEW m \in Machines, NEW c, c = Revoked(creds, StaleKeys(creds, m), None)
    PROVE  /\ c \in CredentialTable
           /\ \A n \in Machines : KeysSound(bound, c, n)
           /\ Drawn(issued, c) /\ InLedger(via, c, uses)
           /\ KeysOf(c, m) \subseteq {bound[m]}
           /\ \A k \in Keys : c[k] = None <=> creds[k] = None
           /\ \A n \in Machines : bound[n] # None => c[bound[n]] = creds[bound[n]]
           /\ \A k \in Keys : c[k] # None => c[k].machine = creds[k].machine
           /\ \A u : InLedger(via, creds, u) => InLedger(via, c, u)
<1> DEFINE S == StaleKeys(creds, m)
<1>1. creds \in CredentialTable /\ bound \in [Machines -> Keys \cup {None}]
  BY DEF CredentialsSound, TypeOK, Tables, CredentialTable
<1>2. /\ \A n \in Machines : KeysSound(bound, creds, n)
      /\ Drawn(issued, creds) /\ InLedger(via, creds, uses)
  BY DEF CredentialsSound, TablesSound
<1>3. \A k \in S : k \in Keys /\ creds[k] # None /\ creds[k].machine = m /\ k # bound[m]
  BY DEF StaleKeys, KeysOf, Active
<1> HIDE DEF S
<1>4. \A n \in Machines : bound[n] \notin S
  BY <1>3, OneOwner
<1>5. c = Revoked(creds, S, None)
  BY DEF S
<1>6. /\ c \in CredentialTable
      /\ \A k \in Keys : c[k] = None <=> creds[k] = None
      /\ \A k \in Keys : k \notin S => c[k] = creds[k]
      /\ \A k \in Keys : creds[k] # None => c[k].machine = creds[k].machine
      /\ \A k \in Keys : (creds[k] # None /\ k \in S) => c[k].revoked
  BY <1>1, <1>5, RevokedShape
<1>7. \A n \in Machines : KeysSound(bound, c, n)
  BY <1>1, <1>2, <1>4, <1>5, RevokeKeeps
<1>8. Drawn(issued, c) /\ (\A u : InLedger(via, creds, u) => InLedger(via, c, u))
  BY <1>1, <1>2, <1>5, RevokeKeepsRest
<1>9. KeysOf(c, m) \subseteq {bound[m]}
  <2>1. ASSUME NEW k \in KeysOf(c, m), k # bound[m] PROVE FALSE
    <3>1. k \in Keys /\ c[k] # None /\ ~c[k].revoked /\ c[k].machine = m
      BY <2>1 DEF KeysOf, Active
    <3>2. k \notin S /\ c[k] = creds[k]
      BY <1>6, <3>1
    <3>3. k \in StaleKeys(creds, m)
      BY <2>1, <3>1, <3>2 DEF StaleKeys, KeysOf, Active
    <3> QED BY <3>2, <3>3 DEF S
  <2> QED BY <2>1
<1>10. \A n \in Machines : bound[n] # None => c[bound[n]] = creds[bound[n]]
  BY <1>1, <1>4, <1>6
<1> QED BY <1>2, <1>6, <1>7, <1>8, <1>9, <1>10

\* Prepare keeps CredentialsSound: the replacement is the machine's only key beside the
\* one the catalog names.
LEMMA PrepareStep ==
    ASSUME CredentialsSound, NEW s \in Sessions, NEW k \in Keys, Prepare(s, k)
    PROVE  CredentialsSound'
<1> DEFINE q == sess[s]
           m == q.machine
           b == bound[m]
           c == Revoked(creds, StaleKeys(creds, m), None)
           d == WithKey(c, k, m, b)
<1>1. TypeOK /\ q # None /\ q.at = "admitted" /\ q.kind = "prepare" /\ Unlocked
      /\ sess' = [sess EXCEPT ![s].at = "commit"] /\ k \notin issued
      /\ issued' = issued \cup {k}
  BY DEF CredentialsSound, Prepare
<1>2. m \in Machines
  BY <1>1 DEF TypeOK, Request
<1>3. (\A t \in Sessions : ~InTransaction(sess[t])) /\ \A n \in Machines : ~Registering(n)
  BY <1>1, UnlockedMeans
<1>4. UNCHANGED <<row, bound, creds, uses, via, orphaned>>
  BY DEF Prepare
<1>5. txn' = [creds |-> d, uses |-> uses]
  BY DEF Prepare
<1>6. bound \in [Machines -> Keys \cup {None}] /\ b \in Keys \cup {None}
  BY <1>1, <1>2 DEF TypeOK
<1>7. b \in issued \cup {None} /\ (\A n \in Machines : bound[n] # k) /\ via[k] = None
      /\ \A n \in Machines : bound[n] \in issued \cup {None}
  BY <1>1, <1>2, CredentialsAssumption DEF CredentialsSound
<1>8. Tables(creds, uses) /\ TablesSound(creds, uses) /\ creds[k] = None
  BY <1>1 DEF CredentialsSound, TypeOK, TablesSound, Drawn
<1>9. /\ c \in CredentialTable
      /\ \A n \in Machines : KeysSound(bound, c, n)
      /\ Drawn(issued, c) /\ InLedger(via, c, uses)
      /\ KeysOf(c, m) \subseteq {b}
      /\ \A j \in Keys : c[j] = None <=> creds[j] = None
  BY <1>2, RetireStale
<1> HIDE DEF c
<1>10. /\ d \in CredentialTable
       /\ \A j \in Keys \ {k} : d[j] = c[j]
       /\ d[k] # None /\ d[k].machine = m /\ ~d[k].revoked /\ d[k].rotation_from = b
  BY <1>2, <1>6, <1>9, WithKeyShape
<1>11. Drawn(issued', d) /\ InLedger(via, d, uses)
  BY <1>1, <1>2, <1>6, <1>7, <1>9, IssueKeepsRest
<1>12. \A n \in Machines \ {m} : KeysSound(bound, d, n)
  BY <1>2, <1>6, <1>7, <1>8, <1>9, IssueKeepsOthers
<1> HIDE DEF d
<1>13. KeysOf(d, m) \subseteq {k, b}
  BY <1>9, <1>10 DEF KeysOf, Active
<1>14. KeysSound(bound, d, m)
  <2>1. SUFFICES ASSUME b # None PROVE KeysSound(bound, d, m)
    BY DEF KeysSound
  <2>2. b \in Keys \ {k} /\ d[b] = c[b]
    BY <1>2, <1>6, <1>7, <1>10, <2>1
  <2>3. d[b] # None => ~d[b].revoked /\ d[b].machine = m
    BY <1>2, <1>9, <2>1, <2>2 DEF KeysSound
  <2>4. \A r \in KeysOf(d, m) : d[r].rotation_from = b => r = k
    BY <1>11, <1>13, <2>2 DEF KeysOf, Active, Drawn
  <2> QED BY <1>10, <1>13, <2>3, <2>4 DEF KeysSound
<1>15. DOMAIN txn' = {"creds", "uses"} /\ txn'.creds = d /\ txn'.uses = uses
  BY <1>5
<1>16. TablesSound(txn.creds, txn.uses)'
  BY <1>4, <1>11, <1>12, <1>14, <1>15 DEF TablesSound
<1>17. TablesSound(creds, uses)'
  <2>1. Drawn(issued', creds)
    BY <1>1, <1>8 DEF TablesSound, Drawn
  <2> QED BY <1>4, <1>8, <2>1 DEF TablesSound
<1>18. Tables(txn.creds, txn.uses)'
  BY <1>8, <1>10, <1>15 DEF Tables, CredentialTable
<1>19. BindingsKnown'
  BY <1>3, <1>4 DEF CredentialsSound, BindingsKnown
<1>20. sess'[s].at = "commit" /\ sess'[s].kind = "prepare"
  BY <1>1, <1>3, SessionMoves
<1>21. \A n \in Machines : (bound[n] # None /\ d[bound[n]] = None) => n \in orphaned
  BY <1>3, <1>6, <1>7, <1>9, <1>10 DEF CredentialsSound, BindingsKnown
<1>22. TransactionSound(sess[s])'
  BY <1>4, <1>15, <1>16, <1>20, <1>21 DEF TransactionSound
<1>23. /\ row' \in [Machines -> Registration \cup {None}]
       /\ Tables(creds, uses)' /\ bound' \in [Machines -> Keys \cup {None}] /\ issued' \subseteq Keys
       /\ via' \in [Keys -> Enrollments \cup {None}] /\ orphaned' \subseteq Machines
  BY <1>1, <1>4, <1>8 DEF TypeOK, Tables
<1>24. /\ \A n \in Machines : bound'[n] \in issued' \cup {None}
       /\ \A j \in Keys : via'[j] # None => j \in issued'
  BY <1>1, <1>4 DEF CredentialsSound
<1> QED
  BY <1>1, <1>3, <1>15, <1>16, <1>17, <1>18, <1>19, <1>22, <1>23, <1>24, ServedStep

-----------------------------------------------------------------------------
\* BindIssued keeps CredentialsSound: the new key is the machine's only one once the
\* transaction commits, and no other machine's key was touched.
LEMMA BindIssuedStep ==
    ASSUME CredentialsSound, NEW s \in Sessions, NEW k \in Keys, BindIssued(s, k)
    PROVE  CredentialsSound'
<1> DEFINE q == sess[s]
           m == q.machine
           b == bound[m]
           c == Revoked(creds, StaleKeys(creds, m), None)
           d == WithKey(c, k, m, None)
           S == {j \in Keys : j = b /\ HasKey(creds, m, j)}
           e == Revoked(d, S, k)
<1>1. TypeOK /\ q # None /\ q.at = "catalog" /\ k \notin issued
      /\ sess' = [sess EXCEPT ![s].at = "commit"]
      /\ issued' = issued \cup {k} /\ bound' = [bound EXCEPT ![m] = k]
      /\ via' = [via EXCEPT ![k] = Authority(q)]
      /\ UNCHANGED <<row, creds, uses, orphaned>>
  BY DEF CredentialsSound, BindIssued
<1>2. m \in Machines /\ InTransaction(q)
  BY <1>1 DEF TypeOK, Request, InTransaction
<1>3. \A t \in Sessions \ {s} : ~InTransaction(sess[t])
  BY <1>1, <1>2 DEF TypeOK
<1>4. \A n \in Machines : ~Registering(n)
  BY <1>1, <1>3 DEF Registering, InTransaction
<1>5. /\ q.kind = "register" /\ txn.creds = creds /\ TablesSound(creds, txn.uses)
      /\ q.who # Admin => txn.uses[q.who] # None /\ txn.uses[q.who].machine = m
  BY <1>1, <1>2 DEF CredentialsSound, TransactionSound
<1>6. q.who \in Enrollments \cup {Admin} /\ Authority(q) \in Enrollments \cup {None}
  BY <1>1, <1>5 DEF CredentialsSound, WellFormed, Authority
<1>7. txn' = [txn EXCEPT !.creds = e]
  BY <1>5 DEF BindIssued
<1>8. bound \in [Machines -> Keys \cup {None}] /\ b \in Keys \cup {None}
      /\ via \in [Keys -> Enrollments \cup {None}]
      /\ Tables(creds, uses) /\ Tables(txn.creds, txn.uses) /\ DOMAIN txn = {"creds", "uses"}
  BY <1>1, <1>2 DEF TypeOK
<1>9. /\ \A n \in Machines : bound[n] \in issued \cup {None} /\ bound[n] # k
      /\ \A j \in Keys : via[j] # None => j \in issued
  BY <1>1, CredentialsAssumption DEF CredentialsSound
<1>10. TablesSound(creds, uses) /\ creds[k] = None
  BY <1>1 DEF CredentialsSound, TablesSound, Drawn
<1>11. InLedger(via, creds, txn.uses) /\ Drawn(issued, creds)
       /\ \A n \in Machines : KeysSound(bound, creds, n)
  BY <1>5 DEF TablesSound
<1>12. /\ bound' \in [Machines -> Keys \cup {None}] /\ bound'[m] = k
       /\ \A n \in Machines \ {m} : bound'[n] = bound[n]
       /\ via' \in [Keys -> Enrollments \cup {None}] /\ via'[k] = Authority(q)
       /\ \A j \in Keys \ {k} : via'[j] = via[j]
  BY <1>1, <1>2, <1>6, <1>8
<1>13. Authority(q) # None => txn.uses[Authority(q)] # None /\ txn.uses[Authority(q)].machine = m
  BY <1>5 DEF Authority
\* The committed tables under the new binding.
<1>14. TablesSound(creds, uses)'
  <2>1. KeysSound(bound', creds, m)
    BY <1>1, <1>10, <1>11, <1>12, CredentialsAssumption DEF KeysSound, Drawn, KeysOf, Active
  <2>2. \A n \in Machines \ {m} : KeysSound(bound', creds, n)
    BY <1>11, <1>12, OwnBinding
  <2>3. Drawn(issued', creds)
    BY <1>1, <1>11 DEF Drawn
  <2>4. InLedger(via', creds, uses)
    BY <1>10, <1>12 DEF TablesSound, InLedger
  <2> QED BY <1>1, <2>1, <2>2, <2>3, <2>4 DEF TablesSound
\* The tables of the transaction.
<1>15. /\ c \in CredentialTable
       /\ \A n \in Machines : KeysSound(bound, c, n)
       /\ Drawn(issued, c) /\ InLedger(via, c, txn.uses)
       /\ KeysOf(c, m) \subseteq {b}
       /\ \A j \in Keys : c[j] = None <=> creds[j] = None
       /\ \A j \in Keys : c[j] # None => c[j].machine = creds[j].machine
  BY <1>2, <1>11, RetireStale
<1> HIDE DEF c
<1>16. /\ d \in CredentialTable
       /\ \A j \in Keys \ {k} : d[j] = c[j]
       /\ d[k] # None /\ d[k].machine = m /\ ~d[k].revoked /\ d[k].rotation_from = None
  BY <1>2, <1>15, WithKeyShape
<1>17. Drawn(issued', d) /\ InLedger(via', d, txn.uses)
  <2>1. issued' = issued \cup {k} /\ k \notin issued
    BY <1>1
  <2>2. via'[k] # None => txn.uses[via'[k]] # None /\ txn.uses[via'[k]].machine = m
    BY <1>12, <1>13
  <2>3. \A j \in Keys \ {k} : via'[j] = via[j]
    BY <1>12
  <2>4. Drawn(issued \cup {k}, d) /\ InLedger(via', d, txn.uses)
    BY <1>2, <1>15, <2>1, <2>2, <2>3, IssueKeepsRest
  <2> QED BY <2>1, <2>4
<1>18. \A n \in Machines \ {m} : KeysSound(bound, d, n)
  BY <1>2, <1>8, <1>9, <1>10, <1>15, IssueKeepsOthers
<1> HIDE DEF d
<1>19. k \notin S /\ \A n \in Machines \ {m} : bound[n] \notin S
  BY <1>2, <1>10, OneOwner DEF HasKey
<1>20. \A j \in KeysOf(c, m) : j \in S
  BY <1>15 DEF KeysOf, Active, HasKey
<1> HIDE DEF S
<1>21. /\ e \in CredentialTable /\ e[k] = d[k]
       /\ \A j \in Keys : e[j] = None <=> d[j] = None
       /\ \A j \in Keys : j \notin S => e[j] = d[j]
       /\ \A j \in Keys : d[j] # None => e[j].machine = d[j].machine
       /\ \A j \in Keys : (d[j] # None /\ j \in S) => e[j].revoked
  BY <1>16, <1>19, RevokedShape
<1>22. Drawn(issued', e) /\ InLedger(via', e, txn.uses)
  BY <1>16, <1>17, RevokeKeepsRest
<1>23. \A n \in Machines \ {m} : KeysSound(bound', e, n)
  <2>1. \A n \in Machines \ {m} : KeysSound(bound, e, n)
    BY <1>8, <1>16, <1>18, <1>19, RevokeKeeps
  <2> QED BY <1>12, <2>1, OwnBinding
<1> HIDE DEF e
<1>24. KeysOf(e, m) \subseteq {k}
  <2>1. ASSUME NEW j \in KeysOf(e, m), j # k PROVE FALSE
    <3>1. j \in Keys /\ e[j] # None /\ ~e[j].revoked /\ e[j].machine = m
      BY <2>1 DEF KeysOf, Active
    <3>2. j \notin S /\ e[j] = d[j] /\ d[j] = c[j]
      BY <1>16, <1>21, <2>1, <3>1
    <3>3. j \in KeysOf(c, m)
      BY <3>1, <3>2 DEF KeysOf, Active
    <3> QED BY <1>20, <3>2, <3>3
  <2> QED BY <2>1
<1>25. KeysSound(bound', e, m)
  BY <1>12, <1>16, <1>21, <1>24 DEF KeysSound
<1>26. DOMAIN txn' = {"creds", "uses"} /\ txn'.creds = e /\ txn'.uses = txn.uses
  BY <1>7, <1>8
<1>27. TablesSound(txn.creds, txn.uses)'
  BY <1>22, <1>23, <1>25, <1>26 DEF TablesSound
<1>28. Tables(txn.creds, txn.uses)'
  BY <1>8, <1>21, <1>26 DEF Tables, CredentialTable
<1>29. sess'[s] # None /\ sess'[s].at = "commit" /\ sess'[s].kind = "register" /\ sess'[s].machine = m
  BY <1>1, <1>3, <1>5, SessionMoves
<1>30. \A n \in Machines \ {m} : (bound[n] # None /\ creds[bound[n]] = None) => n \in orphaned
  BY <1>4 DEF CredentialsSound, BindingsKnown
<1>31. BindingsKnown'
  BY <1>1, <1>12, <1>29, <1>30 DEF BindingsKnown, Registering
<1>32. \A n \in Machines : (bound'[n] # None /\ e[bound'[n]] = None) => n \in orphaned /\ n # m
  BY <1>8, <1>9, <1>12, <1>15, <1>16, <1>21, <1>30
<1>33. TransactionSound(sess[s])'
  BY <1>1, <1>26, <1>27, <1>29, <1>32 DEF TransactionSound
<1>34. /\ row' \in [Machines -> Registration \cup {None}]
       /\ Tables(creds, uses)' /\ issued' \subseteq Keys /\ orphaned' \subseteq Machines
  BY <1>1, <1>8 DEF TypeOK, Tables
<1>35. /\ \A n \in Machines : bound'[n] \in issued' \cup {None}
       /\ \A j \in Keys : via'[j] # None => j \in issued'
  BY <1>1, <1>9, <1>12
<1> QED
  BY <1>1, <1>3, <1>12, <1>14, <1>26, <1>27, <1>28, <1>31, <1>33, <1>34, <1>35, ServedStep

-----------------------------------------------------------------------------
\* Revoking keys that a binding b does not name keeps the tables sound under b.
LEMMA RevokedTables ==
    ASSUME CredentialsSound, NEW S, NEW by \in Keys \cup {None},
           NEW b \in [Machines -> Keys \cup {None}],
           \A n \in Machines : KeysSound(b, creds, n),
           \A n \in Machines : b[n] \notin S \/ b[n] = None
    PROVE  /\ Revoked(creds, S, by) \in CredentialTable
           /\ \A k \in Keys : Revoked(creds, S, by)[k] = None <=> creds[k] = None
           /\ \A n \in Machines : KeysSound(b, Revoked(creds, S, by), n)
           /\ Drawn(issued, Revoked(creds, S, by))
           /\ InLedger(via, Revoked(creds, S, by), uses)
<1>1. TablesSound(creds, uses) /\ creds \in CredentialTable
  BY DEF CredentialsSound, TypeOK, Tables, CredentialTable
<1>2. Drawn(issued, creds) /\ InLedger(via, creds, uses)
  BY <1>1 DEF TablesSound
<1>3. Revoked(creds, S, by) \in CredentialTable
      /\ \A k \in Keys : Revoked(creds, S, by)[k] = None <=> creds[k] = None
  BY <1>1, RevokedShape
<1>4. \A n \in Machines : KeysSound(b, Revoked(creds, S, by), n)
  BY <1>1, RevokeKeeps
<1>5. Drawn(issued, Revoked(creds, S, by)) /\ InLedger(via, Revoked(creds, S, by), uses)
  BY <1>1, <1>2, RevokeKeepsRest
<1> QED BY <1>3, <1>4, <1>5

\* A call that binds as bound' says and revokes keys that bound' does not name.
LEMMA RevokingStep ==
    ASSUME CredentialsSound, NEW s \in Sessions, sess[s] # None, sess[s].kind # "register", Unlocked,
           sess' = [sess EXCEPT ![s].at = "commit"],
           DOMAIN txn' = {"creds", "uses"}, txn'.uses = uses,
           txn'.creds \in CredentialTable,
           \A k \in Keys : txn'.creds[k] = None <=> creds[k] = None,
           \A n \in Machines : KeysSound(bound', txn'.creds, n),
           Drawn(issued, txn'.creds), InLedger(via, txn'.creds, uses),
           UNCHANGED <<row, creds, uses, issued, via>>,
           bound' \in [Machines -> Keys \cup {None}], orphaned' \subseteq Machines,
           \A n \in Machines : KeysSound(bound', creds, n),
           \A n \in Machines : bound'[n] \in issued \cup {None},
           \A n \in Machines : (bound'[n] # None /\ creds[bound'[n]] = None) => n \in orphaned'
    PROVE  CredentialsSound'
<1>1. TypeOK /\ TablesSound(creds, uses) /\ Tables(creds, uses)
  BY DEF CredentialsSound, TypeOK
<1>2. \A t \in Sessions : ~InTransaction(sess[t])
  BY <1>1, UnlockedMeans
<1>3. TablesSound(txn.creds, txn.uses)' /\ TablesSound(creds, uses)'
  BY <1>1 DEF TablesSound
<1>4. Tables(txn.creds, txn.uses)' /\ Tables(creds, uses)'
  BY <1>1 DEF Tables, CredentialTable
<1>5. sess'[s].at = "commit" /\ sess'[s].kind # "register"
  BY <1>1, <1>2, SessionMoves
<1>6. TransactionSound(sess[s])'
  BY <1>3, <1>5 DEF TransactionSound
<1>7. BindingsKnown'
  BY DEF BindingsKnown
<1>8. /\ row' \in [Machines -> Registration \cup {None}]
      /\ issued' \subseteq Keys /\ via' \in [Keys -> Enrollments \cup {None}]
  BY <1>1 DEF TypeOK
<1>9. /\ \A n \in Machines : bound'[n] \in issued' \cup {None}
      /\ \A k \in Keys : via'[k] # None => k \in issued'
  BY DEF CredentialsSound
<1> QED
  BY <1>2, <1>3, <1>4, <1>6, <1>7, <1>8, <1>9, ServedStep

\* What is left of CredentialsSound when the step that answers a call, the one in its
\* transaction if there is one, has shown the tables sound.
LEMMA AnsweredStep ==
    ASSUME CredentialsSound, NEW s \in Sessions, sess' = [sess EXCEPT ![s] = None],
           \A t \in Sessions \ {s} : ~InTransaction(sess[t]),
           UNCHANGED <<row, txn, issued, via>>,
           bound' \in [Machines -> Keys \cup {None}], orphaned' \subseteq Machines,
           Tables(creds, uses)', TablesSound(creds, uses)',
           \A n \in Machines : bound'[n] \in issued \cup {None},
           \A n \in Machines : (bound'[n] # None /\ creds'[bound'[n]] = None) => n \in orphaned'
    PROVE  CredentialsSound'
<1>1. TypeOK
  BY DEF CredentialsSound
<1>2. /\ sess' \in [Sessions -> Request \cup {None}] /\ sess'[s] = None
      /\ \A t \in Sessions \ {s} : sess'[t] = sess[t]
      /\ \A t, r \in Sessions : InTransaction(sess'[t]) /\ InTransaction(sess'[r]) => t = r
  BY <1>1, SessionEnds
<1>3. TypeOK'
  BY <1>1, <1>2 DEF TypeOK, Tables, InTransaction
<1>4. \A t \in Sessions : ~InTransaction(sess'[t])
  BY <1>2 DEF InTransaction
<1>5. \A t \in Sessions : sess'[t] # None => WellFormed(sess'[t])
  BY <1>2 DEF CredentialsSound
<1>6. BindingsKnown'
  BY DEF BindingsKnown
<1> QED BY <1>3, <1>4, <1>5, <1>6 DEF CredentialsSound, InTransaction

\* Confirm keeps CredentialsSound, whether or not the old key exists: the replacement is
\* the old key's only companion, so it takes the old key's place at once.
LEMMA ConfirmStep ==
    ASSUME CredentialsSound, NEW s \in Sessions, Confirm(s)
    PROVE  CredentialsSound'
<1> DEFINE q == sess[s]
           m == q.machine
           old == bound[m]
           r == q.key
<1>1. TypeOK /\ q # None /\ q.kind = "confirm" /\ Unlocked /\ MayConfirm(q)
      /\ bound' = [bound EXCEPT ![m] = r] /\ orphaned' = orphaned \ {m}
      /\ UNCHANGED <<row, creds, uses, issued, via>>
  BY DEF CredentialsSound, Confirm
<1>2. m \in Machines
  BY <1>1 DEF TypeOK, Request
<1>3. (\A t \in Sessions : ~InTransaction(sess[t])) /\ \A n \in Machines : ~Registering(n)
  BY <1>1, UnlockedMeans
<1>4. bound \in [Machines -> Keys \cup {None}] /\ Tables(creds, uses) /\ TablesSound(creds, uses)
      /\ orphaned \subseteq Machines
  BY <1>1 DEF CredentialsSound, TypeOK
<1>5. old # r /\ old \in Keys /\ r \in KeysOf(creds, m) /\ creds[r].rotation_from = old
  BY <1>1, <1>2, <1>4 DEF MayConfirm
<1>6. r \in Keys /\ creds[r] # None /\ ~creds[r].revoked /\ creds[r].machine = m
  BY <1>5 DEF KeysOf, Active
<1>7. KeysOf(creds, m) \subseteq {r, old}
  BY <1>2, <1>4, <1>5, CredentialsAssumption DEF TablesSound, KeysSound
<1>8. /\ bound' \in [Machines -> Keys \cup {None}] /\ bound'[m] = r
      /\ \A n \in Machines \ {m} : bound'[n] = bound[n]
  BY <1>1, <1>2, <1>4, <1>6
<1>9. KeysSound(bound', creds, m)
  <2>1. creds[r].rotation_from # r
    BY <1>4, <1>6 DEF TablesSound, Drawn
  <2>2. \A x \in KeysOf(creds, m) :
            creds[x].rotation_from = r => KeysOf(creds, m) \subseteq {x, r}
    BY <1>7, <2>1
  <2>3. \A k \in KeysOf(creds, m) : k = r \/ creds[r].rotation_from = k
    BY <1>5, <1>7
  <2> QED BY <1>6, <1>8, <2>2, <2>3 DEF KeysSound
<1>10. \A n \in Machines \ {m} : KeysSound(bound', creds, n)
  BY <1>4, <1>8, OwnBinding DEF TablesSound
<1>11. \A n \in Machines : bound'[n] \in issued \cup {None}
  BY <1>4, <1>6, <1>8 DEF CredentialsSound, TablesSound, Drawn
<1>12. \A n \in Machines : (bound'[n] # None /\ creds[bound'[n]] = None) => n \in orphaned'
  BY <1>1, <1>3, <1>6, <1>8 DEF CredentialsSound, BindingsKnown
<1>13. CASE HasKey(creds, m, old) /\ txn' = [creds |-> Revoked(creds, {old}, r), uses |-> uses]
            /\ sess' = [sess EXCEPT ![s].at = "commit"]
  <2>1. creds[old] # None /\ creds[old].machine = m
    BY <1>13 DEF HasKey
  <2>2. \A n \in Machines : bound'[n] \notin {old}
    BY <1>2, <1>5, <1>8, <1>13, <2>1, OneOwner
  <2>3. q # None /\ q.kind # "register" /\ orphaned' \subseteq Machines /\ r \in Keys \cup {None}
        /\ Unlocked /\ UNCHANGED <<row, creds, uses, issued, via>>
    BY <1>1, <1>4, <1>6
  <2>4. \A n \in Machines : KeysSound(bound', creds, n)
    BY <1>9, <1>10
  <2> DEFINE S == {old}
             d == Revoked(creds, S, r)
  <2>5. \A n \in Machines : bound'[n] \notin S \/ bound'[n] = None
    BY <2>2
  <2>6. txn' = [creds |-> d, uses |-> uses]
    BY <1>13, Zenon
  <2> HIDE DEF S
  <2>7. /\ d \in CredentialTable
        /\ \A k \in Keys : d[k] = None <=> creds[k] = None
        /\ \A n \in Machines : KeysSound(bound', d, n)
        /\ Drawn(issued, d) /\ InLedger(via, d, uses)
    BY <1>8, <2>3, <2>4, <2>5, RevokedTables
  <2> HIDE DEF d
  <2>8. DOMAIN txn' = {"creds", "uses"} /\ txn'.creds = d /\ txn'.uses = uses
    BY <2>6
  <2> QED BY <1>8, <1>11, <1>12, <1>13, <2>3, <2>4, <2>7, <2>8, RevokingStep
<1>14. CASE sess' = [sess EXCEPT ![s] = None] /\ UNCHANGED txn
  <2>1. Tables(creds, uses)'
    BY <1>1, <1>4 DEF Tables
  <2>2. TablesSound(creds, uses)'
    BY <1>1, <1>4, <1>9, <1>10 DEF TablesSound
  <2>3. orphaned' \subseteq Machines
    BY <1>1, <1>4
  <2> QED
    BY <1>1, <1>3, <1>8, <1>11, <1>12, <1>14, <2>1, <2>2, <2>3, AnsweredStep
<1> QED BY <1>13, <1>14 DEF Confirm

-----------------------------------------------------------------------------
\* ConfirmAgain keeps CredentialsSound: the predecessor it revokes is of the same machine,
\* so that no catalog entry names it.
LEMMA ConfirmAgainStep ==
    ASSUME CredentialsSound, NEW s \in Sessions, ConfirmAgain(s)
    PROVE  CredentialsSound'
<1> DEFINE q == sess[s]
           m == q.machine
           r == q.key
           pred == creds[r].rotation_from
           S == {pred}
           d == Revoked(creds, S, r)
<1>1. TypeOK /\ q # None /\ q.kind = "confirm" /\ Unlocked /\ MayConfirmAgain(q)
      /\ sess' = [sess EXCEPT ![s].at = "commit"]
      /\ UNCHANGED <<row, bound, creds, uses, issued, via, orphaned>>
  BY DEF CredentialsSound, ConfirmAgain
<1>2. txn' = [creds |-> d, uses |-> uses]
  BY Zenon DEF ConfirmAgain
<1>3. m \in Machines
  BY <1>1 DEF TypeOK, Request
<1>4. \A n \in Machines : ~Registering(n)
  BY <1>1, UnlockedMeans
<1>5. bound \in [Machines -> Keys \cup {None}] /\ TablesSound(creds, uses)
      /\ creds \in [Keys -> Credential \cup {None}] /\ orphaned \subseteq Machines
  BY <1>1 DEF CredentialsSound, TypeOK, Tables
<1>6. bound[m] = r /\ r \in KeysOf(creds, m) /\ pred # None /\ creds[pred] # None
      /\ creds[pred].machine = m
  BY <1>1 DEF MayConfirmAgain, HasKey
<1>7. r \in Keys /\ creds[r] \in Credential
  BY <1>5, <1>6 DEF KeysOf, Active
<1>8. pred \in Keys /\ pred # r
  BY <1>5, <1>6, <1>7, NoneAssumption DEF Credential, TablesSound, Drawn
<1>9. \A n \in Machines : bound[n] \notin S \/ bound[n] = None
  BY <1>3, <1>6, <1>8, OneOwner
<1>10. \A n \in Machines : KeysSound(bound, creds, n) /\ bound[n] \in issued \cup {None}
  BY <1>5 DEF TablesSound, CredentialsSound
<1> HIDE DEF S
<1>11. /\ d \in CredentialTable
       /\ \A k \in Keys : d[k] = None <=> creds[k] = None
       /\ \A n \in Machines : KeysSound(bound, d, n)
       /\ Drawn(issued, d) /\ InLedger(via, d, uses)
  BY <1>5, <1>7, <1>9, <1>10, RevokedTables
<1> HIDE DEF d
<1>12. DOMAIN txn' = {"creds", "uses"} /\ txn'.creds = d /\ txn'.uses = uses
  BY <1>2
<1>13. \A n \in Machines : (bound[n] # None /\ creds[bound[n]] = None) => n \in orphaned
  BY <1>4 DEF CredentialsSound, BindingsKnown
<1>14. q.kind # "register"
  BY <1>1
<1> QED BY <1>1, <1>5, <1>10, <1>11, <1>12, <1>13, <1>14, RevokingStep

\* RevokeMachine keeps CredentialsSound: the keys it revokes are of a machine that the
\* catalog no longer binds.
LEMMA RevokeMachineStep ==
    ASSUME CredentialsSound, NEW s \in Sessions, RevokeMachine(s)
    PROVE  CredentialsSound'
<1> DEFINE q == sess[s]
           m == q.machine
           S == IF bound[m] = None THEN KeysOf(creds, m) ELSE {bound[m]}
           d == Revoked(creds, S, None)
<1>1. TypeOK /\ q # None /\ q.kind = "revoke" /\ Unlocked /\ MayRevoke(q)
      /\ sess' = [sess EXCEPT ![s].at = "commit"] /\ bound' = [bound EXCEPT ![m] = None]
      /\ UNCHANGED <<row, creds, uses, issued, via, orphaned>>
  BY DEF CredentialsSound, RevokeMachine
<1>2. txn' = [creds |-> d, uses |-> uses]
  BY Zenon DEF RevokeMachine
<1>3. m \in Machines
  BY <1>1 DEF TypeOK, Request
<1>4. \A n \in Machines : ~Registering(n)
  BY <1>1, UnlockedMeans
<1>5. bound \in [Machines -> Keys \cup {None}] /\ TablesSound(creds, uses)
      /\ orphaned \subseteq Machines
  BY <1>1 DEF CredentialsSound, TypeOK
<1>6. /\ bound' \in [Machines -> Keys \cup {None}] /\ bound'[m] = None
      /\ \A n \in Machines \ {m} : bound'[n] = bound[n]
  BY <1>1, <1>3, <1>5
<1>7. \A k \in S : k \in Keys /\ creds[k] # None /\ creds[k].machine = m
  <2>1. CASE bound[m] = None
    BY <2>1 DEF KeysOf, Active
  <2>2. CASE bound[m] # None
    BY <1>1, <1>3, <1>5, <2>2 DEF MayRevoke, HasKey
  <2> QED BY <2>1, <2>2
<1> HIDE DEF S
<1>8. \A n \in Machines : bound'[n] \notin S \/ bound'[n] = None
  BY <1>3, <1>6, <1>7, OneOwner
<1>9. \A n \in Machines : KeysSound(bound', creds, n)
  <2>1. KeysSound(bound', creds, m)
    BY <1>6 DEF KeysSound
  <2> QED BY <1>5, <1>6, <2>1, OwnBinding DEF TablesSound
<1>10. \A n \in Machines : bound'[n] \in issued \cup {None}
  BY <1>6 DEF CredentialsSound
<1>11. /\ d \in CredentialTable
       /\ \A k \in Keys : d[k] = None <=> creds[k] = None
       /\ \A n \in Machines : KeysSound(bound', d, n)
       /\ Drawn(issued, d) /\ InLedger(via, d, uses)
  BY <1>6, <1>8, <1>9, RevokedTables
<1> HIDE DEF d
<1>12. DOMAIN txn' = {"creds", "uses"} /\ txn'.creds = d /\ txn'.uses = uses
  BY <1>2
<1>13. \A n \in Machines : (bound'[n] # None /\ creds[bound'[n]] = None) => n \in orphaned'
  BY <1>1, <1>4, <1>6 DEF CredentialsSound, BindingsKnown
<1>14. q.kind # "register" /\ orphaned' \subseteq Machines
  BY <1>1, <1>5
<1> QED BY <1>1, <1>6, <1>9, <1>10, <1>11, <1>12, <1>13, <1>14, RevokingStep

\* Commit keeps CredentialsSound: TransactionSound has said it before.
LEMMA CommitStep ==
    ASSUME CredentialsSound, NEW s \in Sessions, Commit(s)
    PROVE  CredentialsSound'
<1> DEFINE q == sess[s]
<1>1. TypeOK /\ q # None /\ q.at = "commit" /\ sess' = [sess EXCEPT ![s] = None]
      /\ creds' = txn.creds /\ uses' = txn.uses
      /\ orphaned' = (IF q.kind = "register" THEN orphaned \ {q.machine} ELSE orphaned)
      /\ UNCHANGED <<row, bound, txn, issued, via>>
  BY DEF CredentialsSound, Commit
<1>2. InTransaction(q) /\ TransactionSound(q)
  BY <1>1 DEF CredentialsSound, InTransaction
<1>3. \A t \in Sessions \ {s} : ~InTransaction(sess[t])
  BY <1>1, <1>2 DEF TypeOK
<1>4. Tables(creds, uses)' /\ bound' \in [Machines -> Keys \cup {None}]
      /\ orphaned' \subseteq Machines
  BY <1>1 DEF TypeOK, Tables
<1>5. TablesSound(creds, uses)'
  BY <1>1, <1>2 DEF TransactionSound, TablesSound
<1>6. \A n \in Machines : (bound'[n] # None /\ creds'[bound'[n]] = None) => n \in orphaned'
  BY <1>1, <1>2 DEF TransactionSound
<1>7. \A n \in Machines : bound'[n] \in issued \cup {None}
  BY <1>1 DEF CredentialsSound
<1> QED BY <1>1, <1>3, <1>4, <1>5, <1>6, <1>7, AnsweredStep

\* Abort keeps CredentialsSound: the committed tables were sound under the catalog as the
\* call left it.
LEMMA AbortStep ==
    ASSUME CredentialsSound, NEW s \in Sessions, Abort(s)
    PROVE  CredentialsSound'
<1> DEFINE q == sess[s]
<1>1. TypeOK /\ q # None /\ q.at \in {"catalog", "commit"} /\ sess' = [sess EXCEPT ![s] = None]
      /\ orphaned' = (IF q.kind = "register" /\ q.at = "commit"
                      THEN orphaned \cup {q.machine} ELSE orphaned)
      /\ UNCHANGED <<row, bound, creds, uses, txn, issued, via>>
  BY DEF CredentialsSound, Abort
<1>2. InTransaction(q) /\ q.machine \in Machines
  BY <1>1 DEF InTransaction, TypeOK, Request
<1>3. \A t \in Sessions \ {s} : ~InTransaction(sess[t])
  BY <1>1, <1>2 DEF TypeOK
<1>4. Tables(creds, uses)' /\ bound' \in [Machines -> Keys \cup {None}]
      /\ orphaned' \subseteq Machines
  BY <1>1, <1>2 DEF TypeOK, Tables
<1>5. TablesSound(creds, uses)'
  BY <1>1 DEF CredentialsSound, TablesSound
<1>6. \A n \in Machines : Registering(n) => n \in orphaned'
  BY <1>1, <1>3 DEF Registering, InTransaction
<1>7. \A n \in Machines : (bound'[n] # None /\ creds'[bound'[n]] = None) => n \in orphaned'
  BY <1>1, <1>6 DEF CredentialsSound, BindingsKnown
<1>8. \A n \in Machines : bound'[n] \in issued \cup {None}
  BY <1>1 DEF CredentialsSound
<1> QED BY <1>1, <1>3, <1>4, <1>5, <1>7, <1>8, AnsweredStep

-----------------------------------------------------------------------------
(***************************************************************************)
(* What was asked.  Every row that a registration is compared with says    *)
(* what some request said.                                                 *)
(***************************************************************************)

\* What a request asks for, as it is kept in asked.
Asking(q) == [who |-> q.who, machine |-> q.machine, meta |-> q.meta]

\* Every used enrollment names the machine and metadata some request gave for it.
LedgerAsked(u) ==
    \A e \in Enrollments : u[e] # None =>
        [who |-> e, machine |-> u[e].machine, meta |-> u[e].meta] \in asked

\* Every machine's row holds the metadata of a request of the enrollment it names.
RowsAsked ==
    \A m \in Machines : row[m] # None =>
        [who |-> IF row[m].by = None THEN Admin ELSE row[m].by,
         machine |-> m, meta |-> row[m].meta] \in asked

\* Every registration in hand has been asked for.
RequestsAsked ==
    \A s \in Sessions : (sess[s] # None /\ sess[s].kind = "register") => Asking(sess[s]) \in asked

\* All of it, of the committed ledger and of the one in the open transaction.
AskedSound == RequestsAsked /\ LedgerAsked(uses) /\ LedgerAsked(txn.uses) /\ RowsAsked

\* One request moves on or is answered, and the tables say nothing new.
LEMMA SameAsked ==
    ASSUME AskedSound, NEW s \in Sessions, UNCHANGED <<row, asked>>,
           uses' \in {uses, txn.uses}, txn'.uses \in {uses, txn.uses},
           \A t \in Sessions \ {s} : sess'[t] = sess[t],
           sess'[s] # None => /\ sess[s] # None /\ sess'[s].kind = sess[s].kind
                              /\ Asking(sess'[s]) = Asking(sess[s])
    PROVE  AskedSound'
<1>1. RequestsAsked'
  BY DEF AskedSound, RequestsAsked
<1>2. RowsAsked'
  BY DEF AskedSound, RowsAsked
<1> QED BY <1>1, <1>2 DEF AskedSound, LedgerAsked

\* A request that moves on still asks the same.
LEMMA MovesAsked ==
    ASSUME TypeOK, NEW s \in Sessions, sess[s] # None, NEW a, sess' = [sess EXCEPT ![s].at = a]
    PROVE  /\ \A t \in Sessions \ {s} : sess'[t] = sess[t]
           /\ sess'[s].kind = sess[s].kind /\ Asking(sess'[s]) = Asking(sess[s])
           /\ sess'[s].at = a
<1> DEFINE q == [sess[s] EXCEPT !.at = a]
<1>1. sess \in [Sessions -> Request \cup {None}] /\ sess[s] \in Request
  BY DEF TypeOK
<1>2. q.kind = sess[s].kind /\ q.who = sess[s].who /\ q.machine = sess[s].machine
      /\ q.meta = sess[s].meta /\ q.at = a
  BY <1>1 DEF Request
<1>3. sess' = [sess EXCEPT ![s] = q]
  OBVIOUS
<1> HIDE DEF q
<1> QED BY <1>1, <1>2, <1>3 DEF Asking

\* verify: a request comes in.
LEMMA VerifyAsked ==
    ASSUME TypeOK, AskedSound, NEW s \in Sessions, NEW q \in Arrivals, Verify(s, q)
    PROVE  AskedSound'
<1>1. sess \in [Sessions -> Request \cup {None}] /\ UNCHANGED <<row, uses, txn>>
  BY DEF TypeOK, Verify
<1>2. sess'[s] = q /\ \A t \in Sessions \ {s} : sess'[t] = sess[t]
  BY <1>1 DEF Verify
<1>3. asked \subseteq asked' /\ (q.kind = "register" => Asking(q) \in asked')
  BY DEF Verify, Asking
<1>4. RequestsAsked'
  BY <1>2, <1>3 DEF AskedSound, RequestsAsked
<1>5. RowsAsked'
  BY <1>1, <1>3 DEF AskedSound, RowsAsked
<1> QED BY <1>1, <1>3, <1>4, <1>5 DEF AskedSound, LedgerAsked

\* register: the machine's row and the ledger say what this request asked.
LEMMA RegisterAsked ==
    ASSUME CredentialsSound, AskedSound, NEW s \in Sessions, RegisterMachine(s)
    PROVE  AskedSound'
<1> DEFINE q == sess[s]
           m == q.machine
           use == [machine |-> m, meta |-> q.meta]
<1>1. /\ TypeOK /\ q # None /\ q.kind = "register" /\ Replayable(q) /\ UNCHANGED <<uses, asked>>
      /\ sess' = [sess EXCEPT ![s].at = "catalog"] /\ Asking(q) \in asked
  BY DEF CredentialsSound, RegisterMachine, MayRegister, AskedSound, RequestsAsked
<1>2. /\ m \in Machines /\ row \in [Machines -> Registration \cup {None}]
      /\ uses \in [Enrollments -> Use \cup {None}] /\ q.who \in Enrollments \cup {Admin}
  <2>1. q \in Request
    BY <1>1 DEF TypeOK
  <2>2. WellFormed(q)
    BY <1>1 DEF CredentialsSound
  <2> QED BY <1>1, <2>1, <2>2 DEF TypeOK, Tables, Request, WellFormed
<1>3. RequestsAsked'
  <2>1. /\ \A t \in Sessions \ {s} : sess'[t] = sess[t]
        /\ sess'[s].kind = q.kind /\ Asking(sess'[s]) = Asking(q)
    BY <1>1, MovesAsked
  <2> HIDE DEF q
  <2> QED BY <1>1, <2>1 DEF AskedSound, RequestsAsked
<1>4. LedgerAsked(txn.uses)'
  <2>1. txn'.uses = IF q.who = Admin THEN uses ELSE [uses EXCEPT ![q.who] = use]
    BY DEF RegisterMachine
  <2>2. LedgerAsked(uses)
    BY DEF AskedSound
  <2>3. CASE q.who = Admin
    BY <1>1, <2>1, <2>2, <2>3 DEF LedgerAsked
  <2>4. CASE q.who # Admin
    <3>1. /\ txn'.uses[q.who] = use /\ q.who \in Enrollments
          /\ \A e \in Enrollments \ {q.who} : txn'.uses[e] = uses[e]
      BY <1>2, <2>1, <2>4
    <3>2. [who |-> q.who, machine |-> use.machine, meta |-> use.meta] \in asked'
      BY <1>1 DEF Asking
    <3> HIDE DEF q, use
    <3> QED BY <1>1, <2>2, <3>1, <3>2 DEF LedgerAsked
  <2> QED BY <2>3, <2>4
<1>5. RowsAsked'
  <2> DEFINE r == row[m]
             new == IF r = None THEN [by |-> Authority(q), meta |-> q.meta]
                    ELSE IF r.by = None THEN [r EXCEPT !.by = Authority(q)] ELSE r
  <2>1. row' = [row EXCEPT ![m] = new]
    BY DEF RegisterMachine
  <2>2. row'[m] = new /\ \A n \in Machines \ {m} : row'[n] = row[n]
    BY <1>2, <2>1
  <2>3. [who |-> IF new.by = None THEN Admin ELSE new.by,
         machine |-> m, meta |-> new.meta] \in asked
    <3>1. q.who = IF Authority(q) = None THEN Admin ELSE Authority(q)
      BY <1>2, CredentialsAssumption DEF Authority
    <3>2. [who |-> q.who, machine |-> m, meta |-> q.meta] \in asked
      BY <1>1 DEF Asking
    <3>3. CASE r = None
      <4>1. new.by = Authority(q) /\ new.meta = q.meta
        BY <3>3
      <4> QED BY <3>1, <3>2, <4>1
    <3>4. CASE r # None /\ r.by = None
      <4>1. r \in Registration /\ r.meta = q.meta
        BY <1>1, <1>2, <3>4 DEF Replayable
      <4>2. new.by = Authority(q) /\ new.meta = q.meta
        BY <3>4, <4>1 DEF Registration
      <4> QED BY <3>1, <3>2, <4>2
    <3>5. CASE r # None /\ r.by # None
      BY <1>2, <3>5 DEF AskedSound, RowsAsked
    <3> QED BY <3>3, <3>4, <3>5
  <2> HIDE DEF m, new
  <2> QED BY <1>1, <2>2, <2>3 DEF AskedSound, RowsAsked
<1> QED BY <1>1, <1>3, <1>4, <1>5 DEF AskedSound, LedgerAsked

\* The other steps of a call.
LEMMA CallAsked ==
    ASSUME CredentialsSound, AskedSound, NEW s \in Sessions,
           \/ Admit(s) \/ Confirm(s) \/ ConfirmAgain(s) \/ RevokeMachine(s)
           \/ Refuse(s) \/ Commit(s) \/ Abort(s)
           \/ \E k \in Keys : BindIssued(s, k) \/ Prepare(s, k)
    PROVE  AskedSound'
<1>1. TypeOK /\ sess \in [Sessions -> Request \cup {None}] /\ DOMAIN txn = {"creds", "uses"}
  BY DEF CredentialsSound, TypeOK
<1>2. UNCHANGED <<row, asked>> /\ sess[s] # None
  BY DEF Admit, Confirm, ConfirmAgain, RevokeMachine, Refuse, Commit, Abort, BindIssued, Prepare
<1>3. uses' \in {uses, txn.uses} /\ txn'.uses \in {uses, txn.uses}
  <2>1. CASE \E k \in Keys : BindIssued(s, k)
    BY <1>1, <2>1 DEF BindIssued
  <2>2. CASE \E k \in Keys : Prepare(s, k)
    BY <2>2 DEF Prepare
  <2>3. CASE Confirm(s) \/ ConfirmAgain(s) \/ RevokeMachine(s)
    BY <2>3 DEF Confirm, ConfirmAgain, RevokeMachine
  <2>4. CASE Admit(s) \/ Refuse(s) \/ Commit(s) \/ Abort(s)
    BY <2>4 DEF Admit, Refuse, Commit, Abort
  <2> QED BY <2>1, <2>2, <2>3, <2>4
<1>4. \/ \E a \in {"admitted", "commit"} : sess' = [sess EXCEPT ![s].at = a]
      \/ sess' = [sess EXCEPT ![s] = None]
  BY <1>1 DEF Admit, Confirm, ConfirmAgain, RevokeMachine, Refuse, Commit, Abort, BindIssued,
              Prepare
<1>5. CASE sess' = [sess EXCEPT ![s] = None]
  <2>1. sess'[s] = None /\ \A t \in Sessions \ {s} : sess'[t] = sess[t]
    BY <1>1, <1>5
  <2> QED BY <1>2, <1>3, <2>1, SameAsked
<1>6. ASSUME NEW a, sess' = [sess EXCEPT ![s].at = a] PROVE AskedSound'
  <2>1. /\ \A t \in Sessions \ {s} : sess'[t] = sess[t]
        /\ sess'[s].kind = sess[s].kind /\ Asking(sess'[s]) = Asking(sess[s])
    BY <1>1, <1>2, <1>6, MovesAsked
  <2> QED BY <1>2, <1>3, <2>1, SameAsked
<1> QED BY <1>4, <1>5, <1>6

\* Every step keeps AskedSound.
LEMMA NextAsked == CredentialsSound /\ AskedSound /\ [Next]_vars => AskedSound'
<1> SUFFICES ASSUME CredentialsSound, AskedSound, [Next]_vars PROVE AskedSound'
  OBVIOUS
<1>1. CASE UNCHANGED vars
  BY <1>1 DEF vars, AskedSound, RequestsAsked, LedgerAsked, RowsAsked
<1>2. ASSUME NEW s \in Sessions, Step(s) PROVE AskedSound'
  <2>1. TypeOK
    BY DEF CredentialsSound
  <2> QED BY <1>2, <2>1, VerifyAsked, RegisterAsked, CallAsked DEF Step
<1> QED BY <1>1, <1>2 DEF Next

\* A request that may not register was preceded by another for its enrollment or machine.
LEMMA RefusedAsked ==
    ASSUME CredentialsSound, AskedSound, NEW s \in Sessions, sess[s] # None,
           sess[s].kind = "register", ~MayRegister(sess[s])
    PROVE  \E other \in asked : /\ other # Asking(sess[s])
                                /\ \/ other.who = sess[s].who
                                   \/ other.machine = sess[s].machine
<1> DEFINE q == sess[s]
           m == q.machine
           r == row[m]
<1>1. /\ m \in Machines /\ row \in [Machines -> Registration \cup {None}]
      /\ uses \in [Enrollments -> Use \cup {None}] /\ q.who \in Enrollments \cup {Admin}
  <2>1. q \in Request
    BY DEF CredentialsSound, TypeOK
  <2>2. WellFormed(q)
    BY DEF CredentialsSound
  <2> QED BY <2>1, <2>2 DEF CredentialsSound, TypeOK, Tables, Request, WellFormed
<1>2. CASE ~Consumable(q)
  <2> DEFINE u == uses[q.who]
             other == [who |-> q.who, machine |-> u.machine, meta |-> u.meta]
  <2>1. q.who \in Enrollments /\ u # None /\ u # [machine |-> m, meta |-> q.meta]
    BY <1>1, <1>2 DEF Consumable
  <2>2. u \in Use
    BY <1>1, <2>1
  <2>3. u.machine # m \/ u.meta # q.meta
    BY <2>1, <2>2 DEF Use
  <2>4. other \in asked
    BY <2>1 DEF AskedSound, LedgerAsked
  <2>5. other # Asking(q) /\ other.who = q.who
    BY <2>3 DEF Asking
  <2> QED BY <2>4, <2>5
<1>3. CASE ~Replayable(q)
  <2> DEFINE who == IF r.by = None THEN Admin ELSE r.by
             other == [who |-> who, machine |-> m, meta |-> r.meta]
  <2>1. r # None /\ (r.meta # q.meta \/ who # q.who)
    BY <1>1, <1>3 DEF Replayable
  <2>2. other \in asked
    BY <1>1, <2>1 DEF AskedSound, RowsAsked
  <2>3. other # Asking(q) /\ other.machine = m
    BY <2>1 DEF Asking
  <2> QED BY <2>2, <2>3
<1> QED BY <1>2, <1>3 DEF MayRegister

-----------------------------------------------------------------------------
(***************************************************************************)
(* Theorems                                                                *)
(***************************************************************************)

\* Initially there is nothing to be wrong.
LEMMA InitSound == Init => CredentialsSound
<1> SUFFICES ASSUME Init PROVE CredentialsSound
  OBVIOUS
<1>1. /\ creds \in [Keys -> Credential \cup {None}] /\ uses \in [Enrollments -> Use \cup {None}]
      /\ (\A k \in Keys : creds[k] = None) /\ (\A m \in Machines : bound[m] = None)
      /\ (\A k \in Keys : via[k] = None) /\ (\A s \in Sessions : sess[s] = None)
  BY DEF Init
<1>2. txn = [creds |-> creds, uses |-> uses]
  BY DEF Init
<1>3. DOMAIN txn = {"creds", "uses"} /\ Tables(creds, uses) /\ Tables(txn.creds, txn.uses)
  BY <1>1, <1>2 DEF Tables
<1>4. TypeOK
  BY <1>1, <1>3 DEF Init, TypeOK, InTransaction
<1>5. TablesSound(creds, uses)
  BY <1>1 DEF TablesSound, KeysSound, Drawn, InLedger
<1> QED BY <1>1, <1>4, <1>5 DEF CredentialsSound, InTransaction, BindingsKnown

\* No operation of the coordinator, interleaved with any others and cut short anywhere,
\* breaks CredentialsSound.
LEMMA NextSound == CredentialsSound /\ [Next]_vars => CredentialsSound'
<1> SUFFICES ASSUME CredentialsSound, [Next]_vars PROVE CredentialsSound'
  OBVIOUS
<1>1. CASE UNCHANGED vars
  BY <1>1 DEF vars, CredentialsSound, TypeOK, TablesSound, TransactionSound, BindingsKnown,
              Registering
<1>2. CASE Next
  <2>1. PICK s \in Sessions : Step(s)
    BY <1>2 DEF Next
  <2>2. CASE \E q \in Arrivals : Verify(s, q)
    BY <2>2, VerifyStep
  <2>3. CASE Admit(s)
    BY <2>3, AdmitStep
  <2>4. CASE RegisterMachine(s)
    BY <2>4, RegisterStep
  <2>5. CASE \E k \in Keys : BindIssued(s, k)
    BY <2>5, BindIssuedStep
  <2>6. CASE \E k \in Keys : Prepare(s, k)
    BY <2>6, PrepareStep
  <2>7. CASE Confirm(s)
    BY <2>7, ConfirmStep
  <2>8. CASE ConfirmAgain(s)
    BY <2>8, ConfirmAgainStep
  <2>9. CASE RevokeMachine(s)
    BY <2>9, RevokeMachineStep
  <2>10. CASE Refuse(s)
    BY <2>10, RefuseStep
  <2>11. CASE Commit(s)
    BY <2>11, CommitStep
  <2>12. CASE Abort(s)
    BY <2>12, AbortStep
  <2> QED
    BY <2>1, <2>2, <2>3, <2>4, <2>5, <2>6, <2>7, <2>8, <2>9, <2>10, <2>11, <2>12 DEF Step
<1> QED BY <1>1, <1>2

\* The tables stay sound for any number of machines, keys, concurrent requests and lost
\* transactions.
THEOREM CredentialsInvariant == Spec => []CredentialsSound
BY InitSound, NextSound, PTL DEF Spec

\* The catalog never names a revoked key, and names a missing one only for a registration
\* that is about to commit or was cut short.
THEOREM NeverLockedOutTheorem == Spec => []NeverLockedOut
<1>1. CredentialsSound => NeverLockedOut
  <2> SUFFICES ASSUME CredentialsSound, NEW m \in Machines, bound[m] # None
               PROVE  \/ Active(creds, bound[m]) /\ creds[bound[m]].machine = m
                      \/ creds[bound[m]] = None /\ (m \in orphaned \/ Registering(m))
    BY DEF NeverLockedOut
  <2>1. KeysSound(bound, creds, m)
    BY DEF CredentialsSound, TablesSound
  <2>2. CASE creds[bound[m]] = None
    BY <2>2 DEF CredentialsSound, BindingsKnown
  <2>3. CASE creds[bound[m]] # None
    BY <2>1, <2>3 DEF KeysSound, Active
  <2> QED BY <2>2, <2>3
<1> QED BY <1>1, CredentialsInvariant, PTL

\* At most one active key beside the one the catalog names, and that one its replacement
\* or its predecessor.
THEOREM OneOtherKeyTheorem == Spec => []OneOtherKey
<1>1. CredentialsSound => OneOtherKey
  <2> SUFFICES ASSUME CredentialsSound, NEW m \in Machines,
                      bound[m] # None, creds[bound[m]] # None
               PROVE  /\ \A k \in KeysOf(creds, m) \ {bound[m]} :
                             \/ creds[k].rotation_from = bound[m]
                             \/ creds[bound[m]].rotation_from = k
                      /\ \A j, k \in KeysOf(creds, m) \ {bound[m]} : j = k
    BY DEF OneOtherKey
  <2>1. KeysSound(bound, creds, m)
    BY DEF CredentialsSound, TablesSound
  <2>2. \A k \in KeysOf(creds, m) \ {bound[m]} :
            creds[k].rotation_from = bound[m] \/ creds[bound[m]].rotation_from = k
    BY <2>1 DEF KeysSound
  <2>3. \A r \in KeysOf(creds, m) :
            creds[r].rotation_from = bound[m] => KeysOf(creds, m) \subseteq {r, bound[m]}
    BY <2>1 DEF KeysSound
  <2>4. \A j, k \in KeysOf(creds, m) \ {bound[m]} : j = k
    BY <2>2, <2>3
  <2> QED BY <2>2, <2>4
<1> QED BY <1>1, CredentialsInvariant, PTL

\* Every key ever issued under an enrollment is of one machine, whatever was retried and
\* whatever was rolled back.
THEOREM EnrollmentTheorem == Spec => []EnrollmentSingleUse
<1>1. CredentialsSound => EnrollmentSingleUse
  <2>1. CredentialsSound => InLedger(via, creds, uses)
    BY DEF CredentialsSound, TablesSound
  <2> QED BY <2>1 DEF EnrollmentSingleUse, InLedger
<1> QED BY <1>1, CredentialsInvariant, PTL

\* A registration may always be retried, whatever happened to the answers of its earlier
\* attempts: register refuses it only if another request named its enrollment or machine.
THEOREM RetryAcceptedTheorem == Spec => RetryAccepted
<1>1. Init => AskedSound
  BY DEF Init, AskedSound, RequestsAsked, LedgerAsked, RowsAsked
<1>2. CredentialsSound /\ AskedSound /\ [Next]_vars =>
          [\A s \in Sessions :
              (/\ sess[s] # None /\ sess[s].at = "admitted" /\ sess[s].kind = "register"
               /\ sess'[s] = None)
              => \E other \in asked :
                     /\ other # [who |-> sess[s].who, machine |-> sess[s].machine,
                                 meta |-> sess[s].meta]
                     /\ other.who = sess[s].who \/ other.machine = sess[s].machine]_vars
  <2> SUFFICES ASSUME CredentialsSound, AskedSound, Next, NEW s \in Sessions,
                      sess[s] # None, sess[s].at = "admitted", sess[s].kind = "register",
                      sess'[s] = None
               PROVE  \E other \in asked :
                          /\ other # [who |-> sess[s].who, machine |-> sess[s].machine,
                                      meta |-> sess[s].meta]
                          /\ other.who = sess[s].who \/ other.machine = sess[s].machine
    OBVIOUS
  <2>1. TypeOK /\ sess \in [Sessions -> Request \cup {None}]
    BY DEF CredentialsSound, TypeOK
  <2>2. PICK t \in Sessions : Step(t)
    BY DEF Next
  <2>3. t = s
    <3>1. CASE \E q \in Arrivals : Verify(t, q)
      BY <2>1, <3>1 DEF Verify
    <3>2. CASE \/ Admit(t) \/ RegisterMachine(t) \/ Confirm(t) \/ ConfirmAgain(t)
               \/ RevokeMachine(t) \/ Refuse(t) \/ Commit(t) \/ Abort(t)
               \/ \E k \in Keys : BindIssued(t, k) \/ Prepare(t, k)
      BY <2>1, <3>2 DEF Admit, RegisterMachine, Confirm, ConfirmAgain, RevokeMachine, Refuse,
                        Commit, Abort, BindIssued, Prepare
    <3> QED BY <2>2, <3>1, <3>2 DEF Step
  <2>4. ~RegisterMachine(s)
    <3>1. ASSUME sess' = [sess EXCEPT ![s].at = "catalog"] PROVE FALSE
      <4>1. [sess[s] EXCEPT !.at = "catalog"] \in Request
        BY <2>1 DEF Request
      <4>2. sess'[s] = [sess[s] EXCEPT !.at = "catalog"]
        BY <2>1, <3>1
      <4> QED BY <4>1, <4>2, NoneAssumption
    <3> QED BY <3>1 DEF RegisterMachine
  <2>5. Refuse(s)
    BY <2>2, <2>3, <2>4 DEF Step, Verify, Admit, Confirm, ConfirmAgain, RevokeMachine, Commit,
                            Abort, BindIssued, Prepare
  <2>6. ~MayRegister(sess[s])
    BY <2>5 DEF Refuse
  <2> QED BY <2>6, RefusedAsked DEF Asking
<1> QED BY <1>1, <1>2, NextAsked, CredentialsInvariant, PTL DEF Spec, RetryAccepted

=============================================================================
