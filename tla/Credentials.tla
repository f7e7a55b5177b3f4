----------------------------- MODULE Credentials -----------------------------
(***************************************************************************)
(* Callers and their bearer credentials: bootstrap and local recovery of   *)
(* the operator, provisioning, rotation, revocation and disabling of       *)
(* Agents, and the use of a credential.  Every handler is one write        *)
(* transaction that works with one reading t of the clock.                 *)
(*                                                                         *)
(* The clock is no variable.  utc_microseconds reads the wall clock, which *)
(* may stand still, run or be set back, and the local commands and the     *)
(* revocations read it before they wait for the write lock: t may be any   *)
(* time, whatever the handlers that committed before had read.             *)
(*                                                                         *)
(* Time 0 stands for NULL.  A handler that raises, or whose row violates   *)
(* a CHECK constraint, is rolled back and changes nothing.                 *)
(***************************************************************************)
EXTENDS Naturals

CONSTANTS
    Operator,       \* the operator caller of the Library
    Agents,         \* Agent callers that may be created
    Creds,          \* credential identifiers
    Lifetimes,      \* time to live of credentials with an expiry
    Coalesce,       \* LAST_USED_COALESCE_MICROSECONDS
    MaxTime,        \* latest time the clock shows
    NoRow,          \* the credential was never issued
    NoCred          \* not rotated

Callers == Agents \cup {Operator}
Times == 1 .. MaxTime
Null == 0

ASSUME CredentialConstants ==
    /\ Operator \notin Agents
    /\ Lifetimes \subseteq Nat \ {0}
    /\ Coalesce \in Nat /\ MaxTime \in Nat
    /\ NoCred \notin Creds

\* auth_credentials; scoped: a row of auth_credential_library_policies exists.
Rows == [caller: Callers, scoped: BOOLEAN, created: Nat, expires: Nat, used: Nat,
         updated: Nat, revoked: Nat, next: Creds \cup {NoCred}]
ASSUME NoRowIsNoRow == NoRow \notin Rows

VARIABLES
    status,     \* caller -> "absent", "enabled" or "disabled"
    row,        \* auth_credentials
    value,      \* credentials with a row in auth_agent_token_values
    latest      \* credential delivered by the last bootstrap or recovery

vars == <<status, row, value, latest>>

CredentialsInit ==
    /\ status = [c \in Callers |-> "absent"]
    /\ row = [k \in Creds |-> NoRow]
    /\ value = {}
    /\ latest = NoCred

Issued == {k \in Creds : row[k] # NoRow}
Retired(k) == row[k].revoked # Null \/ row[k].next # NoCred
Unretired(c) == {k \in Issued : row[k].caller = c /\ ~ Retired(k)}

\* The row is valid at time t: created, not expired, not retired.
Active(k, t) ==
    /\ k \in Issued /\ ~ Retired(k)
    /\ row[k].created <= t
    /\ row[k].expires # Null => t < row[k].expires

\* ck_auth_credentials_timestamps
Timestamps(r) ==
    /\ r.updated >= r.created
    /\ r.expires # Null => r.expires > r.created
    /\ r.used # Null => /\ r.created <= r.used /\ r.used <= r.updated
                        /\ r.expires # Null => r.used < r.expires
    /\ r.revoked # Null => r.created <= r.revoked /\ r.revoked <= r.updated

-----------------------------------------------------------------------------
(* Repository operations, as functions of the credential table. *)

\* _expires_at for a finite lifetime, NULL for an Agent without one.
Expiries(c, t) == {t + ttl : ttl \in Lifetimes}
                  \cup (IF c = Operator THEN {} ELSE {Null})

\* CredentialIssuer.issue
NewRow(c, t, e, s) ==
    [caller |-> c, scoped |-> s, created |-> t, expires |-> e, used |-> Null,
     updated |-> t, revoked |-> Null, next |-> NoCred]

Revoked(r, t) == [r EXCEPT !.revoked = t, !.updated = t]

\* Mutant: the replaced credential stays valid.
RotatedLive(r, k, t) == [r EXCEPT !.updated = t]

\* rotated_at is set together with revoked_at and needs no column of its own.
Rotated(r, k, t) == [r EXCEPT !.revoked = t, !.next = k, !.updated = t]

\* AuthenticationService.authenticate at time t: the row it leaves behind,
\* with last_used_at touched when it is due.
Touched(r, t) ==
    IF /\ t >= (IF r.used = Null THEN r.created ELSE r.used) + Coalesce
       /\ t >= r.updated
    THEN [r EXCEPT !.used = t, !.updated = t] ELSE r

Accepts(k, t) == Active(k, t) /\ status[row[k].caller] = "enabled"

\* require_operator
IsOperator(k, t) == Accepts(k, t) /\ row[k].caller = Operator

Free(k) == k \in Creds /\ row[k] = NoRow

-----------------------------------------------------------------------------
(* Handlers. *)

\* OperatorBootstrapService.bootstrap
Bootstrap(k, t) ==
    /\ status[Operator] = "absent" /\ Free(k)
    /\ \E e \in Expiries(Operator, t) :
         row' = [row EXCEPT ![k] = NewRow(Operator, t, e, FALSE)]
    /\ status' = [status EXCEPT ![Operator] = "enabled"]
    /\ latest' = k
    /\ UNCHANGED value

\* Mutant: a credential of the same instant is not prior.
PriorStrict(t) == {k \in Unretired(Operator) : Active(k, t) /\ row[k].created < t}

\* list_active_credentials at the time of the recovery.
Prior(t) == {k \in Unretired(Operator) : Active(k, t)}

\* LocalOperatorRecoveryService.recover
Recover(k, t) ==
    /\ status[Operator] = "enabled" /\ Free(k)
    /\ \A p \in Prior(t) : Timestamps(Revoked(row[p], t))
    /\ \E e \in Expiries(Operator, t) :
         row' = [j \in Creds |-> IF j = k THEN NewRow(Operator, t, e, FALSE)
                                 ELSE IF j \in Prior(t) THEN Revoked(row[j], t)
                                 ELSE row[j]]
    /\ latest' = k
    /\ UNCHANGED <<status, value>>

\* provision_agent by the operator's token o, which is authenticated at t.
ProvisionAgent(o, a, k, t) ==
    /\ IsOperator(o, t) /\ Timestamps(Touched(row[o], t))
    /\ status[a] = "absent" /\ Free(k)
    /\ \E e \in Expiries(a, t) \ {Null} :
         row' = [row EXCEPT ![o] = Touched(@, t), ![k] = NewRow(a, t, e, FALSE)]
    /\ status' = [status EXCEPT ![a] = "enabled"]
    /\ value' = value \cup {k}
    /\ UNCHANGED latest

\* provision_agent_in_transaction, for the master or an onboarding ticket.
ProvisionAgentAsMaster(a, k, t) ==
    /\ status[a] = "absent" /\ Free(k)
    /\ \E e \in Expiries(a, t) : row' = [row EXCEPT ![k] = NewRow(a, t, e, TRUE)]
    /\ status' = [status EXCEPT ![a] = "enabled"]
    /\ value' = value \cup {k}
    /\ UNCHANGED latest

\* A legacy credential has to be provisioned anew.
Rotatable(k, t) == k \in Issued /\ row[k].caller \in Agents /\ Accepts(k, t) /\ row[k].scoped

\* rotate_agent_credential_as_master
RotateAsMaster(k, new, t) ==
    /\ Rotatable(k, t) /\ Free(new)
    /\ Timestamps(Rotated(row[k], new, t))
    /\ \E e \in Expiries(row[k].caller, t) :
         row' = [row EXCEPT ![k] = Rotated(@, new, t),
                            ![new] = NewRow(row[k].caller, t, e, TRUE)]
    /\ value' = (value \ {k}) \cup {new}
    /\ UNCHANGED <<status, latest>>

\* Only unretired credentials of Agents are revoked.
Revocable(k) == k \in Issued /\ row[k].caller \in Agents /\ ~ Retired(k)

\* Mutant: the stored value survives.
ForgetNothing(k) == value

Forget(k) == value \ {k}

\* revoke_agent_credential by the operator's token o, and the compensation of
\* a failed delivery, which revokes at the time of provisioning.
RevokeAgentCredential(o, k, t) ==
    /\ IsOperator(o, t) /\ Revocable(k)
    /\ Timestamps(Touched(row[o], t)) /\ Timestamps(Revoked(row[k], t))
    /\ row' = [row EXCEPT ![o] = Touched(@, t), ![k] = Revoked(@, t)]
    /\ value' = Forget(k)
    /\ UNCHANGED <<status, latest>>

\* Revoking a retired credential again only counts as a use of the token.
RevokeAgain(o, k, t) ==
    /\ IsOperator(o, t) /\ k \in Issued /\ row[k].caller \in Agents /\ Retired(k)
    /\ Timestamps(Touched(row[o], t))
    /\ row' = [row EXCEPT ![o] = Touched(@, t)]
    /\ UNCHANGED <<status, value, latest>>

RevokeAsMaster(k, t) ==
    /\ Revocable(k) /\ Timestamps(Revoked(row[k], t))
    /\ row' = [row EXCEPT ![k] = Revoked(@, t)]
    /\ value' = Forget(k)
    /\ UNCHANGED <<status, latest>>

\* disable_agent_as_master
DisableAsMaster(a) ==
    /\ status[a] = "enabled"
    /\ status' = [status EXCEPT ![a] = "disabled"]
    /\ value' = {k \in value : row[k].caller # a}
    /\ UNCHANGED <<row, latest>>

\* Mutant: a credential is touched whatever became of it.
UsableIssued(k, t) == k \in Issued

Usable(k, t) == Accepts(k, t)

\* BearerAuthentication: the touch reauthenticates in a write transaction.
Authenticate(k, t) ==
    /\ Usable(k, t) /\ Timestamps(Touched(row[k], t))
    /\ row' = [row EXCEPT ![k] = Touched(@, t)]
    /\ UNCHANGED <<status, value, latest>>

CredentialsNext ==
    \/ \E k \in Creds, t \in Times :
         Bootstrap(k, t) \/ Recover(k, t) \/ RevokeAsMaster(k, t) \/ Authenticate(k, t)
    \/ \E o, k \in Creds, t \in Times :
         \/ RevokeAgentCredential(o, k, t) \/ RevokeAgain(o, k, t)
         \/ \E a \in Agents : ProvisionAgent(o, a, k, t)
    \/ \E a \in Agents :
         \/ DisableAsMaster(a)
         \/ \E k \in Creds, t \in Times : ProvisionAgentAsMaster(a, k, t)
    \/ \E k, new \in Creds, t \in Times : RotateAsMaster(k, new, t)

CredentialsSpec == CredentialsInit /\ [][CredentialsNext]_vars

-----------------------------------------------------------------------------
(* Properties. *)

\* Every column keeps its type and every stored row its CHECK constraints.
CredentialTypeOK ==
    /\ status \in [Callers -> {"absent", "enabled", "disabled"}]
    /\ row \in [Creds -> Rows \cup {NoRow}]
    /\ value \subseteq Creds
    /\ latest \in Creds \cup {NoCred}
    /\ \A k \in Issued : Timestamps(row[k]) /\ status[row[k].caller] # "absent"

\* Whatever rotations, revocations and provisionings race, an Agent never
\* holds two credentials that are not retired.
OneLivePerAgent == \A a \in Agents : \A j, k \in Unretired(a) : j = k

\* A raw token value is stored for exactly the credentials that could still be
\* revealed: unretired ones of enabled Agents.
ValuesOfLiveOnly ==
    value = {k \in Issued : /\ row[k].caller \in Agents /\ ~ Retired(k)
                            /\ status[row[k].caller] = "enabled"}

\* What a recovery leaves unretired besides its own credential had expired by
\* then, or is dated later than the recovery.
SurvivorsOfRecovery ==
    \A k \in Unretired(Operator) \ {latest} :
        \/ row[k].created > row[latest].created
        \/ row[k].expires <= row[latest].created

\* A credential that is not retired can be revoked, rotated or recovered at any
\* time that is not before its last use or, unused, its issue.  At an earlier
\* one, which a clock that was set back or that was read before that use
\* shows, the CHECK constraint refuses.
RetiringWaitsForTheClock ==
    \A k \in Issued : ~ Retired(k) =>
        \A t \in Times : Timestamps(Revoked(row[k], t)) <=> row[k].updated <= t

\* An administrator keeps control of every credential that may be in force,
\* after any order of clock readings and locks: its token can be revealed, no
\* other token can, and nothing but a clock behind its last use keeps it from
\* being retired.
LiveAreManageable == ValuesOfLiveOnly /\ RetiringWaitsForTheClock

\* A retired credential is never accepted again and its row never changes.
RetirementIsFinal ==
    [][\A k \in Issued : Retired(k) => row'[k] = row[k]]_vars

\* Recovery "retires every prior active operator credential": at no time are
\* two of them active.
RecoveryRetiresAll ==
    \A j, k \in Unretired(Operator), t \in Times : Active(j, t) /\ Active(k, t) => j = k

=============================================================================
