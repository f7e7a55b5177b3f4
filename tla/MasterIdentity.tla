--------------------------- MODULE MasterIdentity ---------------------------
(***************************************************************************)
(* The one human administrator: first setup, sign-in, rotation and local   *)
(* recovery of the master token, the stateless session cookies, and the    *)
(* onboarding tickets with which an Agent obtains its credential.          *)
(*                                                                         *)
(* A cookie only carries a generation; it is worth something as long as    *)
(* the identity row still has that generation, which every handler rechecks*)
(* inside its own transaction.  Each handler is one BEGIN IMMEDIATE        *)
(* transaction and one action; sign-in and setup hand out their cookie     *)
(* after the transaction, as a second step.  Handlers that refuse change   *)
(* nothing.  Every transaction reads the wall clock anew (now \in Clocks). *)
(***************************************************************************)
EXTENDS Naturals, Sequences, FiniteSets

CONSTANTS
    Tokens,         \* master token values
    TicketIds,      \* onboarding tickets that may be created
    Clocks,         \* instants the wall clock may read
    NoIdentity,     \* the empty admin_master_identity table
    NoTicket,       \* a ticket row that does not exist
    SetupTTL,       \* lifetime of a setup cookie
    SessionTTL,     \* admin_session_ttl_seconds
    TicketTTL,      \* TICKET_LIFETIME_MICROSECONDS
    MaxGeneration,  \* largest session generation
    MaxCookies,     \* bound on the cookies handed out
    MaxAudits       \* bound on the audited actions

ASSUME IdentityAssumption ==
    /\ Clocks \subseteq Nat \ {0}
    /\ SetupTTL \in Nat /\ SessionTTL \in Nat /\ TicketTTL \in Nat
    /\ MaxGeneration \in Nat /\ MaxCookies \in Nat /\ MaxAudits \in Nat

\* Rows of admin_master_identity and auth_onboarding_tickets; zero is NULL.
Identities == [token: Tokens, generation: Nat, created: Nat, updated: Nat]
TicketRows == [generation: Nat, by: Nat, created: Nat, expires: Nat,
               consumed: Nat, credential: Nat]

ASSUME EmptyTablesAssumption == NoIdentity \notin Identities /\ NoTicket \notin TicketRows

VARIABLES
    identity,   \* admin_master_identity: token, generation, created, updated
    setups,     \* setup cookies handed out
    sessions,   \* master session cookies handed out
    pending,    \* generations read by sign-ins that have not issued yet
    tickets,    \* auth_onboarding_tickets
    agents,     \* provisioned Agent credentials; index = credential and caller
    audits      \* admin_master_audit_events; index = commit order

identityVars == <<identity, setups, sessions, pending, tickets, agents, audits>>

----------------------------------------------------------------------------
(* Cookies.                                                                *)

Cookies == Cardinality(setups) + Cardinality(sessions)

\* A fresh CSRF token identifies the cookie in the audit (audit_fingerprint).
NewCookie(generation, expires) ==
    [id |-> Cookies + 1, generation |-> generation, expires |-> expires]

HasIdentity == identity # NoIdentity

\* GET /session of an uninitialised service: a setup cookie.
IssueSetup(now) ==
    /\ ~HasIdentity
    /\ Cookies < MaxCookies
    /\ setups' = setups \cup {NewCookie(0, now + SetupTTL)}
    /\ UNCHANGED <<identity, sessions, pending, tickets, agents, audits>>

\* MasterSetupSessionCodec.verify
SetupVerified(c, now) == now < c.expires /\ c.expires <= now + SetupTTL

\* The response of sign-in or setup: issue_master for the state read before.
IssueMaster(now) ==
    \E generation \in pending :
        /\ Cookies < MaxCookies
        /\ sessions' = sessions \cup {NewCookie(generation, now + SessionTTL)}
        /\ pending' = pending \ {generation}
        /\ UNCHANGED <<identity, setups, tickets, agents, audits>>

\* Mutant: the expiry is checked, the stored generation is not.
AuthorizedByCookie(c, now) == HasIdentity /\ now < c.expires

\* verify_master: the signature holds and the cookie has not expired.
SessionVerified(c, now) == now < c.expires

\* is_session_generation_current
CurrentGeneration(generation) == HasIdentity /\ generation = identity.generation

\* BrowserAuth.authorize, _require_current_admin_session: inside the
\* transaction, after the lock was obtained.
Authorized(c, now) == SessionVerified(c, now) /\ CurrentGeneration(c.generation)

Audit(generation, by, action, target, at) ==
    /\ Len(audits) < MaxAudits
    /\ audits' = Append(audits, [generation |-> generation, by |-> by,
                                 action |-> action, target |-> target, at |-> at])

----------------------------------------------------------------------------
(* The identity row.                                                       *)

\* initialize_after_authorized_setup; the slot's primary key refuses a second.
NewIdentity(token, now) ==
    /\ ~HasIdentity
    /\ identity' = [token |-> token, generation |-> 1, created |-> now, updated |-> now]

\* MasterSetupService.initialize; the clock is read again after the check.
Initialize(token, checked, now) ==
    \E c \in setups :
        /\ SetupVerified(c, checked)
        /\ now < c.expires
        /\ NewIdentity(token, now)
        /\ Audit(1, c.id, "auth.master.initialize", 0, now)
        /\ pending' = pending \cup {1}
        /\ UNCHANGED <<setups, sessions, tickets, agents>>

LocalInitialize(token, now) ==
    /\ NewIdentity(token, now)
    /\ UNCHANGED <<setups, sessions, pending, tickets, agents, audits>>

Replaced(token, now) ==
    [identity EXCEPT !.token = token, !.updated = now, !.generation = @ + 1]

\* _replace_token: the clock may not run backwards, the token must differ.
ReplaceToken(token, now) ==
    /\ HasIdentity
    /\ now >= identity.updated
    /\ identity.generation < MaxGeneration
    /\ token # identity.token
    /\ identity' = Replaced(token, now)

\* POST /master-token/rotate: the audit is dated by the rotating session.
RotateMaster(old, token, now) ==
    \E c \in sessions :
        /\ Authorized(c, now)
        /\ old = identity.token
        /\ ReplaceToken(token, now)
        /\ Audit(c.generation, c.id, "auth.master.rotate", 0, now)
        /\ UNCHANGED <<setups, sessions, pending, tickets, agents>>

\* patchouli-master-token rotate; recover needs no token.  Neither audits.
LocalRotate(old, token, now) ==
    /\ HasIdentity
    /\ old = identity.token
    /\ ReplaceToken(token, now)
    /\ UNCHANGED <<setups, sessions, pending, tickets, agents, audits>>

LocalRecover(token, now) ==
    /\ ReplaceToken(token, now)
    /\ UNCHANGED <<setups, sessions, pending, tickets, agents, audits>>

\* POST /session: authenticate on a connection of its own.
SignIn(token) ==
    /\ HasIdentity
    /\ token = identity.token
    /\ pending' = pending \cup {identity.generation}
    /\ UNCHANGED <<identity, setups, sessions, tickets, agents, audits>>

----------------------------------------------------------------------------
(* Agents and onboarding tickets.                                          *)

\* provision_agent_in_transaction: caller, credential and audit.
ProvisionAgent(generation, by, ticket, now) ==
    /\ agents' = Append(agents, [ticket |-> ticket, at |-> now])
    /\ Audit(generation, by, "auth.agent.provision", Len(agents) + 1, now)

ProvisionInConsole(now) ==
    \E c \in sessions :
        /\ Authorized(c, now)
        /\ ProvisionAgent(c.generation, c.id, NoTicket, now)
        /\ UNCHANGED <<identity, setups, sessions, pending, tickets>>

\* OnboardingTicketService.create
CreateTicket(t, now) ==
    \E c \in sessions :
        /\ tickets[t] = NoTicket
        /\ Authorized(c, now)
        /\ tickets' = [tickets EXCEPT ![t] =
              [generation |-> c.generation, by |-> c.id, created |-> now,
               expires |-> now + TicketTTL, consumed |-> 0, credential |-> 0]]
        /\ Audit(c.generation, c.id, "auth.onboarding.create", t, now)
        /\ UNCHANGED <<identity, setups, sessions, pending, agents>>

\* Mutant: a consumed ticket is admitted until it expires.
AdmitConsumed(t, now) ==
    /\ tickets[t] # NoTicket
    /\ tickets[t].created <= now /\ now < tickets[t].expires
    /\ CurrentGeneration(tickets[t].generation)

\* _admit: unconsumed, in its lifetime and of the current generation.
Admit(t, now) ==
    /\ tickets[t] # NoTicket
    /\ tickets[t].created <= now /\ now < tickets[t].expires
    /\ tickets[t].consumed = 0
    /\ CurrentGeneration(tickets[t].generation)

\* redeem: admission, provisioning and consumption in one transaction.
Redeem(t, now) ==
    /\ Admit(t, now)
    /\ ProvisionAgent(tickets[t].generation, tickets[t].by, t, now)
    /\ tickets' = [tickets EXCEPT ![t].consumed = now,
                                  ![t].credential = Len(agents) + 1]
    /\ UNCHANGED <<identity, setups, sessions, pending>>

----------------------------------------------------------------------------

IdentityInit ==
    /\ identity = NoIdentity
    /\ setups = {} /\ sessions = {} /\ pending = {}
    /\ tickets = [t \in TicketIds |-> NoTicket]
    /\ agents = <<>>
    /\ audits = <<>>

IdentityNext ==
    \/ \E now \in Clocks :
          \/ IssueSetup(now)
          \/ IssueMaster(now)
          \/ ProvisionInConsole(now)
          \/ \E t \in TicketIds : CreateTicket(t, now) \/ Redeem(t, now)
    \/ \E token \in Tokens, now \in Clocks :
          \/ \E checked \in Clocks : Initialize(token, checked, now)
          \/ LocalInitialize(token, now)
          \/ LocalRecover(token, now)
          \/ \E old \in Tokens : RotateMaster(old, token, now) \/ LocalRotate(old, token, now)
    \/ \E token \in Tokens : SignIn(token)

IdentitySpec == IdentityInit /\ [][IdentityNext]_identityVars

----------------------------------------------------------------------------
(* Properties.                                                             *)

\* Whatever acts in the administrator's name acts in the name of the current
\* token: once a later generation has acted, no session, sign-in that was
\* overtaken by a rotation, or ticket of an earlier one leaves another audit.
GenerationsAscend ==
    \A i, j \in DOMAIN audits : i < j => audits[i].generation <= audits[j].generation

\* _require_onboarding_tickets: creation audits and tickets correspond, a
\* consumed ticket names a credential issued in that transaction.
CreationAudits(t) ==
    {i \in DOMAIN audits :
        /\ audits[i].action = "auth.onboarding.create" /\ audits[i].target = t
        /\ audits[i].generation = tickets[t].generation
        /\ audits[i].by = tickets[t].by /\ audits[i].at = tickets[t].created}

RequireOnboardingTickets ==
    /\ \A i \in DOMAIN audits : audits[i].action = "auth.onboarding.create" =>
          tickets[audits[i].target] # NoTicket
    /\ \A t \in TicketIds : tickets[t] # NoTicket =>
          /\ Cardinality(CreationAudits(t)) = 1
          /\ tickets[t].consumed # 0 =>
                /\ tickets[t].created <= tickets[t].consumed
                /\ tickets[t].consumed < tickets[t].expires
                /\ agents[tickets[t].credential].at = tickets[t].consumed
                /\ \E i \in DOMAIN audits :
                      audits[i] = [generation |-> tickets[t].generation,
                                   by |-> tickets[t].by,
                                   action |-> "auth.agent.provision",
                                   target |-> tickets[t].credential,
                                   at |-> tickets[t].consumed]

\* _require_master_identity: at most one row, whose update follows its creation.
RequireMasterIdentity ==
    HasIdentity => identity.generation >= 1 /\ identity.updated >= identity.created

\* A ticket is worth one Agent: every Agent that came by a ticket is the one
\* the ticket records, however many redemptions were submitted at once; and
\* the history of the tickets is one the backup validator accepts.
TicketsBuyOneAgent ==
    /\ \A n \in DOMAIN agents : agents[n].ticket # NoTicket =>
          tickets[agents[n].ticket].credential = n
    /\ RequireOnboardingTickets
    /\ RequireMasterIdentity

=============================================================================
