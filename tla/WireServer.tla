----------------------------- MODULE WireServer -----------------------------
(***************************************************************************)
(* Connections of the wire server up to the query loop: start (accept      *)
(* loop), handle_prologue, the head of serve_connection and authenticate   *)
(* of crates/galaxdb-server/src/lib.rs, ScramAuthenticator::step of        *)
(* crates/galaxdb-auth/src/authn.rs and the role catalog it reads, with    *)
(* statements of other sessions that change roles and grants meanwhile.    *)
(*                                                                         *)
(* A password stands for the verifier made from it.  A client proves the   *)
(* password it knows; the server compares with the verifier it looks up.   *)
(***************************************************************************)
EXTENDS Integers, FiniteSets

CONSTANTS
    Conns,          \* connections
    MaxConnections, \* ServerConfig.max_connections
    RoleNames,      \* names a startup message may carry
    Passwords,
    MaxChanges,     \* bound: role statements of other sessions
    NoRole, NoPassword

ASSUME WireServerConstants ==
    /\ IsFiniteSet(Conns) /\ MaxConnections \in Nat
    /\ NoRole \notin RoleNames \cup Passwords \cup {NoPassword}

VARIABLES
    tlsMode, authEnabled,   \* configuration, fixed at start
    conn,           \* Conns -> where the connection's task stands
    tls,            \* connections that run inside TLS
    accepting,      \* value the accept loop has still to put in the gauge, or -1
    closing,        \* Conns -> value its task has still to put there, or -1
    active, gauge,  \* AtomicUsize active, metrics.connections_active
    gaugeRaced,          \* history: two gauge updates were in flight at once
    role,           \* Conns -> role named in the startup message
    knows,          \* Conns -> password its client uses
    scratch,        \* AuthState.scratch: role and verifier of round 1
    session,        \* Conns -> role the session runs as
    catalog,        \* RoleNames -> password, NoPassword or NoRole
    grants,         \* roles that hold a grant
    cascade,        \* role whose grants drop_role is still removing, or NoRole
    orphaned,       \* history: roles whose cascade was cut short
    changes

countVars == <<accepting, closing, active, gauge, gaugeRaced>>
roleVars == <<catalog, grants, cascade, orphaned, changes>>
loginVars == <<role, knows, scratch, session>>
wsVars == <<tlsMode, authEnabled, conn, tls, countVars, roleVars, loginVars>>

\* start: with authentication on and no role in the catalog the initial
\* superuser is provisioned (or the process does not start).
WsInit ==
    /\ tlsMode \in {"disable", "allow", "require"} /\ authEnabled \in BOOLEAN
    /\ conn = [c \in Conns |-> "new"] /\ tls = {}
    /\ accepting = -1 /\ closing = [c \in Conns |-> -1]
    /\ active = 0 /\ gauge = 0 /\ gaugeRaced = FALSE
    /\ role = [c \in Conns |-> NoRole] /\ knows \in [Conns -> Passwords]
    /\ scratch = [c \in Conns |-> NoRole] /\ session = [c \in Conns |-> NoRole]
    /\ \E r \in RoleNames, p \in Passwords :
           catalog = [x \in RoleNames |-> IF authEnabled /\ x = r THEN p ELSE NoRole]
    /\ grants = {} /\ cascade = NoRole /\ orphaned = {} /\ changes = 0

Fixed == UNCHANGED <<tlsMode, authEnabled>>
Step(c, from, to) == conn[c] = from /\ conn' = [conn EXCEPT ![c] = to]

\* A connection task ends: the decrement, then the gauge.
End(c, from) ==
    /\ Step(c, from, "closed")
    /\ active' = active - 1
    /\ closing' = [closing EXCEPT ![c] = active - 1]
    /\ gaugeRaced' = (gaugeRaced \/ accepting # -1 \/ \E d \in Conns : closing[d] # -1)
    /\ UNCHANGED <<accepting, gauge>>

-----------------------------------------------------------------------------
(* start: the accept loop *)

Accept(c) ==
    /\ accepting = -1
    /\ IF active >= MaxConnections
       THEN Step(c, "new", "rejected") /\ UNCHANGED countVars
       ELSE /\ Step(c, "new", "prologue")
            /\ active' = active + 1 /\ accepting' = active + 1
            /\ gaugeRaced' = (gaugeRaced \/ \E d \in Conns : closing[d] # -1)
            /\ UNCHANGED <<closing, gauge>>
    /\ UNCHANGED <<tls, roleVars, loginVars>> /\ Fixed

AcceptGauge ==
    /\ accepting # -1 /\ gauge' = accepting /\ accepting' = -1
    /\ UNCHANGED <<conn, tls, closing, active, gaugeRaced, roleVars, loginVars>> /\ Fixed

CloseGauge(c) ==
    /\ closing[c] # -1 /\ gauge' = closing[c] /\ closing' = [closing EXCEPT ![c] = -1]
    /\ UNCHANGED <<conn, tls, accepting, active, gaugeRaced, roleVars, loginVars>> /\ Fixed

\* Terminate, EOF or an I/O error, at any time.
Hangup(c) ==
    /\ conn[c] \notin {"new", "rejected", "closed"} /\ End(c, conn[c])
    /\ UNCHANGED <<tls, roleVars, loginVars>> /\ Fixed

-----------------------------------------------------------------------------
(* handle_prologue *)

\* SSLRequest: a TLS acceptor exists unless the mode is disable.
SslRequest(c) ==
    /\ Step(c, "prologue", "startup")
    /\ tls' = IF tlsMode = "disable" THEN tls ELSE tls \cup {c}
    /\ UNCHANGED <<countVars, roleVars, loginVars>> /\ Fixed

\* GSSENCRequest is declined and the next packet read: no change of state.
\* A StartupMessage without TLS.
StartupHeadAllowed(c) == tlsMode # "require"

StartupHead(c) ==
    /\ \/ StartupHeadAllowed(c) /\ Step(c, "prologue", "startup") /\ UNCHANGED countVars
       \/ ~StartupHeadAllowed(c) /\ End(c, "prologue")
    /\ UNCHANGED <<tls, roleVars, loginVars>> /\ Fixed

\* serve_connection: the startup message, of a version it speaks or not.
Startup(c) ==
    /\ \/ /\ Step(c, "startup", "round1") /\ UNCHANGED countVars
          /\ \E r \in RoleNames : role' = [role EXCEPT ![c] = r]
       \/ End(c, "startup") /\ UNCHANGED role
    /\ UNCHANGED <<tls, roleVars, knows, scratch, session>> /\ Fixed

-----------------------------------------------------------------------------
(* authenticate *)

\* authentication off: every connection is the configured superuser.
TrustedLocal(c) ==
    /\ ~authEnabled /\ Step(c, "round1", "ready")
    /\ UNCHANGED <<tls, countVars, roleVars, loginVars>> /\ Fixed

\* Round 1: the mechanism, the client-first message, the role's verifier.
Round1(c) ==
    /\ conn[c] = "round1" /\ authEnabled
    /\ \/ /\ catalog[role[c]] \in Passwords
          /\ Step(c, "round1", "round2")
          /\ scratch' = [scratch EXCEPT ![c] = catalog[role[c]]]
          /\ UNCHANGED countVars
       \/ End(c, "round1") /\ UNCHANGED scratch
    /\ UNCHANGED <<tls, roleVars, role, knows, session>> /\ Fixed

VerifiedByScratch(c) == knows[c] = scratch[c]

\* Round 2 looks the verifier up again.  The client's proof is made with the
\* salt of round 1: it verifies if the verifier is still that one.
Verified(c) ==
    /\ catalog[role[c]] \in Passwords
    /\ knows[c] = catalog[role[c]] /\ scratch[c] = catalog[role[c]]

Round2(c) ==
    /\ conn[c] = "round2"
    /\ \/ /\ Step(c, "round2", "ready") /\ Verified(c)
          /\ session' = [session EXCEPT ![c] = role[c]]
          /\ UNCHANGED countVars
       \/ End(c, "round2") /\ UNCHANGED session
    /\ UNCHANGED <<tls, roleVars, role, knows, scratch>> /\ Fixed

-----------------------------------------------------------------------------
(* AuthStore, driven by the statements of other sessions *)

Changing == cascade = NoRole /\ changes < MaxChanges /\ changes' = changes + 1

\* CREATE ROLE, with or without a password; ALTER ROLE ... PASSWORD.
CreateRole(r, p) ==
    /\ Changing /\ catalog[r] = NoRole
    /\ catalog' = [catalog EXCEPT ![r] = p]
    /\ UNCHANGED <<grants, cascade, orphaned>>

AlterRolePassword(r, p) ==
    /\ Changing /\ catalog[r] # NoRole
    /\ catalog' = [catalog EXCEPT ![r] = p]
    /\ UNCHANGED <<grants, cascade, orphaned>>

\* GRANT and REVOKE ask for an existing role.
Grant(r) ==
    /\ Changing /\ catalog[r] # NoRole
    /\ grants' = grants \cup {r} \/ grants' = grants \ {r}
    /\ UNCHANGED <<catalog, cascade, orphaned>>

\* The mutation of DropRole that forgets the cascade.
DropRoleOnly(r) ==
    /\ Changing /\ catalog[r] # NoRole
    /\ catalog' = [catalog EXCEPT ![r] = NoRole]
    /\ UNCHANGED <<grants, cascade, orphaned>>

\* drop_role deletes the record and then, best effort, the grants.
DropRole(r) ==
    /\ Changing /\ catalog[r] # NoRole
    /\ catalog' = [catalog EXCEPT ![r] = NoRole]
    /\ cascade' = r
    /\ UNCHANGED <<grants, orphaned>>

\* The deletes of the cascade, or an error of the engine that it ignores.
DropGrants ==
    /\ cascade # NoRole /\ cascade' = NoRole
    /\ \/ grants' = grants \ {cascade} /\ UNCHANGED orphaned
       \/ cascade \in grants /\ orphaned' = orphaned \cup {cascade} /\ UNCHANGED grants
    /\ UNCHANGED <<catalog, changes>>

RoleStatement ==
    /\ authEnabled
    /\ \/ \E r \in RoleNames :
             \/ \E p \in Passwords \cup {NoPassword} : CreateRole(r, p)
             \/ \E p \in Passwords : AlterRolePassword(r, p)
             \/ Grant(r) \/ DropRole(r)
       \/ DropGrants
    /\ UNCHANGED <<conn, tls, countVars, loginVars>> /\ Fixed

WsNext ==
    \/ \E c \in Conns :
        \/ Accept(c) \/ CloseGauge(c) \/ Hangup(c) \/ SslRequest(c) \/ StartupHead(c)
        \/ Startup(c) \/ TrustedLocal(c) \/ Round1(c) \/ Round2(c)
    \/ AcceptGauge \/ RoleStatement

WsSpec == WsInit /\ [][WsNext]_wsVars

-----------------------------------------------------------------------------

Live == {c \in Conns : conn[c] \notin {"new", "rejected", "closed"}}

\* The counter that limits connections counts the tasks that run, and once
\* every update has landed the gauge shows it, unless two updates of the
\* gauge were in flight at once (the fetch and the set are separate).
ConnectionsCounted ==
    /\ active = Cardinality(Live) /\ active <= MaxConnections
    /\ (accepting = -1 /\ (\A c \in Conns : closing[c] = -1) /\ ~gaugeRaced) => gauge = active

\* The server admits as configured: it counts its connections exactly up to
\* max_connections; with tls_mode require a session starts only inside TLS;
\* and a login succeeds only with the password the role has when the proof
\* is verified, whatever was altered or dropped between the two rounds.
AdmitsAsConfigured ==
    /\ []ConnectionsCounted
    /\ [][\A c \in Conns : session'[c] # session[c] =>
              /\ catalog[role[c]] = knows[c]
              /\ tlsMode = "require" => c \in tls]_wsVars

\* A role that does not exist holds no grant, so that a role of the same name
\* created later starts with none, unless the engine failed a delete of the
\* cascade, which drop_role ignores.
GrantsHaveRoleUnlessCut ==
    cascade = NoRole => \A r \in grants : catalog[r] # NoRole \/ r \in orphaned

=============================================================================
