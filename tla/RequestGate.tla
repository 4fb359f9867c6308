----------------------------- MODULE RequestGate -----------------------------
(***************************************************************************)
(* What a request passes before its handler runs: the middleware of        *)
(* main.ts, which chooses the schema, TenantMiddleware, which admits the   *)
(* tenant, JwtStrategy, which looks the caller up, and the guards.  Each   *)
(* awaits the database, and requests overlap: tenants are registered and   *)
(* deactivated, and users inserted, between the checks of a request.       *)
(*                                                                         *)
(* A tenant may be spelled in many ways (upper case, hyphens); SchemaOf is *)
(* sanitizedTenantName.  Bodies are not validated at run time: no          *)
(* ValidationPipe is installed, so a registration may ask for any role.    *)
(* Accounts, admins and registry rows are never deleted by the code.       *)
(***************************************************************************)
CONSTANTS
  Schemas,    \* names of tenant schemas
  Spellings,  \* values of the x-tenant-id header
  SchemaOf,   \* [Spellings -> Schemas]
  Emails,
  Requests,   \* requests in flight together
  None

Public == "public"

ASSUME GateAssumption ==
  /\ SchemaOf \in [Spellings -> Schemas]
  /\ None \notin Spellings
  /\ Public \notin Schemas

VARIABLES
  registry,  \* schema -> its row in public.tenant
  users,     \* the user rows of all tenants
  jobs,      \* task jobs pushed: the tenant's schema and the reporter
  req        \* request -> what it is and how far it got, or None

vars == <<registry, users, jobs, req>>

Role == {"admin", "reporter", "user"}

Accounts == [schema : Schemas, email : Emails, role : Role]

\* The roles a route lists with @Roles; the failure logs list none.
AllowedRoles == [create |-> {"reporter"},
                 me     |-> {"user", "reporter"},
                 tenant |-> {"admin"}]

GuardedRoutes == {"create", "me", "logs", "tenant"}
Routes        == GuardedRoutes \cup {"register"}

\* The payloads the two login handlers sign: the tenant is the header as it
\* was spelled, the user one found in that tenant's schema.
Management == [scope |-> "management", tenant |-> None, user |-> None]
TenantToken(spelling, user) ==
  [scope |-> "tenant", tenant |-> spelling, user |-> user]

\* The tokens that may have been issued by now.
Signed ==
  {Management} \cup
  {t \in {TenantToken(s, u) : s \in Spellings, u \in users} :
     SchemaOf[t.tenant] = t.user.schema}

Init ==
  /\ registry = [s \in Schemas |-> "absent"]
  /\ users = {}
  /\ jobs = {}
  /\ req = [r \in Requests |-> None]

(***************************************************************************)
(* The gate.                                                               *)
(***************************************************************************)
\* The routes of management, by their path: they need no tenant.
IsPublicManagementPath(route) == route = "tenant"

\* Faulty variant: the schema is the header as it was spelled.
RequestSchemaRaw(route, header) ==
  IF IsPublicManagementPath(route) THEN Public ELSE header

\* The schema of the request's EntityManager.
RequestSchema(route, header) ==
  IF IsPublicManagementPath(route) THEN Public ELSE SchemaOf[header]

Move(r, from, to) ==
  /\ req[r] # None
  /\ req[r].phase = from
  /\ req' = [req EXCEPT ![r].phase = to]

Respond(r) == req' = [req EXCEPT ![r] = None]

\* The middleware of main.ts; only management routes need no header.  (The
\* token of a registration is not looked at.)
Open(r, route, header, token) ==
  /\ req[r] = None
  /\ ~IsPublicManagementPath(route) => header # None
  /\ token # None => route \in GuardedRoutes
  /\ LET schema == RequestSchema(route, header)
     IN  req' = [req EXCEPT ![r] =
           [phase |-> "opened", route |-> route, header |-> header,
            token |-> token, schema |-> schema, email |-> None,
            shut |-> schema \in Schemas /\ registry[schema] = "inactive"]]
  /\ UNCHANGED <<registry, users, jobs>>

\* Faulty variant: a registered tenant is admitted.
AdmissibleIfKnown(q) ==
  ~IsPublicManagementPath(q.route) => registry[q.schema] # "absent"

\* TenantMiddleware looks the tenant up; management routes pass.
Admissible(q) ==
  ~IsPublicManagementPath(q.route) => registry[q.schema] = "active"

Admit(r) ==
  /\ Move(r, "opened", "admitted")
  /\ Admissible(req[r])
  /\ UNCHANGED <<registry, users, jobs>>

\* Faulty variant: the header is not compared with the token.
ValidTokenAnyHeader(q) == q.token # Management => q.token.user \in users

\* JwtStrategy: a tenant token needs its own header, spelled alike, and a
\* user row in the tenant's schema.
ValidToken(q) ==
  q.token # Management =>
    q.header = q.token.tenant /\ q.token.user \in users

Authenticate(r) ==
  /\ Move(r, "admitted", "authenticated")
  /\ req[r].route \in GuardedRoutes
  /\ req[r].token # None
  /\ ValidToken(req[r])
  /\ UNCHANGED <<registry, users, jobs>>

CallerRole(token) == IF token = Management THEN "admin" ELSE token.user.role

\* Faulty variant: the tenant routes have no ManagementScopeGuard.
PermittedByRole(q) ==
  IF q.route = "logs" THEN CallerRole(q.token) # "admin"
  ELSE CallerRole(q.token) \in AllowedRoles[q.route]

\* RolesGuard (an admin only where admins are listed, anybody else where no
\* roles are listed), and ManagementScopeGuard on the tenant routes.
Permitted(q) ==
  /\ PermittedByRole(q)
  /\ q.route = "tenant" => q.token.scope = "management"

\* FindTenantByNameQuery, then the guards.  The query accepts a registered
\* tenant, and an unregistered one whose schema is there, so it refuses nobody
\* whom TenantMiddleware and the header check let through.
Authorize(r) ==
  /\ Move(r, "authenticated", "handling")
  /\ Permitted(req[r])
  /\ UNCHANGED <<registry, users, jobs>>

\* A check fails, a query rejects, the process dies, or a handler that only
\* reads has answered.
Close(r) ==
  /\ req[r] # None
  /\ Respond(r)
  /\ UNCHANGED <<registry, users, jobs>>

(***************************************************************************)
(* The handlers.                                                           *)
(***************************************************************************)
\* The registration finds the email free in the schema of its request ...
CheckEmail(r, email) ==
  /\ req[r] # None
  /\ req[r].phase = "admitted"
  /\ req[r].route = "register"
  /\ req' = [req EXCEPT ![r].phase = "checked", ![r].email = email]
  /\ ~\E u \in users : u.schema = req[r].schema /\ u.email = email
  /\ UNCHANGED <<registry, users, jobs>>

\* ... and inserts it; the email is unique in its schema.
InsertUser(r, account) ==
  /\ req[r] # None
  /\ req[r].phase = "checked"
  /\ account.schema = req[r].schema
  /\ account.email = req[r].email
  /\ ~\E u \in users : u.schema = account.schema /\ u.email = account.email
  /\ users' = users \cup {account}
  /\ Respond(r)
  /\ UNCHANGED <<registry, jobs>>

Handling(r, route) ==
  /\ req[r] # None
  /\ req[r].phase = "handling"
  /\ req[r].route = route

\* Faulty variant: the job carries the tenant as the token spells it.
JobSchemaRaw(token) == token.tenant

\* The tenant of the token, sanitized by pushEventToQueue.
JobSchema(token) == SchemaOf[token.tenant]

CreateTask(r) ==
  /\ Handling(r, "create")
  /\ jobs' = jobs \cup {[schema |-> JobSchema(req[r].token),
                         reporter |-> req[r].token.user]}
  /\ Respond(r)
  /\ UNCHANGED <<registry, users>>

\* The row of a new tenant is inserted (TenantRegistry has the other steps of
\* a creation, and its failures).
CreateTenant(r, s) ==
  /\ Handling(r, "tenant")
  /\ registry[s] = "absent"
  /\ registry' = [registry EXCEPT ![s] = "active"]
  /\ Respond(r)
  /\ UNCHANGED <<users, jobs>>

DeactivateTenant(r, s) ==
  /\ Handling(r, "tenant")
  /\ registry[s] # "absent"
  /\ registry' = [registry EXCEPT ![s] = "inactive"]
  /\ Respond(r)
  /\ UNCHANGED <<users, jobs>>

Next == \E r \in Requests :
  \/ \E route \in Routes, header \in Spellings \cup {None},
        token \in Signed \cup {None} : Open(r, route, header, token)
  \/ Admit(r)
  \/ Authenticate(r)
  \/ Authorize(r)
  \/ Close(r)
  \/ \E email \in Emails : CheckEmail(r, email)
  \/ \E account \in Accounts : InsertUser(r, account)
  \/ CreateTask(r)
  \/ \E s \in Schemas : CreateTenant(r, s) \/ DeactivateTenant(r, s)

Spec == Init /\ [][Next]_vars

(***************************************************************************)
(* Properties.                                                             *)
(***************************************************************************)
Tokens == {Management} \cup [scope : {"tenant"}, tenant : Spellings, user : Accounts]

RequestStates ==
  [phase : {"opened", "admitted", "authenticated", "checked", "handling"},
   route : Routes, header : Spellings \cup {None}, token : Tokens \cup {None},
   schema : Schemas \cup {Public}, email : Emails \cup {None}, shut : BOOLEAN]

\* The values the tables, the queue and the requests can hold.
TypeOK ==
  /\ registry \in [Schemas -> {"absent", "active", "inactive"}]
  /\ users \subseteq Accounts
  /\ jobs \subseteq [schema : Schemas, reporter : Accounts]
  /\ req \in [Requests -> RequestStates \cup {None}]

InPhase(r, phase) == req[r] # None /\ req[r].phase = phase

\* A handler of a tenant's route works in the caller's own tenant: the schema
\* of its EntityManager, which main.ts took from the header, is the one the
\* caller's row is in, which JwtStrategy took from the token.
HandlerInOwnTenant ==
  \A r \in Requests :
    InPhase(r, "handling") /\ req[r].route # "tenant" =>
      /\ req[r].token # Management
      /\ req[r].token.user \in users
      /\ req[r].token.user.schema = req[r].schema

\* Management tokens and tenant tokens never reach each other's handlers
\* (README.md:133), whatever role a tenant's user registered with.
ManagementSeparated ==
  \A r \in Requests :
    InPhase(r, "handling") => (req[r].route = "tenant" <=> req[r].token = Management)

\* A request that arrives after its tenant was deactivated is not handled,
\* whatever tokens were signed before and whoever is registered meanwhile.
DeactivatedIsShut ==
  \A r \in Requests :
    InPhase(r, "handling") \/ InPhase(r, "checked") => ~req[r].shut

\* The worker finds what a job refers to: the schema in the job is the one
\* the reporter is a user of, and it is that of a registered tenant
\* (task.processor.ts:36 and 55).
JobFindsReporter ==
  \A j \in jobs :
    /\ j.reporter \in users
    /\ j.reporter.schema = j.schema
    /\ registry[j.schema] # "absent"

\* The rows the gate reads keep the contract of TenantRow, as the processes of
\* TenantRegistry do; the overlapping requests of this module write them in one
\* step each.
Row(s) == INSTANCE TenantRow WITH row <- registry[s]
=============================================================================
