-------------------------- MODULE RequestGateProofs --------------------------
(***************************************************************************)
(* Proofs about RequestGate, for any tenants, spellings, emails and number *)
(* of overlapping requests.                                                *)
(***************************************************************************)
EXTENDS RequestGate, TLAPS

\* What is true of a request on its way, from the checks it has passed.
SchemaIsHeader(q) ==
  q.route # "tenant" => q.header \in Spellings /\ q.schema = SchemaOf[q.header]

TokenIsSigned(q) ==
  q.token # None /\ q.token # Management =>
    /\ q.token.user \in users
    /\ q.token.user.schema = SchemaOf[q.token.tenant]

ShutIsInactive(q) ==
  q.shut => q.route # "tenant" /\ registry[q.schema] = "inactive"

AdmittedIsOpen(q) ==
  q.phase # "opened" =>
    /\ ~q.shut
    /\ q.route # "tenant" => registry[q.schema] # "absent"

CallerIsKnown(q) ==
  q.phase \in {"authenticated", "handling"} =>
    q.route \in GuardedRoutes /\ q.token # None /\ ValidToken(q)

HandlerIsPermitted(q) == q.phase = "handling" => Permitted(q)

CheckedRegisters(q) == q.phase = "checked" => q.route = "register"

RequestOK(q) ==
  /\ SchemaIsHeader(q)
  /\ TokenIsSigned(q)
  /\ ShutIsInactive(q)
  /\ AdmittedIsOpen(q)
  /\ CallerIsKnown(q)
  /\ HandlerIsPermitted(q)
  /\ CheckedRegisters(q)

RequestsOK == \A r \in Requests : req[r] # None => RequestOK(req[r])

\* An account is in the schema of a tenant that is, or was, registered.
AccountsHaveTenant == \A u \in users : registry[u.schema] # "absent"

\* The inductive invariant.
IInv ==
  /\ TypeOK
  /\ RequestsOK
  /\ AccountsHaveTenant
  /\ JobFindsReporter

LEMMA InitIInv == Init => IInv
BY GateAssumption
   DEF Init, IInv, TypeOK, RequestsOK, AccountsHaveTenant,
       JobFindsReporter

\* What is known of a request stays true while others register accounts and
\* tenants or deactivate them: accounts stay, and an inactive tenant too.
LEMMA RequestFrame ==
  ASSUME TypeOK, NEW q \in RequestStates, RequestOK(q),
         users \subseteq users',
         \A s \in Schemas :
           /\ registry[s] # "absent" => registry'[s] # "absent"
           /\ registry[s] = "inactive" => registry'[s] = "inactive"
  PROVE  RequestOK(q)'
<1>1. q.route # "tenant" => q.schema \in Schemas
  BY GateAssumption DEF RequestOK, SchemaIsHeader
<1>2. SchemaIsHeader(q)' /\ CheckedRegisters(q)' /\ HandlerIsPermitted(q)'
  BY DEF RequestOK, SchemaIsHeader, CheckedRegisters, HandlerIsPermitted
<1>3. TokenIsSigned(q)'
  BY DEF RequestOK, TokenIsSigned
<1>4. ShutIsInactive(q)' /\ AdmittedIsOpen(q)'
  BY <1>1 DEF RequestOK, ShutIsInactive, AdmittedIsOpen
<1>5. CallerIsKnown(q)'
  BY DEF RequestOK, CallerIsKnown, ValidToken
<1> QED  BY <1>2, <1>3, <1>4, <1>5 DEF RequestOK

\* A step keeps RequestsOK if it keeps what is known of its own request and
\* takes nothing away from the others.
LEMMA RequestsFrame ==
  ASSUME TypeOK, RequestsOK, NEW r \in Requests,
         req' = [req EXCEPT ![r] = req'[r]],
         req'[r] # None => RequestOK(req[r])' ,
         users \subseteq users',
         \A s \in Schemas :
           /\ registry[s] # "absent" => registry'[s] # "absent"
           /\ registry[s] = "inactive" => registry'[s] = "inactive"
  PROVE  RequestsOK'
<1> SUFFICES ASSUME NEW o \in Requests, req'[o] # None
             PROVE  RequestOK(req[o])'
  BY DEF RequestsOK
<1>1. CASE o = r
  BY <1>1
<1>2. CASE o # r
  <2>1. req'[o] = req[o] /\ req[o] \in RequestStates
    BY <1>2 DEF TypeOK
  <2>2. RequestOK(req[o])
    BY <2>1 DEF RequestsOK
  <2>3. \A q \in RequestStates : RequestOK(q) => RequestOK(q)'
    BY RequestFrame
  <2> QED  BY <2>1, <2>2, <2>3
<1> QED  BY <1>1, <1>2

\* Registering nobody and no tenant leaves the accounts and the jobs alone.
LEMMA DataFrame ==
  ASSUME IInv, UNCHANGED <<registry, users, jobs>>
  PROVE  AccountsHaveTenant' /\ JobFindsReporter'
BY DEF IInv, AccountsHaveTenant, JobFindsReporter

\* A step that only takes a request on keeps the invariant if the facts hold
\* of the request after it.
LEMMA MoveStep ==
  ASSUME IInv, NEW r \in Requests, NEW q \in RequestStates,
         req' = [req EXCEPT ![r] = q],
         RequestOK(q), UNCHANGED <<registry, users, jobs>>
  PROVE  IInv'
<1>1. TypeOK'
  BY DEF IInv, TypeOK
<1>2. RequestOK(req[r])'
  <2>1. req'[r] = q
    BY DEF IInv, TypeOK
  <2>2. RequestOK(q)'
    BY RequestFrame DEF IInv
  <2> QED  BY <2>1, <2>2
<1>3. RequestsOK'
  BY <1>2, RequestsFrame DEF IInv, TypeOK
<1> QED  BY <1>1, <1>3, DataFrame DEF IInv

LEMMA OpenStep ==
  ASSUME IInv, NEW r \in Requests, NEW route \in Routes,
         NEW header \in Spellings \cup {None}, NEW token \in Signed \cup {None},
         Open(r, route, header, token)
  PROVE  IInv'
<1> DEFINE schema == RequestSchema(route, header)
           q == [phase |-> "opened", route |-> route, header |-> header,
                 token |-> token, schema |-> schema, email |-> None,
                 shut |-> schema \in Schemas /\ registry[schema] = "inactive"]
<1>1. schema \in Schemas \cup {Public}
  BY GateAssumption DEF Open, RequestSchema, IsPublicManagementPath
<1>2. token \in Tokens \cup {None}
  BY DEF IInv, TypeOK, Signed, TenantToken, Tokens
<1>3. q \in RequestStates
  BY <1>1, <1>2 DEF RequestStates
<1>4. req' = [req EXCEPT ![r] = q] /\ UNCHANGED <<registry, users, jobs>>
  BY DEF Open
<1>5. RequestOK(q)
  <2>1. SchemaIsHeader(q)
    BY DEF SchemaIsHeader, Open, RequestSchema, IsPublicManagementPath
  <2>2. TokenIsSigned(q)
    BY DEF TokenIsSigned, Signed, TenantToken
  <2>3. ShutIsInactive(q)
    BY GateAssumption DEF ShutIsInactive, RequestSchema, IsPublicManagementPath
  <2>4. AdmittedIsOpen(q) /\ CallerIsKnown(q) /\ HandlerIsPermitted(q)
        /\ CheckedRegisters(q)
    BY DEF AdmittedIsOpen, CallerIsKnown, HandlerIsPermitted, CheckedRegisters
  <2> QED  BY <2>1, <2>2, <2>3, <2>4 DEF RequestOK
<1> QED  BY <1>3, <1>4, <1>5, MoveStep

LEMMA AdmitStep ==
  ASSUME IInv, NEW r \in Requests, Admit(r)
  PROVE  IInv'
<1> DEFINE q == [req[r] EXCEPT !.phase = "admitted"]
<1>1. /\ req[r] # None /\ req[r] \in RequestStates
      /\ req[r].phase = "opened" /\ RequestOK(req[r])
  BY DEF Admit, Move, IInv, TypeOK, RequestsOK
<1>2. q \in RequestStates /\ req' = [req EXCEPT ![r] = q]
  BY <1>1 DEF RequestStates, Admit, Move
<1>3. SchemaIsHeader(q) /\ TokenIsSigned(q) /\ ShutIsInactive(q)
  BY <1>1 DEF RequestStates, RequestOK, SchemaIsHeader, TokenIsSigned,
         ShutIsInactive
<1>4. AdmittedIsOpen(q)
  BY <1>1 DEF RequestStates, RequestOK, ShutIsInactive, AdmittedIsOpen, Admit,
         Admissible, IsPublicManagementPath
<1>5. CallerIsKnown(q) /\ HandlerIsPermitted(q) /\ CheckedRegisters(q)
  BY <1>1 DEF RequestStates, CallerIsKnown, HandlerIsPermitted, CheckedRegisters
<1>6. RequestOK(q)
  BY <1>3, <1>4, <1>5 DEF RequestOK
<1> QED  BY <1>1, <1>2, <1>6, MoveStep DEF Admit

LEMMA AuthenticateStep ==
  ASSUME IInv, NEW r \in Requests, Authenticate(r)
  PROVE  IInv'
<1> DEFINE q == [req[r] EXCEPT !.phase = "authenticated"]
<1>1. /\ req[r] # None /\ req[r] \in RequestStates
      /\ req[r].phase = "admitted" /\ RequestOK(req[r])
  BY DEF Authenticate, Move, IInv, TypeOK, RequestsOK
<1>2. q \in RequestStates /\ req' = [req EXCEPT ![r] = q]
  BY <1>1 DEF RequestStates, Authenticate, Move
<1>3. SchemaIsHeader(q) /\ TokenIsSigned(q) /\ ShutIsInactive(q) /\ AdmittedIsOpen(q)
  BY <1>1 DEF RequestStates, RequestOK, SchemaIsHeader, TokenIsSigned,
         ShutIsInactive, AdmittedIsOpen
<1>4. CallerIsKnown(q)
  BY <1>1 DEF RequestStates, CallerIsKnown, Authenticate, ValidToken
<1>5. HandlerIsPermitted(q) /\ CheckedRegisters(q)
  BY <1>1 DEF RequestStates, HandlerIsPermitted, CheckedRegisters
<1>6. RequestOK(q)
  BY <1>3, <1>4, <1>5 DEF RequestOK
<1> QED  BY <1>1, <1>2, <1>6, MoveStep DEF Authenticate

LEMMA AuthorizeStep ==
  ASSUME IInv, NEW r \in Requests, Authorize(r)
  PROVE  IInv'
<1> DEFINE q == [req[r] EXCEPT !.phase = "handling"]
<1>1. /\ req[r] # None /\ req[r] \in RequestStates
      /\ req[r].phase = "authenticated" /\ RequestOK(req[r])
  BY DEF Authorize, Move, IInv, TypeOK, RequestsOK
<1>2. q \in RequestStates /\ req' = [req EXCEPT ![r] = q]
  BY <1>1 DEF RequestStates, Authorize, Move
<1>3. SchemaIsHeader(q) /\ TokenIsSigned(q) /\ ShutIsInactive(q) /\ AdmittedIsOpen(q)
  BY <1>1 DEF RequestStates, RequestOK, SchemaIsHeader, TokenIsSigned,
         ShutIsInactive, AdmittedIsOpen
<1>4. CallerIsKnown(q)
  BY <1>1 DEF RequestStates, RequestOK, CallerIsKnown, ValidToken
<1>5. HandlerIsPermitted(q) /\ CheckedRegisters(q)
  BY <1>1 DEF RequestStates, HandlerIsPermitted, CheckedRegisters, Authorize,
         Permitted, PermittedByRole
<1>6. RequestOK(q)
  BY <1>3, <1>4, <1>5 DEF RequestOK
<1> QED  BY <1>1, <1>2, <1>6, MoveStep DEF Authorize

LEMMA CheckEmailStep ==
  ASSUME IInv, NEW r \in Requests, NEW email \in Emails, CheckEmail(r, email)
  PROVE  IInv'
<1> DEFINE q == [req[r] EXCEPT !.phase = "checked", !.email = email]
<1>1. /\ req[r] # None /\ req[r] \in RequestStates
      /\ req[r].phase = "admitted" /\ req[r].route = "register"
      /\ RequestOK(req[r])
  BY DEF CheckEmail, IInv, TypeOK, RequestsOK
<1>2. q \in RequestStates /\ req' = [req EXCEPT ![r] = q]
  BY <1>1 DEF RequestStates, CheckEmail
<1>3. SchemaIsHeader(q) /\ TokenIsSigned(q) /\ ShutIsInactive(q) /\ AdmittedIsOpen(q)
  BY <1>1 DEF RequestStates, RequestOK, SchemaIsHeader, TokenIsSigned,
         ShutIsInactive, AdmittedIsOpen
<1>4. CallerIsKnown(q) /\ HandlerIsPermitted(q) /\ CheckedRegisters(q)
  BY <1>1 DEF RequestStates, CallerIsKnown, HandlerIsPermitted, CheckedRegisters
<1>5. RequestOK(q)
  BY <1>3, <1>4 DEF RequestOK
<1> QED  BY <1>1, <1>2, <1>5, MoveStep DEF CheckEmail

LEMMA CloseStep ==
  ASSUME IInv, NEW r \in Requests, Close(r)
  PROVE  IInv'
<1>1. req' = [req EXCEPT ![r] = None] /\ UNCHANGED <<registry, users, jobs>>
  BY DEF Close, Respond
<1>2. TypeOK'
  BY <1>1 DEF IInv, TypeOK
<1>3. RequestsOK'
  BY <1>1, RequestsFrame DEF IInv, TypeOK
<1> QED  BY <1>1, <1>2, <1>3, DataFrame DEF IInv

LEMMA InsertUserStep ==
  ASSUME IInv, NEW r \in Requests, NEW account \in Accounts,
         InsertUser(r, account)
  PROVE  IInv'
<1>1. /\ req' = [req EXCEPT ![r] = None]
      /\ users' = users \cup {account}
      /\ UNCHANGED <<registry, jobs>>
  BY DEF InsertUser, Respond
<1>2. TypeOK'
  BY <1>1 DEF IInv, TypeOK
<1>3. RequestsOK'
  BY <1>1, RequestsFrame DEF IInv, TypeOK
<1>4. AccountsHaveTenant'
  <2>1. registry[account.schema] # "absent"
    BY DEF InsertUser, IInv, RequestsOK, RequestOK, AdmittedIsOpen,
           CheckedRegisters
  <2> QED  BY <1>1, <2>1 DEF IInv, AccountsHaveTenant
<1>5. JobFindsReporter'
  BY <1>1 DEF IInv, JobFindsReporter
<1> QED  BY <1>2, <1>3, <1>4, <1>5 DEF IInv

\* A tenant's token that reached the handler of a task's creation names the
\* tenant its user is in.
LEMMA CreateTaskStep ==
  ASSUME IInv, NEW r \in Requests, CreateTask(r)
  PROVE  IInv'
<1> DEFINE q == req[r]
           job == [schema |-> JobSchema(q.token), reporter |-> q.token.user]
<1>1. /\ req' = [req EXCEPT ![r] = None]
      /\ jobs' = jobs \cup {job}
      /\ UNCHANGED <<registry, users>>
  BY DEF CreateTask, Respond
<1>2. q # None /\ q \in RequestStates /\ RequestOK(q)
      /\ q.phase = "handling" /\ q.route = "create"
  BY DEF CreateTask, Handling, IInv, TypeOK, RequestsOK
<1>3. q.token # None /\ q.token # Management
  BY <1>2 DEF RequestOK, CallerIsKnown, HandlerIsPermitted, Permitted,
         PermittedByRole, CallerRole, AllowedRoles
<1>4. q.token.user \in users /\ q.token.user.schema = job.schema
  BY <1>2, <1>3 DEF RequestOK, TokenIsSigned, JobSchema
<1>5. registry[job.schema] # "absent"
  BY <1>4 DEF IInv, AccountsHaveTenant
<1>6. job.schema \in Schemas /\ job.reporter \in Accounts
  BY <1>4 DEF IInv, TypeOK, Accounts
<1>7. TypeOK'
  BY <1>1, <1>6 DEF IInv, TypeOK
<1>8. RequestsOK'
  BY <1>1, RequestsFrame DEF IInv, TypeOK
<1>9. JobFindsReporter'
  BY <1>1, <1>4, <1>5 DEF IInv, JobFindsReporter
<1>10. AccountsHaveTenant'
  BY <1>1 DEF IInv, AccountsHaveTenant
<1> QED  BY <1>7, <1>8, <1>9, <1>10 DEF IInv

\* The two steps that write the registry: no row disappears, and no tenant
\* that is inactive becomes active.
LEMMA RegistryStep ==
  ASSUME IInv, NEW r \in Requests, NEW s \in Schemas,
         CreateTenant(r, s) \/ DeactivateTenant(r, s)
  PROVE  IInv'
<1>1. req' = [req EXCEPT ![r] = None] /\ UNCHANGED <<users, jobs>>
  BY DEF CreateTenant, DeactivateTenant, Respond
<1>2. \A t \in Schemas :
        /\ registry[t] # "absent" => registry'[t] # "absent"
        /\ registry[t] = "inactive" => registry'[t] = "inactive"
  BY DEF IInv, TypeOK, CreateTenant, DeactivateTenant
<1>3. TypeOK'
  BY <1>1 DEF IInv, TypeOK, CreateTenant, DeactivateTenant
<1>4. RequestsOK'
  BY <1>1, <1>2, RequestsFrame DEF IInv, TypeOK
<1>5. AccountsHaveTenant' /\ JobFindsReporter'
  BY <1>1, <1>2 DEF IInv, TypeOK, Accounts, AccountsHaveTenant,
         JobFindsReporter
<1> QED  BY <1>3, <1>4, <1>5 DEF IInv

LEMMA NextIInv == IInv /\ [Next]_vars => IInv'
<1> SUFFICES ASSUME IInv, [Next]_vars PROVE IInv'
  OBVIOUS
<1>1. CASE UNCHANGED vars
  BY <1>1 DEF vars, IInv, TypeOK, RequestsOK, RequestOK, SchemaIsHeader,
         TokenIsSigned, ShutIsInactive, AdmittedIsOpen, CallerIsKnown, ValidToken,
         HandlerIsPermitted, CheckedRegisters, AccountsHaveTenant,
         JobFindsReporter
<1>2. CASE Next
  BY <1>2, OpenStep, AdmitStep, AuthenticateStep, AuthorizeStep, CloseStep,
     CheckEmailStep, InsertUserStep, CreateTaskStep, RegistryStep
     DEF Next
<1> QED  BY <1>1, <1>2

\* What is known of the requests in flight holds in every reachable state.
THEOREM Invariance == Spec => []IInv
BY InitIInv, NextIInv, PTL DEF Spec

\* The tables, the queue and the requests hold values of their types.
THEOREM TypeCorrect == Spec => []TypeOK
<1>1. IInv => TypeOK
  BY DEF IInv
<1> QED  BY <1>1, Invariance, PTL

LEMMA HandlerFacts ==
  ASSUME IInv, NEW r \in Requests, InPhase(r, "handling")
  PROVE  /\ req[r] \in RequestStates /\ RequestOK(req[r])
         /\ req[r].token \in Tokens /\ Permitted(req[r])
         /\ req[r].route \in GuardedRoutes
         /\ ValidToken(req[r])
<1>1. req[r] \in RequestStates /\ RequestOK(req[r])
  BY DEF InPhase, IInv, TypeOK, RequestsOK
<1> QED  BY <1>1 DEF InPhase, RequestStates, RequestOK, CallerIsKnown,
               HandlerIsPermitted

\* The handler of a tenant's route works in the tenant of its caller, however
\* the tenant is spelled (main.ts, jwt.strategy.ts, role.guard.ts).
THEOREM CallersTenant == Spec => []HandlerInOwnTenant
<1>1. IInv => HandlerInOwnTenant
  <2> SUFFICES ASSUME IInv, NEW r \in Requests, InPhase(r, "handling"),
                      req[r].route # "tenant"
               PROVE  /\ req[r].token # Management
                      /\ req[r].token.user \in users
                      /\ req[r].token.user.schema = req[r].schema
    BY DEF HandlerInOwnTenant
  <2>1. req[r].token # Management
    BY HandlerFacts DEF Permitted, PermittedByRole, CallerRole, AllowedRoles,
                        GuardedRoutes
  <2>2. req[r].token # None
    BY HandlerFacts DEF InPhase, RequestOK, CallerIsKnown
  <2> QED  BY <2>1, <2>2, HandlerFacts DEF RequestOK, ValidToken, TokenIsSigned,
                  SchemaIsHeader
<1> QED  BY <1>1, Invariance, PTL

\* Management routes are for management tokens only, and the other way round
\* (README.md:133; role.guard.ts and management-scope.guard.ts).
THEOREM ScopesAreSeparate == Spec => []ManagementSeparated
<1>1. IInv => ManagementSeparated
  <2> SUFFICES ASSUME IInv, NEW r \in Requests, InPhase(r, "handling")
               PROVE  req[r].route = "tenant" <=> req[r].token = Management
    BY DEF ManagementSeparated
  <2>1. CASE req[r].route = "tenant"
    BY <2>1, HandlerFacts DEF Permitted, Tokens
  <2>2. CASE req[r].route # "tenant"
    BY <2>2, HandlerFacts DEF Permitted, PermittedByRole, CallerRole,
           AllowedRoles, GuardedRoutes
  <2> QED  BY <2>1, <2>2
<1> QED  BY <1>1, Invariance, PTL

\* A deactivated tenant admits no new request (tenant.middleware.ts:38).
THEOREM DeactivationShuts == Spec => []DeactivatedIsShut
<1>1. IInv => DeactivatedIsShut
  BY DEF IInv, RequestsOK, RequestOK, AdmittedIsOpen, DeactivatedIsShut, InPhase
<1> QED  BY <1>1, Invariance, PTL

\* The schema in a job is that of a registered tenant, and of the reporter
\* (event.service.ts:37).
THEOREM JobsAreResolvable == Spec => []JobFindsReporter
<1>1. IInv => JobFindsReporter
  BY DEF IInv
<1> QED  BY <1>1, Invariance, PTL

\* A request changes the row of one tenant, by the contract of TenantRow.
LEMMA RowStep ==
  ASSUME IInv, [Next]_vars, NEW s \in Schemas
  PROVE  [Row(s)!Next]_(registry[s])
<1> USE DEF Row!Next, Row!Register, Row!Deactivate
<1>1. registry = [x \in Schemas |-> registry[x]]
  BY DEF IInv, TypeOK
<1>2. CASE UNCHANGED registry
  BY <1>2
<1>3. ASSUME NEW r \in Requests, NEW x \in Schemas,
             CreateTenant(r, x) \/ DeactivateTenant(r, x)
      PROVE  Row(s)!Next \/ registry'[s] = registry[s]
  BY <1>1, <1>3 DEF CreateTenant, DeactivateTenant
<1> QED
  BY <1>2, <1>3 DEF vars, Next, Open, Admit, Authenticate, Authorize, Close,
     CheckEmail, InsertUser, CreateTask

\* The registry the gate reads keeps, for each tenant, the contract that the
\* creations, deactivations and scripts of TenantRegistry are proved to keep.
THEOREM GateKeepsRows ==
  ASSUME NEW s \in Schemas
  PROVE  Spec => Row(s)!Spec
<1>1. Init => Row(s)!Init
  BY DEF Init, Row!Init
<1>2. IInv /\ [Next]_vars => [Row(s)!Next]_(registry[s])
  BY RowStep
<1> QED
  BY <1>1, <1>2, Invariance, PTL DEF Spec, Row!Spec
=============================================================================
