-------------------------------- MODULE DemoData --------------------------------
(***************************************************************************)
(* What pnpm seed:database and pnpm seed:tenant put into a tenant: the     *)
(* management admin, two demo accounts and the demo tasks, in three        *)
(* flushes that no transaction joins.  The first script seeds when it is   *)
(* done with the registration of the tenant (TenantRegistry), the second   *)
(* seeds whatever schema it is given.  Meanwhile the API registers         *)
(* accounts and the worker creates tasks, which may take the very emails   *)
(* and titles the seeder wants.                                            *)
(***************************************************************************)
EXTENDS TenantRegistry

CONSTANTS
  Reseeds,     \* runs of seed-tenants.ts
  LaterTitles  \* the demo titles after the first

ASSUME ReseedsAssumption == Reseeds \cap Processes = {}
ASSUME TitlesAssumption == "kickoff" \notin LaterTitles

Accounts == {"user", "reporter"}          \* user@ and reporter@assignment.local
Titles   == {"kickoff"} \cup LaterTitles
Seeders  == Seeds \cup Reseeds

VARIABLES
  admin,     \* the default row of the admin table exists
  accounts,  \* demo email -> who made its row, or "absent"
  tasks,     \* demo title -> who made its row, or "absent"
  step,      \* seeder -> where it is
  missing    \* seeder -> the demo emails it did not find

dataVars == <<admin, accounts, tasks>>
demoVars == <<dataVars, step, missing>>

DemoInit ==
  /\ Init
  /\ admin = FALSE
  /\ accounts = [e \in Accounts |-> "absent"]
  /\ tasks = [t \in Titles |-> "absent"]
  /\ step = [p \in Seeders |-> "idle"]
  /\ missing = [p \in Seeders |-> {}]

StepTo(p, from, to) == step[p] = from /\ step' = [step EXCEPT ![p] = to]

(***************************************************************************)
(* SchemaSeeder.run, by the full script only.                              *)
(***************************************************************************)
\* Faulty variant: nobody waits for the registration of the tenant.
FindAdminUnawaited(p) ==
  /\ p \in Seeds
  /\ StepTo(p, "idle", IF admin THEN "findUser" ELSE "insertAdmin")
  /\ UNCHANGED <<dataVars, missing>>

FindAdmin(p) ==
  /\ p \in Seeds
  /\ pc[p] = "done"
  /\ StepTo(p, "idle", IF admin THEN "findUser" ELSE "insertAdmin")
  /\ UNCHANGED <<dataVars, missing>>

\* admin.email is unique.
AdminFree == ~admin

InsertAdmin(p) ==
  /\ StepTo(p, "insertAdmin", "findUser")
  /\ AdminFree
  /\ admin' = TRUE
  /\ UNCHANGED <<accounts, tasks, missing>>

\* seed:tenant starts with the demo data.
StartReseed(p) ==
  /\ p \in Reseeds
  /\ StepTo(p, "idle", "findUser")
  /\ UNCHANGED <<dataVars, missing>>

(***************************************************************************)
(* DatabaseSeeder.run.  A query fails while the tables are not there.      *)
(***************************************************************************)
\* Faulty variant: what the lookup returned is collected, not the email.
FindAccountRow(p, e, from, to) ==
  /\ tables
  /\ StepTo(p, from, to)
  /\ missing' = [missing EXCEPT
       ![p] = IF accounts[e] = "absent" THEN @ \cup {accounts[e]} ELSE @]
  /\ UNCHANGED dataVars

\* One of the two accounts is looked up; one that exists is left alone.
FindAccount(p, e, from, to) ==
  /\ tables
  /\ StepTo(p, from, to)
  /\ missing' = [missing EXCEPT
       ![p] = IF accounts[e] = "absent" THEN @ \cup {e} ELSE @]
  /\ UNCHANGED dataVars

FindAccounts(p) ==
  \/ FindAccount(p, "user", "findUser", "findReporter")
  \/ FindAccount(p, "reporter", "findReporter", "insertAccounts")

\* Faulty variant: the accounts are upserted.
InsertAccountsUpsert(p) ==
  /\ StepTo(p, "insertAccounts", "findTask")
  /\ accounts' = [e \in Accounts |-> IF e \in missing[p] THEN "seeder" ELSE accounts[e]]
  /\ UNCHANGED <<admin, tasks, missing>>

\* user.email is unique.
EmailsFree(S) == \A e \in S : accounts[e] = "absent"

\* Those that were missing are inserted in one transaction.
InsertAccounts(p) ==
  /\ StepTo(p, "insertAccounts", "findTask")
  /\ EmailsFree(missing[p])
  /\ accounts' = [e \in Accounts |-> IF e \in missing[p] THEN "seeder" ELSE accounts[e]]
  /\ UNCHANGED <<admin, tasks, missing>>

\* Both accounts are read back, and the first title is looked up: if somebody
\* has it, the tasks are taken for seeded.
FindFirstTask(p) ==
  /\ StepTo(p, "findTask",
       IF \/ \E e \in Accounts : accounts[e] = "absent"
          \/ tasks["kickoff"] # "absent"
       THEN "over" ELSE "insertTasks")
  /\ UNCHANGED <<dataVars, missing>>

\* Faulty variant: one flush per task.
InsertTasksOneByOne(p) ==
  /\ step[p] = "insertTasks"
  /\ \E t \in Titles :
       /\ tasks[t] = "absent"
       /\ tasks' = [tasks EXCEPT ![t] = "seeder"]
       /\ step' = [step EXCEPT ![p] =
            IF \E u \in Titles \ {t} : tasks[u] = "absent" THEN @ ELSE "over"]
  /\ UNCHANGED <<admin, accounts, missing>>

\* Faulty variant: titles that are taken are overwritten.
InsertTasksUpsert(p) ==
  /\ StepTo(p, "insertTasks", "over")
  /\ tasks' = [t \in Titles |-> "seeder"]
  /\ UNCHANGED <<admin, accounts, missing>>

\* task.title is unique.
TitlesFree(S) == \A t \in S : tasks[t] = "absent"

\* The tasks are inserted in one transaction.
InsertTasks(p) ==
  /\ StepTo(p, "insertTasks", "over")
  /\ TitlesFree(Titles)
  /\ tasks' = [t \in Titles |-> "seeder"]
  /\ UNCHANGED <<admin, accounts, missing>>

\* A statement fails, or the script is stopped; so does a script whose
\* registration of the tenant failed.
AbortSeeder(p) ==
  /\ step[p] \notin {"over", "failed"}
  /\ p \in Seeds /\ step[p] = "idle" => pc[p] = "failed"
  /\ step' = [step EXCEPT ![p] = "failed"]
  /\ UNCHANGED <<dataVars, missing>>

SeederStep(p) ==
  \/ FindAdmin(p)
  \/ InsertAdmin(p)
  \/ StartReseed(p)
  \/ FindAccounts(p)
  \/ InsertAccounts(p)
  \/ FindFirstTask(p)
  \/ InsertTasks(p)
  \/ AbortSeeder(p)

(***************************************************************************)
(* The service.  An account is inserted by a registration that was         *)
(* admitted while the tenant was active and found the email free; it       *)
(* inserts later, and the tenant may be inactive by then.  Emails are      *)
(* never freed, so the UNIQUE insert repeats the check.  Tasks are created *)
(* by the worker for requests accepted while the tenant was active.        *)
(***************************************************************************)
RegisterAccount(e) ==
  /\ row # "absent"
  /\ tables
  /\ EmailsFree({e})
  /\ accounts' = [accounts EXCEPT ![e] = "service"]
  /\ UNCHANGED <<admin, tasks, step, missing>>

CreateTask(t) ==
  /\ row # "absent"
  /\ tables
  /\ TitlesFree({t})
  /\ tasks' = [tasks EXCEPT ![t] = "service"]
  /\ UNCHANGED <<admin, accounts, step, missing>>

DataStep ==
  \/ \E p \in Seeders : SeederStep(p)
  \/ \E e \in Accounts : RegisterAccount(e)
  \/ \E t \in Titles : CreateTask(t)

DemoNext ==
  \/ Next /\ UNCHANGED demoVars
  \/ DataStep /\ UNCHANGED vars

DemoSpec == DemoInit /\ [][DemoNext]_<<vars, demoVars>>

(***************************************************************************)
(* Properties.                                                             *)
(***************************************************************************)
\* The values of the rows and of the seeders' positions.
DemoTypeOK ==
  /\ admin \in BOOLEAN
  /\ accounts \in [Accounts -> {"absent", "seeder", "service"}]
  /\ tasks \in [Titles -> {"absent", "seeder", "service"}]
  /\ step \in [Seeders -> {"idle", "insertAdmin", "findUser", "findReporter",
                           "insertAccounts", "findTask", "insertTasks", "over",
                           "failed"}]
  /\ missing \in [Seeders -> SUBSET Accounts]

\* Seeding twice, or beside the service, changes nothing that is there: the
\* scripts only ever fill gaps, and neither a rerun nor a race overwrites an
\* account (with its password and role) or a task.
SeedingOnlyFills ==
  [][/\ \A e \in Accounts : accounts[e] # "absent" => accounts'[e] = accounts[e]
     /\ \A t \in Titles : tasks[t] # "absent" => tasks'[t] = tasks[t]]_demoVars

\* The demo tasks come all or not at all, and never without the two
\* accounts they refer to, whatever is interrupted or run twice.
DemoTasksTogether ==
  \A t \in Titles : tasks[t] = "seeder" =>
    /\ \A u \in Titles : tasks[u] = "seeder"
    /\ \A e \in Accounts : accounts[e] # "absent"

\* README.md:115: seed:database leaves a registered, migrated tenant, an admin
\* and the demo accounts, also when it finds what an interrupted creation or an
\* earlier run left half done; and it is not over before somebody has the first
\* of the demo titles, so that the next run finds it.
SeedDatabaseIsComplete ==
  /\ SeedRepairs
  /\ \A p \in Seeds : step[p] = "over" =>
       /\ row # "absent" /\ tables /\ admin
       /\ \A e \in Accounts : accounts[e] # "absent"
       /\ tasks["kickoff"] # "absent"
=============================================================================
