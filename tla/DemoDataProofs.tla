---------------------------- MODULE DemoDataProofs ----------------------------
(***************************************************************************)
(* Proofs about DemoData, for any number of processes of each kind and any *)
(* set of demo titles.  The composition is first shown to implement the    *)
(* registry it extends, so that everything proved of TenantRegistry holds  *)
(* beside the seeders and the service.                                     *)
(***************************************************************************)
EXTENDS DemoData, TenantRegistryProofs

\* The registry takes no notice of the data.
THEOREM ImplementsRegistry == DemoSpec => Spec
<1>1. DemoInit => Init
  BY DEF DemoInit
<1>2. [DemoNext]_<<vars, demoVars>> => [Next]_vars
  BY DEF DemoNext
<1> QED  BY <1>1, <1>2, PTL DEF DemoSpec, Spec

\* A seed:database run that seeds has registered and migrated its tenant.
SeedingIsLate ==
  \A p \in Seeds : step[p] \notin {"idle", "failed"} => pc[p] = "done"

\* Past SchemaSeeder there is an admin.
AdminIsThere ==
  \A p \in Seeds : step[p] \notin {"idle", "insertAdmin", "failed"} => admin

\* What was looked up is there, or is known to have been missing.
LookedUp ==
  \A p \in Seeders :
    /\ step[p] \in {"findReporter", "insertAccounts"} =>
         accounts["user"] # "absent" \/ "user" \in missing[p]
    /\ step[p] = "insertAccounts" =>
         accounts["reporter"] # "absent" \/ "reporter" \in missing[p]

\* Past the first flush both accounts are there.
AccountsAreThere ==
  \A p \in Seeders : step[p] \in {"findTask", "insertTasks", "over"} =>
    \A e \in Accounts : accounts[e] # "absent"

\* A seeder ends when somebody has the first title.
FirstTitleIsTaken ==
  \A p \in Seeders : step[p] = "over" => tasks["kickoff"] # "absent"

\* The inductive invariant.
DemoInv ==
  /\ DemoTypeOK
  /\ SeedingIsLate
  /\ AdminIsThere
  /\ LookedUp
  /\ AccountsAreThere
  /\ FirstTitleIsTaken
  /\ DemoTasksTogether

LEMMA InitDemoInv == DemoInit => DemoInv
BY TitlesAssumption DEF DemoInit, DemoInv, DemoTypeOK, SeedingIsLate, AdminIsThere,
   LookedUp, AccountsAreThere, FirstTitleIsTaken, DemoTasksTogether, Seeders, Titles

\* The registry only ever moves a finished process nowhere.
LEMMA RegistryStep ==
  ASSUME IInv, DemoInv, Next, UNCHANGED demoVars
  PROVE  DemoInv'
<1> USE DEF demoVars, dataVars
<1>1. ASSUME NEW p \in Processes, pc[p] = "done"
      PROVE  pc'[p] = "done"
  BY <1>1 DEF IInv, TypeOK, Next, Goto, BeforeMigration, Over, CheckTenant, CreateSchema,
     RegisterTenant, PlanMigration, ApplyMigration, CheckSeed, FindTenant, SeedTenant,
     ListSchemas, LoadTenant, DeactivateTenant, Abort
<1>2. SeedingIsLate'
  BY <1>1 DEF DemoInv, SeedingIsLate, Processes, Migrators
<1> QED  BY <1>2 DEF DemoInv, DemoTypeOK, AdminIsThere, LookedUp, AccountsAreThere,
            FirstTitleIsTaken, DemoTasksTogether

\* A step of a seeder: one case per action, and under it one step per conjunct.
LEMMA SeederKeepsInv ==
  ASSUME DemoInv, NEW p \in Seeders, SeederStep(p), UNCHANGED vars
  PROVE  DemoInv'
<1> USE ReseedsAssumption DEF StepTo, Seeders, Processes, Migrators, vars, dataVars
<1>1. CASE FindAdmin(p)
  <2>1. DemoTypeOK'
    BY <1>1 DEF DemoInv, DemoTypeOK, FindAdmin, Accounts, Titles
  <2>2. SeedingIsLate'
    BY <1>1 DEF DemoInv, DemoTypeOK, SeedingIsLate, FindAdmin
  <2>3. AdminIsThere'
    BY <1>1 DEF DemoInv, DemoTypeOK, AdminIsThere, FindAdmin
  <2>4. LookedUp'
    BY <1>1 DEF DemoInv, DemoTypeOK, LookedUp, FindAdmin, Accounts
  <2>5. AccountsAreThere'
    BY <1>1 DEF DemoInv, DemoTypeOK, AccountsAreThere, FindAdmin
  <2>6. FirstTitleIsTaken'
    BY <1>1 DEF DemoInv, DemoTypeOK, FirstTitleIsTaken, FindAdmin, Titles,
       AccountsAreThere
  <2>7. DemoTasksTogether'
    BY <1>1 DEF DemoInv, DemoTypeOK, DemoTasksTogether, FindAdmin
  <2> QED  BY <2>1, <2>2, <2>3, <2>4, <2>5, <2>6, <2>7 DEF DemoInv
<1>2. CASE InsertAdmin(p)
  <2>1. DemoTypeOK'
    BY <1>2 DEF DemoInv, DemoTypeOK, InsertAdmin, Accounts, Titles
  <2>2. SeedingIsLate'
    BY <1>2 DEF DemoInv, DemoTypeOK, SeedingIsLate, InsertAdmin
  <2>3. AdminIsThere'
    BY <1>2 DEF DemoInv, DemoTypeOK, AdminIsThere, InsertAdmin
  <2>4. LookedUp'
    BY <1>2 DEF DemoInv, DemoTypeOK, LookedUp, InsertAdmin, Accounts
  <2>5. AccountsAreThere'
    BY <1>2 DEF DemoInv, DemoTypeOK, AccountsAreThere, InsertAdmin
  <2>6. FirstTitleIsTaken'
    BY <1>2 DEF DemoInv, DemoTypeOK, FirstTitleIsTaken, InsertAdmin, Titles,
       AccountsAreThere
  <2>7. DemoTasksTogether'
    BY <1>2 DEF DemoInv, DemoTypeOK, DemoTasksTogether, InsertAdmin
  <2> QED  BY <2>1, <2>2, <2>3, <2>4, <2>5, <2>6, <2>7 DEF DemoInv
<1>3. CASE StartReseed(p)
  <2>1. DemoTypeOK'
    BY <1>3 DEF DemoInv, DemoTypeOK, StartReseed, Accounts, Titles
  <2>2. SeedingIsLate'
    BY <1>3 DEF DemoInv, DemoTypeOK, SeedingIsLate, StartReseed
  <2>3. AdminIsThere'
    BY <1>3 DEF DemoInv, DemoTypeOK, AdminIsThere, StartReseed
  <2>4. LookedUp'
    BY <1>3 DEF DemoInv, DemoTypeOK, LookedUp, StartReseed, Accounts
  <2>5. AccountsAreThere'
    BY <1>3 DEF DemoInv, DemoTypeOK, AccountsAreThere, StartReseed
  <2>6. FirstTitleIsTaken'
    BY <1>3 DEF DemoInv, DemoTypeOK, FirstTitleIsTaken, StartReseed, Titles,
       AccountsAreThere
  <2>7. DemoTasksTogether'
    BY <1>3 DEF DemoInv, DemoTypeOK, DemoTasksTogether, StartReseed
  <2> QED  BY <2>1, <2>2, <2>3, <2>4, <2>5, <2>6, <2>7 DEF DemoInv
<1>4. CASE FindAccounts(p)
  <2>1. DemoTypeOK'
    BY <1>4 DEF DemoInv, DemoTypeOK, FindAccounts, FindAccount, Accounts, Titles
  <2>2. SeedingIsLate'
    BY <1>4 DEF DemoInv, DemoTypeOK, SeedingIsLate, FindAccounts, FindAccount
  <2>3. AdminIsThere'
    BY <1>4 DEF DemoInv, DemoTypeOK, AdminIsThere, FindAccounts, FindAccount
  <2>4. LookedUp'
    BY <1>4 DEF DemoInv, DemoTypeOK, LookedUp, FindAccounts, FindAccount,
       Accounts
  <2>5. AccountsAreThere'
    BY <1>4 DEF DemoInv, DemoTypeOK, AccountsAreThere, FindAccounts, FindAccount
  <2>6. FirstTitleIsTaken'
    BY <1>4 DEF DemoInv, DemoTypeOK, FirstTitleIsTaken, FindAccounts,
       FindAccount, Titles, AccountsAreThere
  <2>7. DemoTasksTogether'
    BY <1>4 DEF DemoInv, DemoTypeOK, DemoTasksTogether, FindAccounts,
       FindAccount
  <2> QED  BY <2>1, <2>2, <2>3, <2>4, <2>5, <2>6, <2>7 DEF DemoInv
<1>5. CASE InsertAccounts(p)
  <2>1. DemoTypeOK'
    BY <1>5 DEF DemoInv, DemoTypeOK, InsertAccounts, EmailsFree, Accounts, Titles
  <2>2. SeedingIsLate'
    BY <1>5 DEF DemoInv, DemoTypeOK, SeedingIsLate, InsertAccounts, EmailsFree
  <2>3. AdminIsThere'
    BY <1>5 DEF DemoInv, DemoTypeOK, AdminIsThere, InsertAccounts, EmailsFree
  <2>4. LookedUp'
    BY <1>5 DEF DemoInv, DemoTypeOK, LookedUp, InsertAccounts, EmailsFree, Accounts
  <2>5. AccountsAreThere'
    BY <1>5 DEF DemoInv, DemoTypeOK, AccountsAreThere, InsertAccounts, EmailsFree, LookedUp,
       Accounts
  <2>6. FirstTitleIsTaken'
    BY <1>5 DEF DemoInv, DemoTypeOK, FirstTitleIsTaken, InsertAccounts, EmailsFree, Titles,
       AccountsAreThere
  <2>7. DemoTasksTogether'
    BY <1>5 DEF DemoInv, DemoTypeOK, DemoTasksTogether, InsertAccounts, EmailsFree
  <2> QED  BY <2>1, <2>2, <2>3, <2>4, <2>5, <2>6, <2>7 DEF DemoInv
<1>6. CASE FindFirstTask(p)
  <2>1. DemoTypeOK'
    BY <1>6 DEF DemoInv, DemoTypeOK, FindFirstTask, Accounts, Titles
  <2>2. SeedingIsLate'
    BY <1>6 DEF DemoInv, DemoTypeOK, SeedingIsLate, FindFirstTask
  <2>3. AdminIsThere'
    BY <1>6 DEF DemoInv, DemoTypeOK, AdminIsThere, FindFirstTask
  <2>4. LookedUp'
    BY <1>6 DEF DemoInv, DemoTypeOK, LookedUp, FindFirstTask, Accounts
  <2>5. AccountsAreThere'
    BY <1>6 DEF DemoInv, DemoTypeOK, AccountsAreThere, FindFirstTask
  <2>6. FirstTitleIsTaken'
    BY <1>6 DEF DemoInv, DemoTypeOK, FirstTitleIsTaken, FindFirstTask, Titles,
       AccountsAreThere
  <2>7. DemoTasksTogether'
    BY <1>6 DEF DemoInv, DemoTypeOK, DemoTasksTogether, FindFirstTask
  <2> QED  BY <2>1, <2>2, <2>3, <2>4, <2>5, <2>6, <2>7 DEF DemoInv
<1>7. CASE InsertTasks(p)
  <2>1. DemoTypeOK'
    BY <1>7 DEF DemoInv, DemoTypeOK, InsertTasks, TitlesFree, Accounts, Titles
  <2>2. SeedingIsLate'
    BY <1>7 DEF DemoInv, DemoTypeOK, SeedingIsLate, InsertTasks, TitlesFree
  <2>3. AdminIsThere'
    BY <1>7 DEF DemoInv, DemoTypeOK, AdminIsThere, InsertTasks, TitlesFree
  <2>4. LookedUp'
    BY <1>7 DEF DemoInv, DemoTypeOK, LookedUp, InsertTasks, TitlesFree, Accounts
  <2>5. AccountsAreThere'
    BY <1>7 DEF DemoInv, DemoTypeOK, AccountsAreThere, InsertTasks, TitlesFree
  <2>6. FirstTitleIsTaken'
    BY <1>7 DEF DemoInv, DemoTypeOK, FirstTitleIsTaken, InsertTasks, TitlesFree, Titles,
       AccountsAreThere
  <2>7. DemoTasksTogether'
    BY <1>7 DEF DemoInv, DemoTypeOK, DemoTasksTogether, InsertTasks, TitlesFree,
       AccountsAreThere
  <2> QED  BY <2>1, <2>2, <2>3, <2>4, <2>5, <2>6, <2>7 DEF DemoInv
<1>8. CASE AbortSeeder(p)
  <2>1. DemoTypeOK'
    BY <1>8 DEF DemoInv, DemoTypeOK, AbortSeeder, Accounts, Titles
  <2>2. SeedingIsLate'
    BY <1>8 DEF DemoInv, DemoTypeOK, SeedingIsLate, AbortSeeder
  <2>3. AdminIsThere'
    BY <1>8 DEF DemoInv, DemoTypeOK, AdminIsThere, AbortSeeder
  <2>4. LookedUp'
    BY <1>8 DEF DemoInv, DemoTypeOK, LookedUp, AbortSeeder, Accounts
  <2>5. AccountsAreThere'
    BY <1>8 DEF DemoInv, DemoTypeOK, AccountsAreThere, AbortSeeder
  <2>6. FirstTitleIsTaken'
    BY <1>8 DEF DemoInv, DemoTypeOK, FirstTitleIsTaken, AbortSeeder, Titles,
       AccountsAreThere
  <2>7. DemoTasksTogether'
    BY <1>8 DEF DemoInv, DemoTypeOK, DemoTasksTogether, AbortSeeder
  <2> QED  BY <2>1, <2>2, <2>3, <2>4, <2>5, <2>6, <2>7 DEF DemoInv
<1> QED  BY <1>1, <1>2, <1>3, <1>4, <1>5, <1>6, <1>7, <1>8 DEF SeederStep

\* A registration fills one gap among the accounts.
LEMMA AccountKeepsInv ==
  ASSUME DemoInv, NEW e \in Accounts, RegisterAccount(e), UNCHANGED vars
  PROVE  DemoInv'
BY DEF DemoInv, DemoTypeOK, SeedingIsLate, AdminIsThere, LookedUp, AccountsAreThere,
   FirstTitleIsTaken, DemoTasksTogether, RegisterAccount, EmailsFree, Accounts, vars

\* The worker fills one gap among the tasks, and there is none beside seeded ones.
LEMMA TaskKeepsInv ==
  ASSUME DemoInv, NEW t \in Titles, CreateTask(t), UNCHANGED vars
  PROVE  DemoInv'
BY DEF DemoInv, DemoTypeOK, SeedingIsLate, AdminIsThere, LookedUp, AccountsAreThere,
   FirstTitleIsTaken, DemoTasksTogether, CreateTask, TitlesFree, Titles, vars

\* Stuttering keeps the invariant.
LEMMA StutterDemoInv == DemoInv /\ UNCHANGED <<vars, demoVars>> => DemoInv'
BY DEF DemoInv, DemoTypeOK, SeedingIsLate, AdminIsThere, LookedUp, AccountsAreThere,
   FirstTitleIsTaken, DemoTasksTogether, vars, demoVars, dataVars

\* The seeders, the service and the registry keep the demo data consistent.
THEOREM DemoInvariance == DemoSpec => [](IInv /\ DemoInv)
<1>1. IInv /\ DemoInv /\ [DemoNext]_<<vars, demoVars>> => DemoInv'
  BY RegistryStep, SeederKeepsInv, AccountKeepsInv, TaskKeepsInv, StutterDemoInv
     DEF DemoNext, DataStep
<1> QED  BY ImplementsRegistry, Invariance, InitDemoInv, <1>1, PTL DEF DemoSpec

\* The rows and the seeders' positions have the declared values.
THEOREM DemoTypeCorrect == DemoSpec => []DemoTypeOK
<1>1. DemoInv => DemoTypeOK
  BY DEF DemoInv
<1> QED  BY DemoInvariance, <1>1, PTL

\* The demo tasks come all or not at all, with their accounts.
THEOREM DemoTasksAreWhole == DemoSpec => []DemoTasksTogether
<1>1. DemoInv => DemoTasksTogether
  BY DEF DemoInv
<1> QED  BY DemoInvariance, <1>1, PTL

\* A seed:database run that ends leaves everything the script promises.
THEOREM SeedIsComplete == DemoSpec => []SeedDatabaseIsComplete
<1>1. IInv /\ DemoInv => SeedDatabaseIsComplete
  BY DEF IInv, SeedRepairs, DemoInv, SeedingIsLate, AdminIsThere, AccountsAreThere,
         FirstTitleIsTaken, SeedDatabaseIsComplete, Seeders
<1> QED  BY DemoInvariance, <1>1, PTL

\* No run of a seeder, and no race with one, overwrites a row.
THEOREM SeedingPreserves == DemoSpec => SeedingOnlyFills
<1>1. IInv /\ DemoInv /\ [DemoNext]_<<vars, demoVars>> =>
        [/\ \A e \in Accounts : accounts[e] # "absent" => accounts'[e] = accounts[e]
         /\ \A t \in Titles : tasks[t] # "absent" => tasks'[t] = tasks[t]]_demoVars
  BY DEF DemoInv, DemoTypeOK, DemoNext, DataStep, SeederStep, FindAdmin, InsertAdmin,
     StartReseed, FindAccounts, FindAccount, InsertAccounts, EmailsFree, FindFirstTask,
     InsertTasks, TitlesFree,
     AbortSeeder, RegisterAccount, CreateTask, demoVars, dataVars
<1> QED  BY DemoInvariance, <1>1, PTL DEF DemoSpec, SeedingOnlyFills
=============================================================================
