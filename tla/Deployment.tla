----------------------------- MODULE Deployment -----------------------------
(***************************************************************************)
(* How an installation is brought up and kept: the operator runs "alembic  *)
(* upgrade head" and then the seed script, and now and then takes the      *)
(* schema back to an earlier revision and up again.  A command of Alembic  *)
(* is one transaction (alembic/env.py), so it happens as a whole or not at *)
(* all; the rows of a dropped table go with it.  The script and the        *)
(* application run on the latest schema only, and the application is       *)
(* stopped for either.                                                     *)
(***************************************************************************)
EXTENDS UserAccess, SchemaMigrations

CONSTANTS MaxRuns,     \* bound on the runs of the script
          MaxMishaps,  \* bound on kills, own rows, downgrades and users' requests together
          Stops        \* bound: the revisions a seeded database is taken back to

VARIABLES revision,  \* how many revisions of the chain are applied
          schema,    \* the schema of the database
          runs,      \* counter of the bound
          mishaps    \* counter of the bound

deploymentVars == <<seedVars, accessVars, revision, schema, runs, mishaps>>

(***************************************************************************)
(* The rows a schema keeps, and what the upgrade that makes the table of   *)
(* accesses puts into it: the active kitchens of the users, who must have  *)
(* kept that column.                                                       *)
(***************************************************************************)
Kept(parts) == {r \in rows : r.table \in TablesOf(parts)}

\* Mutant of Refilled: the INSERT ... SELECT of the revision is left out.
RefilledNever(from, to) == {}

Refilled(from, to) ==
  IF from < AccessesSince /\ AccessesSince <= to /\ activeKitchen # None
  THEN {Access(activeKitchen)} ELSE {}

\* Mutant of Upgrade: the command is no transaction, and a killed one has left the first
\* revisions of the way in the schema without recording any.
UpgradeTorn(to) ==
  /\ stage = 0 /\ Idle
  /\ revision < to
  /\ runs = 0
  /\ \E reached \in revision .. to : schema' = Upgraded(schema, revision, reached)
  /\ UNCHANGED <<seedVars, accessVars, revision, runs, mishaps>>

\* Bound: after the first run of the script, an upgrade goes to the head.
Upgrade(to) ==
  /\ stage = 0 /\ Idle
  /\ revision < to
  /\ runs = 0 \/ to = Latest
  /\ schema' = Upgraded(schema, revision, to)
  /\ revision' = to
  /\ rows' = rows \cup Refilled(revision, to)
  /\ overtaken' = (overtaken /\ AccessesSince <= revision)
  /\ UNCHANGED <<stage, item, outcome, expense, budgetAccount, activeKitchen, cutShort,
                 request, runs, mishaps>>

Downgrade(to) ==
  /\ stage = 0 /\ Idle
  /\ to < revision
  /\ runs = 0 \/ to \in Stops
  /\ mishaps < MaxMishaps
  /\ mishaps' = mishaps + 1
  /\ schema' = Downgraded(schema, revision, to)
  /\ revision' = to
  /\ rows' = Kept(schema')
  /\ outcome' = "none"
  /\ budgetAccount' = IF "budgets" \in TablesOf(schema') THEN budgetAccount ELSE None
  /\ activeKitchen' = IF ActiveKitchenSince <= to THEN activeKitchen ELSE None
  /\ UNCHANGED <<stage, item, expense, cutShort, accessVars, runs>>

Seed ==
  /\ revision = Latest
  /\ stage = 0 => runs < MaxRuns /\ Idle
  /\ SeedStep
  /\ runs' = IF stage = 0 THEN runs + 1 ELSE runs
  /\ overtaken' = (overtaken /\ (stage = 0 \/ Current # AccessGrants))
  /\ UNCHANGED <<revision, schema, request, mishaps>>

Disturb ==
  /\ revision = Latest
  /\ mishaps < MaxMishaps
  /\ mishaps' = mishaps + 1
  /\ Kill \/ \E r \in OwnRows : AddOwnRow(r)
  /\ UNCHANGED <<revision, schema, accessVars, runs>>

\* Users switch kitchens, administrators set their accesses.
Administer ==
  /\ stage = 0
  /\ revision = Latest
  /\ \/ BeginAccess /\ mishaps < MaxMishaps /\ mishaps' = mishaps + 1
     \/ PursueAccess /\ UNCHANGED mishaps
  /\ outcome' = "none"
  /\ UNCHANGED <<stage, item, expense, budgetAccount, cutShort, revision, schema, runs>>

DeploymentInit ==
  /\ SeedInit
  /\ AccessInit
  /\ revision = 0
  /\ schema = {}
  /\ runs = 0
  /\ mishaps = 0

DeploymentNext ==
  \/ \E to \in 1 .. Latest : Upgrade(to)
  \/ \E to \in 0 .. Latest - 1 : Downgrade(to)
  \/ Seed
  \/ Disturb
  \/ Administer

DeploymentSpec == DeploymentInit /\ [][DeploymentNext]_deploymentVars

(***************************************************************************)
(* Properties.                                                             *)
(***************************************************************************)
\* What the upgrades alone make of an empty database, for every revision.
Designed == [r \in 0 .. Latest |-> Upgraded({}, 0, r)]

\* No statement of the chain is refused on the way up, and every revision takes back
\* what it did.
ASSUME ChainIsReversible ==
  \A r \in 1 .. Latest :
    Designed[r] # {None} /\ Run(Designed[r], Chain[r].down) = Designed[r - 1]

\* A later revision drops no table of an earlier one, and the demo budget's table comes
\* and goes with the one of the accounts.
ASSUME TablesStay ==
  \A r \in 0 .. Latest :
    /\ AccessesSince <= r => "user_sppg_access" \in TablesOf(Designed[r])
    /\ "budgets" \in TablesOf(Designed[r]) <=> "accounts" \in TablesOf(Designed[r])

(***************************************************************************)
(* The revision tells the schema: whatever upgrades and downgrades led to  *)
(* it, no statement was refused, every part the later revisions had added  *)
(* is gone again and no part of an earlier one went with it.  (A run of    *)
(* the seed script leaves the schema alone.)                               *)
(***************************************************************************)
SchemaFollowsRevision ==
  stage = 0 =>
    /\ schema # {None}
    /\ schema = Designed[revision]

(***************************************************************************)
(* Once the table of accesses exists, a user's active kitchen is among the *)
(* kitchens the user has access to: also after a downgrade that dropped    *)
(* the table and an upgrade that made it anew, and whatever users and      *)
(* administrators ask for, unless their requests overlap.  A user of other *)
(* kitchens than the active one is refused what names none of them.        *)
(***************************************************************************)
ActiveKitchenIsOpen ==
  AccessesSince <= revision /\ activeKitchen \notin Accessible \cup {None} => overtaken
=============================================================================
