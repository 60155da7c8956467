# A TLA+ model of the KPI reporting backend

This directory is a verification project for the NestJS backend in `src/`: the
forms a district designs, the campaigns that send them to its units, the reports
the units fill in, the two levels that approve them, and the accounts, sessions,
roles and units of those who do so. It holds TLA+ modules, the TLC configurations
that check them on small instances, and TLAPS proofs of the main safety
properties for every size of the system.

How to run it, in this directory:

    tlc -workers 4 -config SubmissionConcurrent.cfg MCSubmissionApproval
    tlc -workers 4 -config CampaignConcurrent.cfg MCCampaignDispatch
    tlc -workers 4 -config TemplateConcurrent.cfg MCTemplateDesign
    tlc -workers 4 -config AuthConcurrent.cfg MCAuthSessions
    tlc -workers 4 -config DirectoryConcurrent.cfg MCDirectory
    tlapm SubmissionProofs.tla
    tlapm SubmissionSerialProofs.tla
    tlapm CampaignProofs.tla
    tlapm CampaignSummaryProofs.tla
    tlapm AuthProofs.tla
    tlapm DirectoryProofs.tla
    tlapm TemplateEditProofs.tla
    tlapm TemplateDesignProofs.tla

## The system

One Node process (or several) serves HTTP requests over one PostgreSQL database
through TypeORM. There is no queue, no scheduler and no cache that matters; all
state is in tables and every endpoint is a sequence of SQL statements with an
`await` between them. What runs concurrently is requests, and their unit of
atomicity is one statement, except in the few methods that open a transaction
(`confirmDispatch`, some form-designer operations) and in a `save`, whose
statements with those of its links are one.

One idiom decides most of what can go wrong. `repository.save(entity)` on an
entity that was loaded earlier selects the row again, compares that row with the
copy in memory column by column, and updates the columns that differ. So a stale
copy overwrites what others wrote in the meantime, column by column, and only in
the columns where it differs.

| Component | State it keeps | Operations | Hard behaviour | Module |
| --- | --- | --- | --- | --- |
| template-management | form templates with status (draft, ready, in use, archived), indicators, attributes, cell configurations, rules that give an indicator to a unit, the indicator catalog, field categories | create, copy, patch, mark ready, archive, remove, structure edits, reorder, cell configurations, rules, imports | structure edits against campaigns created in between; moves that make a cycle; bulk reorder; rules checked before the transaction that writes them | `TemplateDesign`; status also in `CampaignDispatch` |
| report-campaign | campaigns, scopes per unit, default values | create, patch, scopes, default values, confirm dispatch, cancel, close; readiness and preview of the summary | writers that check DRAFT against a dispatch; a create of three statements | `CampaignDispatch`, `CampaignSummary` |
| report-campaign/assignment | assignments of units, cancelled flag | create batch, cancel; configure scopes and next period, which fail | cancellation against the unit's work | `CampaignDispatch`, `SubmissionApproval` |
| submission | submissions with status, version and completion; their cells; flow logs | create, find or create, patch cells, submit, cancel submit | overlapping patches and submits, stale saves, partial patches | `SubmissionApproval` |
| approval | the same submissions, outbox | approve and reject at two levels | two deciders, decisions against a cancel, lost log entries or notices | `SubmissionApproval` |
| notification | `app_outbox_events` | inbox, mark read | whether the next actor is ever told | the writing side in `SubmissionApproval` |
| auth | refresh tokens, password resets | login, refresh, change, forget and reset a password, logout | one-time tokens used twice, revocation against rotation, lockout counting | `AuthSessions` |
| user, role | accounts, login counters, roles, permissions and the links between them | CRUD, assign roles, lock, seed roles | whole-entity saves of stale copies, links included | `AuthSessions`, `Directory` |
| organization | the tree of units and its closure table | create, move, lock, remove | two moves that make a cycle, removal of a unit in use | `Directory` |
| summary-analytics | report summaries | key figures; create, recompute | what is shown while units still report | `CampaignSummary` |
| dashboard | none | reports of a field category | the same | `CampaignSummary` |
| audit-log, common | append-only rows; none | one insert; guards, pipes, filters | none that spans statements | the permissions guard in `Directory` |

Components meet in the database. A campaign is created from a ready template and
puts it in use; dispatch turns its scopes into assignments; a unit opens a
submission of its assignment, limited by the campaign's scope and default values;
approval moves the submission on, writes its flow log through the submission
service and its notices into the outbox; the district's approval asks the
campaign service for a preview of the summary, which only reads. The user and
role tables decide who may call what, and the unit of an account which reports
it may write; a session is a signed token, and the account behind it is read
again on every call. `PROJECT.json` lists the components with
their sources and the hazards of the code line by line.

## What is modelled

### `ReportWorkflow`: what the approval of reports promises

An abstract specification with two variables, the status and the content of the
one report an assignment has. A report is opened once; its cells change only in
an editable status; its status moves along the flow unit, department, district;
every rejection and a withdrawn submission lead back to the unit; a
district-approved report never changes.

This is the workflow of the code, and not the one the documents draw, although
`docs/canonical/flow.md` calls its own the current one. The disagreements:

| Document | Code |
| --- | --- |
| flow.md:48-61: `forward_to_district` takes `DEPARTMENT_APPROVED` to `PENDING_DISTRICT`, where the district decides (also `docs/PROJECT_ANALYSIS.md:123`) | there is no such status; `approveDistrict` and `rejectDistrict` act on `DEPARTMENT_APPROVED`, and only the notice to the district is called `SUBMISSION_PENDING_DISTRICT` |
| flow.md:60: what the district rejected is resubmitted to `PENDING_DISTRICT` | `submit` takes it to `PENDING_DEPARTMENT`: it goes through both levels again |
| flow.md has no way back from `PENDING_DEPARTMENT` but a rejection | `cancelSubmit` takes it back to `DRAFT` |
| `docs/canonical/rules.md:45`: submit only when the mandatory cells are valid | `submit` checks the unit and the status and looks at no cell: an empty report can be submitted and approved |

So `Flow` has the five statuses the code moves between, no level is skipped in it
(`TwoLevelApproval` says the same of every interleaving), and it promises nothing of
the completeness of a report.

### `SubmissionApproval`: the handlers that are to keep it

All endpoints of the submission and approval components that change state, as
processes over the tables. `pc[r]` names the statement request `r` runs next,
`job[r]` what it was asked to do, `mem[r]` the entity in its memory, `base[r]`
the row the select inside `save` returned, `edit[r]` the changes of a patch still
to be written and `snap[r]` what the flow log has read so far.

| Variable | Code |
| --- | --- |
| `rows` | `report_submissions`, keyed by its unique code |
| `cells` | `report_submission_cells`, unique per submission, indicator and attribute |
| `logs` | `submission_flow_logs`, in order of insertion |
| `outbox` | `app_outbox_events` |
| `cancelled` | `report_assignments.is_cancelled` |
| `view` | what a reporter's screen shows: the submission, version and cells of the last answer |
| `done`, `content`, `died` | history variables: saves committed, cells at the last submit, reports on which a request died |

| Actions | Code |
| --- | --- |
| `Create`, `GetByAssignment`, `PickCode`, `InsertSubmission` | `create`, `findOrCreateByAssignment`, `generateSubmissionCode`, the insert |
| `GetOne`, `View` | `findOne`: the row, then its cells |
| `PatchCells`, `CellRead`, `CellWrite`, `Count` | `patchCells`: checks, each cell, completion and version |
| `Submit`, `CancelSubmit`, `ApproveDepartment`, `RejectDepartment`, `ApproveDistrict`, `RejectDistrict` | the handlers of the same names |
| `SaveLoad`, `SaveWrite` | `submissionRepo.save` |
| `LogCells`, `LogRow`, `LogWrite` | `captureFlowLog` |
| `Notify` | the notices to the approvers of the next level |
| `CancelAssignment` | the cancellation of an assignment |
| `Crash` | the process, or its connection, is lost between two statements |

What the abstraction merges and leaves out:

- Reads in a row that lead to a refusal or to the first write are one step where
  nothing another request can change lies between them: an assignment's unit and
  campaign never change, and a dispatched campaign's scope and default cells are
  constants here. A refused request writes nothing and has no step.
- The changes of one patch carry one value; the order in which they are written
  is free (the client chooses the order). A patch names at least one cell, as the
  DTO demands, and carries the version the client's screen shows.
- Texts, `note`, `rejectReason`, the user who last wrote a cell and every
  timestamp are left out; a timestamp is set and cleared together with the
  `...By` column next to it.
- The check of the approval permission inside the service compares a count that
  the driver returns as a string with the number 0 and never refuses; the guard
  of the controller is what admits `DeptApprovers` and `DistrictApprovers`.
- The old single-level `approve`, `reject` and `patchRejectNote` have no route.

### `CampaignDispatch`: what is sent to the units

One template and the campaigns made from it: the writing handlers of
`ReportCampaignService` and `ReportAssignmentService`, and the form designer's
handlers that move the template's status. Requests are processes as above.

| Variable | Code |
| --- | --- |
| `form` | `form_templates.template_status` |
| `campaigns` | `report_campaigns`: at most one per period (unique index), with status and deadline |
| `scopes` | `report_campaign_indicator_org_scopes`, a set of unit and indicator pairs (unique index) |
| `defaults` | `report_campaign_default_values`, one value per cell (unique index) |
| `assignments` | `report_assignments`, one per campaign and unit (unique index) |
| `mem`, `base`, `formMem`, `formBase` | the copies of a campaign or of the form in a request's memory, and what the select inside `save` returned |
| `todo` | the items of a request that are still to be written |
| `raced`, `formRaced`, `made`, `died` | history: status moves that overtook a request, campaigns made by `create`, creations that died |

| Actions | Code |
| --- | --- |
| `Create`, `CreateBatch`, `InsertCampaign`, `CopyScopes` | the two ways to make a campaign; the insert; the template's default scopes |
| `MarkFormReady`, `ArchiveForm`, `PatchForm`, `FormLoad`, `FormWrite` | the moves of the template's status and its `save` |
| `Patch`, `Cancel`, `Close`, `SaveLoad`, `SaveWrite` | the changes of the campaign's row and its `save` |
| `UpsertScopes`, `ScopeLookup`, `ScopeInsert`, `DeleteScopes`, `Unscope` | scopes, item by item |
| `UpsertDefaults`, `DefaultLookup`, `DefaultLoad`, `DefaultWrite`, `DeleteDefaults`, `Undefault` | default values, item by item |
| `Dispatch` | `confirmDispatch` |
| `CancelAssignment`, `Crash` | as in `SubmissionApproval` |

`confirmDispatch` is one step. It runs in a transaction that begins by locking
the campaign's row for update, so another dispatch, an update of the row and an
insert of a row that refers to it (its foreign key takes a share lock) wait for
the commit, and a delete of a scope that runs beside it can be put before or
after it. No other handler of these
services opens a transaction.

What the abstraction leaves out:

- A deadline stands for the campaign's name and both dates. `create` does not
  check that the dates are in order, `patch` and `createBatch` do: `Deadlines`
  holds one that is not.
- A default value is identified by its cell. In the code a row that was deleted
  and inserted again has a new identity, and a request that had found the old one
  ends with an error instead of updating the new one.
- The values of one request are one value; who created or dispatched, texts and
  timestamps are left out.
- `Form.isActive` is not a column of the entity, so each check of it passes. The
  template's type and its default scopes are constants: their writers belong to
  the template's own module.
- Two operations of the assignment service have no action, because they fail
  before they change a table: `nextPeriod` inserts assignments without a campaign,
  which the schema refuses (`campaign_id` is NOT NULL), and
  `configureIndicatorScopes` deletes scopes by `batch_id`, a column no migration
  of the clean schema has.
- Who may call is left out: most permission guards of the campaign's controller
  are commented out, so a caller only has to be signed in.

### `TemplateDesign`: the structure of the forms

Every endpoint of the form designer that changes something: the rows of a form,
their order, what each cell asks for, which unit fills in which indicator, the
copy of a form, the import of a sheet, and the lists that forms refer to.

| Variable | Code |
| --- | --- |
| `forms` | `form_templates`: status, type, category, `deleted_at` |
| `nodes`, `born` | `form_template_indicators` and `form_template_attributes`, with parent, order, code, type and catalog entry; `born[n]` is the form id `n` was given for, since ids are never given twice |
| `cells` | `form_template_cell_configs`: the overrides of single cells |
| `rules` | `form_template_indicator_org_rules` |
| `lists` | `indicator_catalog` and `field_categories` |
| `campaigns` | what the campaigns of a form refer to: their foreign keys keep it from being deleted |
| `pc`, `job`, `copy`, `base`, `work` | each request: next statement, what it was asked, the entity in memory, what `save` selected, what it has read or has still to write |
| `crossed`, `surprised`, `loosened` | history: forms in which two moves overlapped and copies of these, whose first campaign came under an edit, whose rules were stored under another type or by two requests |

| Actions | Code |
| --- | --- |
| `CreateForm`, `NewForm`, `PatchForm`, `SetOther`, `MarkFormReady`, `ArchiveForm`, `RemoveForm`, `FormLoad`, `FormWrite`, `DropForm` | the form's own row, with its `save` and its removal |
| `CopyForm`, `CopyTree` | `copyForm`: the reads, then the new form with its rows in two passes |
| `CreateAttribute`, `CreateIndicator`, `Insert`, `PatchAttribute`, `PatchIndicator`, `Walk`, `SaveLoad`, `SaveWrite`, `RemoveAttribute`, `RemoveIndicator`, `Delete` | a row: its checks, the walk up from the new parent one read a step, its `save`, its removal with what the schema cascades |
| `ReorderIndicators`, `ReorderAttributes`, `ReorderWrite` | `reorder...`: the plan, then the transaction |
| `UpsertCellConfigs`, `WriteCells`, `DeleteCellConfigs`, `EraseCells` | overrides of cells |
| `UpsertTemplateScopes`, `RulesOff`, `RulesOn`, `DeleteTemplateScopes`, `EraseRules` | rules; the transaction of the upsert is two steps |
| `Import`, `ImportIndicator`, `ImportAttribute`, `ImportLinks`, `LinkIndicator`, `LinkAttribute`, `ImportNext` | the Excel import: each row created, then linked, with its own error swallowed |
| `CreateListEntry`, `PatchListEntry`, `ListLoad`, `ListWrite`, `RemoveListEntry`, `ListDrop` | catalog entries and field categories |
| `MakeCampaign`, `Crash` | a campaign of the form (its handler is in `CampaignDispatch`); a request that dies |

Facts the model keeps because the code has them: `copyForm` takes over neither
the type nor the cell configurations nor the rules; a cell whose formula is taken
away stays read-only; `patchForm` may turn a form into UNIQUE without a look at
its rules, and may carry back an old status or a removed row, as every `save` of a
copy may (one of a row that was deleted inserts it again); a form marked ready
may get new indicators; an import without the columns of order and type sets 0
and BLANK, and a key that stands twice in a sheet links to the first row of that
key.

Left out: names and codes of forms, units of measure, display indexes, data types
(all indicators of the seed are numbers), and the lists, searches and downloads.
`isActive` and the file name are columns no check of the component reads; the
requests that set them are `SetOther`, whose `save` may still write the columns
that count.

### `AuthSessions`: accounts and sessions

The handlers of `AuthService`, and those of `UserService` that write the password,
the status or the login counters, with the clock.

| Variable | Code |
| --- | --- |
| `users` | `users`: hash, status, `failed_login_attempts`, `locked_until`, `deleted_at` |
| `tokens` | `auth_refresh_tokens`, with the hash each session rests on (history) |
| `resets` | `auth_password_resets` |
| `now` | the clock the expiry times are compared with |
| `pc`, `job`, `seen`, `mem`, `base` | each request |
| `spent`, `raced`, `late`, `past`, `ended`, `reverted`, `shaken`, `failedAt` | history: what a credential has bought, who held it together, which requests a password change overtook, which columns a save of an old copy put back, and when the last wrong password was counted |

| Actions | Code |
| --- | --- |
| `Login`, `Count`, `Recount`, `LockUntil`, `Clear`, `Issue` | `login`: the checks, the counter with its update and its read, the lock, the reset, `generateTokens` |
| `RefreshToken_`, `Rotate` | `refreshToken`: the check, the revocation, then `Issue` |
| `Logout`, `Revoke` | `logout` of one session or all; the update also ends a password change |
| `ChangePassword`, `Compare`, `Find`, `SaveLoad`, `SaveWrite` | `changePassword` and `UserService.update` |
| `ForgotPassword`, `ResetPassword`, `UseReset` | the reset token: made, used, marked |
| `Administer`, `Remove` | `update`, `updateStatus`, `activate`, `deactivate`, `resetPassword` of an administrator; `remove` |
| `Tick`, `Die` | time passes; a request dies |

A hash is the password with its salt, named by the request that made it; tokens
are named the same way. `register` has no action: its DTO has no `orgId`, the
validation pipe refuses a body with one, and `create` refuses a user without. The
access token is kept nowhere: it says who calls, and the account is read again. An
administrator who sets a password revokes no session, so `SessionsEnd` speaks of
the user's own change and of the reset by token only.

### `Directory`: units, roles and rights

The tree of units with the closure table its trigger rebuilds, the unit and the
roles of users, roles and permissions, and the guards that read them.

| Variable | Code |
| --- | --- |
| `rows` | `organizations`, `users`, `roles`, `permissions`; `links` are `user_roles` and `role_permissions` |
| `closure` | `organization_closure` |
| `business` | units with assignments or summaries |
| `pc`, `job`, `mem`, `base` | each request |
| `given`, `behind`, `mixed`, `unseen` | history: the roles and permissions last asked for, requests overtaken by a write, rows such requests wrote, accounts whose unit was last written without a look at it |

| Actions | Code |
| --- | --- |
| `CreateOrg`, `UpdateOrg`, `AssertOrgExists`, `AssertNoCycle`, `SetActive` | a unit made, moved, locked |
| `RemoveOrg`, `NoChildren`, `NoTenants`, `NoBusiness` | `remove` with its three checks, a statement each |
| `CreateUser`, `UpdateUser`, `AssertFkReferences`, `RemoveUser`, `AssignRoles`, `Find`, `FindAll`, `ChangePassword` | users and their roles; a changed password only as the save it is |
| `CreateRole`, `CreateRoleGroup`, `UpdateRole`, `PatchRoleGroup`, `Resolve`, `RemoveRole`, `UpdatePermissions` | roles and role groups |
| `CreatePermission`, `UpdatePermission`, `RemovePermission` | permissions |
| `Insert`, `SaveLoad`, `SaveWrite`, `SaveRefused`, `SaveHangs` | `save` and `softRemove`, with their links; a duplicate key; the trigger on a cycle |
| `SeedRole`, `Dispatch`, `Die` | the seeder at the start; an assignment for a unit; a request that dies |

Guards: `Authorize` is `validateUser`, `Rights` what `getUserPermissions` collects,
`MayCall` the `PermissionsGuard`. Facts the model keeps: `findOne` hands out a user
with an empty list of roles, so every save of a user, also the one that changes
his own password, drops his roles until they are assigned again; `UserService.update`
looks for `orgId` (`UnitChecked`; a null stands for the unit the account is under) and
writes `departmentId` where the request has both (`UnitWritten`; a null is written as
null); the closure holds
deleted units too; the removal of a unit looks at users with plain SQL, deleted
ones included; the scope of a draft campaign does not keep a unit from removal, so
a removed one can still be dispatched to; a system role cannot be renamed or
removed but its permissions can be set; a move that closes a cycle never returns
from the trigger's recursive query and blocks all later writes of units. Two
overlapping statements on units: the second fails on the key of the closure,
which for the tables is `Die`. Codes and names with their unique indexes, `level`
and `canAssignReports` are left out.

### `CampaignSummary`: what is shown of a campaign

Operators over the tables of `SubmissionApproval`, which it extends: `Readiness`,
`Preview` with its merge of the cells (`Merged`), the key figures `Kpis`, the
dashboard's `FieldReports`. None of the readers writes. Where an assignment has
two submissions the readers differ: the preview counts both and reads the cells of
one that nothing decides, the dashboard shows one, the figures count both. `pick`
says which one is taken, and what is claimed holds for every `pick`. A reader runs
several queries; the property asks about states in which nothing it reads changes,
so it is one step. Not modelled: `create`, `recompute` and `listReports` of the
report summaries name columns the schema does not have (`batch_id`, `approved_at`)
and fail where there is a campaign, or store constants where there is none; charts,
pivot and export answer constants.

### What the runs check

| Run | Result | What it asks |
| --- | --- | --- |
| `SubmissionConcurrent` | pass | two requests at a time, five in all, any may die: what holds under every interleaving, of the reports and of what is shown of them |
| `SubmissionSerial` | pass | one request at a time, six in all, it may die: what holds while requests do not overlap |
| `SubmissionProgress` | pass | two at a time, fair: what must eventually happen |
| `SubmissionOverlap` | violation | cells are locked once a report is submitted |
| `SubmissionDuplicate` | violation | an assignment has one submission |
| `SubmissionSilence` | violation | the submitter is told of a rejection |
| `CampaignConcurrent` | pass | two requests around dispatch and cancellation, six in all, any may die |
| `CampaignLock` | violation | scopes and default values are locked once a campaign is dispatched |
| `CampaignUnique` | violation | a UNIQUE template gives an indicator to one unit |
| `TemplateConcurrent` | pass | two overlapping requests on a form, with campaigns made in between, any may die, fair |
| `AuthConcurrent` | pass | two requests at a time, four in all, on one account while the clock moves, any may die |
| `DirectoryConcurrent` | pass | two administrators at a time, three requests, with the seeder and dispatches in between, any may die |

`MCSubmissionApproval` gives the constants: one unit with one assignment, one or
two reporters of that unit, one department approver, one district approver who
belongs to no unit, a form of two indicators and one attribute, one cell of which
has a default value.

Of `SubmissionApproval`, under every interleaving:

- `TwoLevelApproval`: a district-approved report was submitted, approved by its
  department and approved by the district, each by a save that went through.
  Stale saves, rejections of older rounds and leftovers such as the
  `departmentApprovedBy` that `rejectDistrict` does not clear cannot get around it.
- `Attribution`: the `...By` columns name only people who did what the column says.
- `LogsAreCommitted`: the flow log tells only legal moves that went through.
- `OnlyWritableCells`: no cell outside the unit's scope or with a default value is stored.
- `ClosedForGood`: a district-approved report that no older request still writes
  to never changes again.
- `SummaryIsFinal` (of `CampaignSummary`): once a campaign can be aggregated and no
  request is still going to open or write one of its reports, the preview, the key
  figures and the dashboard never change again, whichever submission each of
  them picks, until an assignment is cancelled. The premise names what the code
  leaves open: `canAggregate` alone may be taken back by a request that was past
  its check of the status, or by a second submission opened beside the first.

While requests do not overlap, even if one dies between two statements:

- `ImplementsWorkflow`: the handlers implement `ReportWorkflow`, the workflow of the
  code (refinement, with the one report of an assignment as the mapping). It does
  not show the workflow of flow.md, which the code does not implement: see the table
  under `ReportWorkflow`.
- `DeskShowsSubmitted`: what lies on an approver's desk is what was submitted.
- `VersionIdentifiesContent`: a screen that shows the row's version shows its
  cells, so the version check of a patch loses no edit, except on a report where
  a patch died half-way.
- `LogIsChain`, `CompletionIsCurrent`, `OneSubmissionPerAssignment`.

These are stated for non-overlapping requests because they are false otherwise:
`SubmissionOverlap` and `SubmissionDuplicate` show how, against what
`docs/canonical/rules.md` and `docs/db/report-flow-lifecycle.md` say.
`SubmissionSilence` shows that the query behind the submitter's notice never
selects the column its caller tests, so no submitter is ever told of a decision.

Of `CampaignDispatch` (`CampaignConcurrent`):

- `AssignedAsScoped`: the units with an assignment are the units in the scope of
  their dispatched campaign, every assignment carries its deadline, and a
  campaign in draft or cancelled has none.
- `DispatchIsFinal`: scope, default values and deadline of a campaign that left
  the draft never change, and its status only from dispatched to closed.
- `AssignmentsEndure`: no assignment is lost, none changes its deadline, and a
  cancelled one never comes back, also when a campaign is dispatched twice.
- `TemplatePutInUse`, `TemplateMovesForward`: the template of a campaign made by
  `create` is in use, and its status never moves back.

The first two speak of campaigns that are not `raced`: none of their status moves
was committed while another request, past its check of the status, still had the
campaign in hand. The last two speak in the same way of the template (`formRaced`)
and of requests that did not die. The code promises no more: it checks the status
once and takes no lock. `CampaignLock` shows the case left out. The one property
without such an exception is `AssignmentsEndure`, and it matters most there: a
stale `patch` puts a dispatched campaign back into draft, its scopes change, it is
dispatched again, and the units' assignments survive.

Other disagreements with the documents, seen by reading: those of the approval flow,
in the table under `ReportWorkflow`; `patchCells` checks the scope and the default
values of a cell but not its configuration, which `docs/canonical/data-contracts.md:39`
asks for; `createBatch` makes a campaign of a template in any status and never puts it
in use; the transition `cancel_force` of `docs/canonical/flow.md` does not exist;
`create` accepts dates in the wrong order.

Of `TemplateDesign` (`TemplateConcurrent`):

- `TreesAreForests`: indicators and attributes are forests under rows of their own
  form, unless two moves overlapped in the form or in the one it was copied from. Two
  that do can make a cycle.
- `StructureLocked`: `docs/canonical/rules.md` says the structure of a form with a
  campaign does not change; it holds unless the first campaign came while an edit
  was past its check.
- `OneUnitPerIndicator`: a UNIQUE form gives an indicator to one unit, unless two
  requests stored rules together or the type was changed over stored rules.
- `OrderAsAsked`, `CellAsAsked`, `CopyMirrors`, `ImportAsSheet`: what a reorder, a
  change of overrides, a copy and an import leave in the tables, against what was
  asked for and what was there, computed without the code's own helpers.
- `EditsEnd` (under `FairSpec`): every request is answered, unless overlapping moves
  left a cycle, from which the walk for the next one finds no way out.

Of `AuthSessions` (`AuthConcurrent`):

- `SpentOnce`: a refresh token buys one session and a reset token one password,
  unless two requests had it in hand together or one died with it
  (`docs/db/modules/auth.md:18` calls the reset token single-use).
- `SpentForGood`: what is revoked or used never comes back, whatever overlaps.
- `SessionsEnd`: after a password change or reset no session rests on an old hash,
  but for those given out by a request that was at work when it ended, or where a
  save of an old copy put the old hash back.
- `LimitLocks`: each wrong password at or past the limit locks the account for the
  whole lock time from when it was counted, or a request that has counted one is
  about to. That holds of the first one and, because the count stays when a lock
  runs out, of every one after an expired lock. Left out are accounts where a save of
  an older copy put the counter or the lock back, or a request died before its lock.
  An account whose lock has run out may log in; the property does not say otherwise.

Of `Directory` (`DirectoryConcurrent`):

- `ClosureIsTree`: no cycle is ever stored, and ancestors and descendants answer as
  the parents do, also past removed units.
- `HangsTakeTwo`: a move that hangs in the trigger took two overlapping requests.
- `RemovedIsBare`: under a removed unit there is no unit, unless requests
  overlapped, and no account but one whose unit was last written without a look at
  it (`unseen`): `update` with an `orgId` and a `departmentId` checks the first and
  writes the second, so a single request can put an account under a removed unit.
- `RightsAsGiven`: no save and no removal gives anybody a right nobody gave. Users,
  roles and permissions that an overtaken request wrote (`mixed`) are not spoken of:
  there two whole copies may mix their links. That a user keeps his roles is not
  claimed, because the code drops them.

The exceptions in these properties are the history variables of the modules; each
is set in exactly the interleaving it names. They are not excuses for the model:
each of them is a case that the code leaves open. The runs reach them, but for two
that need a third request where `TemplateConcurrent` has two: a copy of a form that
is already `crossed`, and a walk that goes round a stored cycle for ever (the
exception of `EditsEnd`). The theorem `Trees` covers the first for any number of
requests; nothing checks the second.

### Bounds

- Campaign runs. `MCCampaignDispatch` has two units, one indicator, one attribute,
  one period and two deadlines, one of which has its dates in order; the template
  gives the indicator to the first unit by default. Two units tell a unit that
  keeps its assignment from one that gets or loses it. Six requests, two at a time,
  are enough to make the template ready, make a campaign, change its scope,
  dispatch it, put it back with a stale patch, change the scope again and dispatch
  again (dispatches are not counted); the violations need two and three. There is
  no liveness property: nothing in these handlers has to follow by itself.
- Submission runs. `MaxRequests` bounds the requests served in a behaviour; five
  with two at a time reach a submission that is opened, filled in, submitted and
  approved twice with any overlap of neighbours (every violation above needs at
  most four), six in a row reach a full round with a rejection and a second submit.
  Two submission codes are enough for two requests to collide or to insert twice.
  One assignment: sums over several units are not reached in this run, but the
  theorem about them holds for any number.
- Template run. A root indicator with two under it and two attributes: enough for
  two moves to close a cycle, for a row to move past a sibling and for a copy or a
  sheet to have two levels. Two requests make one overlapping pair of any two
  operations; a sequence of three is not covered by the run, but by the theorems.
- Auth run. One account (accounts do not touch each other), two passwords, a limit
  of two failures, all times one tick of a clock that goes to 2: a token can be
  made, expire and be asked for again. Four requests give a login, a refresh that
  overlaps a change, and a use of what is left.
- Directory run. A root with a unit under it and a third to be made, two users, a
  system role, an ordinary one and one to be made, three permissions, one for each
  kind of route. Two moves that overlap need two requests; the third makes
  the unit they move, or waits behind the move that hangs.

Larger bounds make TLC run for hours; the theorems below need none.

Deadlock checking is off: no user has to send a request, so the system may rest
in any state in which none is in hand.

### Fairness

`FairSpec` of `SubmissionApproval` adds weak fairness of `Proceed(r)`, that of
`TemplateDesign` weak fairness of `Handle(r)`, for each request in hand: once a
request has started, the event loop comes back to every `await` and the database
answers. Arrivals, crashes, campaigns and cancellations have no fairness. The
liveness properties of the submissions say "unless a request dies", because
nothing in the code resumes a request that died; a dead request of the designer
counts as answered.

## What is proved

TLAPS proves the following for every number of requests, users, units,
assignments, campaigns, codes, cells, passwords and values, with no bound but the
named assumptions of the modules (of `SubmissionApproval`: who the actors are, that a
campaign's indicators and attributes are finite sets, that `NULL` is none of the
things it stands next to; of `CampaignDispatch`: the same of `NULL`, and which set is
part of which; of `AuthSessions`: the same of `NULL`, that the times are natural
numbers and that at least one failure is allowed; of `Directory`: that an id is of one
table and neither `NULL` nor `UNSET`, that there are finitely many units, and that the
rows the seed leaves refer to rows that are there and form a tree; of `TemplateDesign`:
that ids are numbers of two finite tables that share none, that `NULL` and `UNSET` are
none of the things they stand next to, and that the rows of the seed are two forests of
its form).

`SubmissionProofs`, first `TypeCorrect`. `TypeOK` is not inductive: a step that
saves needs to know that the request has a copy and a base row, one that answers a
patch needs the screen it updates to be filled. `TypeInv` adds this (`InHandOK`,
`ScreensFull`). The arithmetic lemmas show that the completion percentage stays
between 0 and 100.00 whatever the form, the scope and the defaults are, also when
more cells carry defaults than the unit has to fill in.

Then, in the same module, `NoApprovalSkipped`, `NobodyMisnamed`, `LogIsHonest`,
`NoForeignCell` and `ClosedReportsStay`, all from one inductive invariant
`SafetyInvariant`. Its heart is what a *request in flight* may still do: `Sound(r)`
says that every column of the copy in its memory that differs from what it read is
justified by the operation the request performs, and every column it only carries
along was justified when it was read. Since `done` only grows, what was justified
stays so, and a save that merges any base row with such a copy writes only
justified columns. This is why stale saves cannot skip a level, although they can
mix columns of different rounds.

`SubmissionSerialProofs`: what holds of a report while the requests on it take turns.
The hypothesis of its theorems is `[]Apart`: no two requests in hand are on the same
assignment. Requests on different assignments overlap freely, any request may die
between two statements, campaigns and cancellations come when they like, and there is
no bound on how many requests an assignment sees. The run `SubmissionSerial`, which has
one request at a time, is an instance; the violations `SubmissionDuplicate` and
`SubmissionOverlap` find need two requests on one assignment, so the hypothesis is close
to what the code needs. The theorems state every property of that run that `SubmissionProofs` does not:
`OneReportEach` (one submission per assignment), `DeskIsTrue` (the desk of the next
actor shows the report as submitted), `LogHasNoGap` (each entry starts where the one
before ended), `NoEditIsLost` (a version stands for one content), `CountKeepsUp` (the
completion percentage is that of the cells) and `WorkflowImplemented`, the refinement
of `ReportWorkflow`.

They come from one inductive invariant, `SerialInv`, with the two of `SubmissionProofs`.
Its first half says of a request in flight that what it has read still *is* what is
there (`CopyTrue`), and that the copy it will save is the row with exactly its own
change made (`ChangeTrue`, `PatchTrue`): this is what being apart buys, where `Sound`
could only say that the copy is justified. Its second half says of a report how far the
tables may be behind the request that is at work on it (`Behind`: cells written and not
counted, a status saved and not logged), and that nothing is behind when nobody is
(`WholeTrue`). A request that dies leaves its report behind for good, so `WholeTrue` is
for reports no request died on, the condition the properties themselves state. In
the refinement the step that inserts a report is `Open`, the write of a cell is `Fill`,
the save of a new status is `Move`, and all others leave the abstract state alone; that
a save moves along `Moves` and carries no column of another round is `CopyTrue` again.

`CampaignSummaryProofs`: `SummaryStands`, that what is shown of a settled campaign
is final. Every report of a unit at work is closed there and nobody is about to
insert another one (`SettledClosed`, `NobodyOpens`); a save keeps the assignment of
its report, which needs `SafetyInvariant`, because the copy it writes may be old
(`SaveKeepsReports`); so the reports, their rows and their cells, which is all the
readers look at, are the same after every step, and the campaign is settled again.

`CampaignProofs`, first `CampaignTypeCorrect`, from `TypeInv`, which adds to
`TypeOK` what a request has in hand at each statement (`InHand`): the campaign it
works on exists, a save has its copies, an item loop has its current item.

Then `DispatchGivesOut` and `DispatchStands`, which rest on
`DispatchInv`, whose second half (`HoldersInv`) says of every campaign that is not
raced that a request which still holds it finds it in the status it read and with
the copy of the row it will write back. A status move with a holder around puts
the campaign into `raced`, so after a dispatch there is no holder that could
write. `AssignmentsStay` needs no more than the types, because `Dispatch` and
`CancelAssignment` are the only writers: this is what the unique index buys.
`TemplateInUse` and `TemplateForward` rest on `FormInv`: what a request is about to
write is never behind what is there, and a campaign that `create` has made has a
template in use or a request that is still going to put it there.

`AuthProofs`, first `AuthTypeCorrect`. `TypeInv` adds what each request has in hand at
each statement (`InHand`) and that the numbers that name sessions, resets and salts
are never used twice (`NumbersOK`); a clock and a bound of any size are allowed.

Then every property `AuthConcurrent` checks, each from an invariant of
its own beside `TypeInv`. `OnePurchase`: of a token or a reset that nobody else has
held there is one buyer, who has found it good and has bought nothing with it until
the statement that sells (`OneBuyer`). `SessionsDoEnd`: salts are fresh until they are
written, so a user's hash is never one he had before unless a save put it back
(`SaltsOK`), and a login or a refresh under way is either overtaken, and marked late,
or rests on a hash that no finished change left behind (`InDate`). `AttemptsLock`: a
copy that a save will write has the counter and the lock it was read with, or none,
so only one that was read before them can put them back; no failure is later than the
clock (`failedAt`), so a lock set now lasts the whole time from the last one, and who
counts a failure goes on to the count and the lock, whatever lock had run out before.
`SpentStays` needs no more than the types.

`DirectoryProofs`, its first part: the tree of units and the closure the trigger makes
of it, as facts about parents. What is needed of a tree is `Rooted`: no set of units has the
parents of all its members. It speaks of no walk, so it is easy to keep by a move, and
`AcyclicRooted` and `RootedAcyclic` tie it to the walk up that the seed assumption is
stated with. The climb and the levels of the closure are recursive functions. That
TLA+'s `CHOOSE` for them has something to choose is shown by making the function longer
one number at a time, and facts about them by induction over a set of numbers
(`Induction`, from the well-foundedness of the natural numbers), which needs no operator
as a parameter.

Its second part: every property `DirectoryConcurrent` checks (`TypeCorrect`,
`TreeIsTree`, `RemovedStaysBare`, `OneNeverHangs`, `RightsStayGiven`), for every finite
set of units and any number of users, roles, permissions and requests, from the
inductive invariant `IInv`: references lead to rows (`RefsOK`), the units are a tree and
the closure is its closure (`TreeOK`), a role or a permission somebody has was given to
him (`RightsOK`), and what each request has in hand at its next statement (`InHand`,
`RefsInHand`, `Fresh`). `Fresh` is what the checks a handler made are worth: it holds of
requests that nobody wrote under, and the histories `behind` and `mixed` say which
those are. The unit that was looked for is kept in the request (`job[r].unit`) apart
from the one in its copy, so what a check of it is worth holds of the copy only where
the two agree, and where they do not the save marks the account `unseen`. The walk of a move meets no cycle because the tree before the move is
`Rooted` and the new parent is not below the unit (`FreshNoCycle`). The proof of
`RightsAsGiven` found the model wrong: a role group is asked for by keys and actions,
and several permissions may share a key and an action, but the model recorded as given
only the permissions named, so the property was false for such a `Class`. What
`PatchRoleGroup` asks for is now all that the keys and actions stand for (`InClasses`),
and the instance TLC checks has two permissions in one class.

`TemplateEditProofs` and `TemplateDesignProofs`: the form designer, for any number of
forms, rows, codes, units, overrides and requests. The inductive invariant `IInv` has
the types, the tables (`TablesOK`: rows, overrides and rules refer to rows of one form,
what a campaign refers to is there, the trees are forests) and, of each request, what it
has in hand at its next statement (`InHand`) and what its checks are still worth:

- `Walked`: above the new parent of a move that is checked there is a set of rows closed
  under parents that does not have the moved row, and the plan of a reorder has no loop.
  A forest is, as in `DirectoryProofs`, a set of rows in which no part has all its own
  parents. So a walk of one read a step, which other requests' moves can cross, is
  reasoned about without a path; `ForestKept` and its companions say what each kind of
  write does to a forest.
- `Alone`: the rules a request is about to store give an indicator of a UNIQUE form to
  one unit, and what is there when it turns them on is what it saw.
- `Locked`: who works on a form with campaigns has not got past a check of its structure.

`TemplateEditProofs` has these definitions, the facts about numbers, finite sets,
forests and rows, and the statements that write one row, override or rule, or only
check. `TemplateDesignProofs` has the statements that write many rows, imports, and
the theorems: `TypeCorrect`, `Trees`, `OneUnit` and `StructureStays` from `IInv`,
three on the plans of single statements, and one on the import. `CellsAsAsked` is a
matter of fields. `CopiesMirror` needs that the ids a copy gives out are distinct,
fresh and as many as the rows read. `OrdersAsAsked` is about any number of siblings:
that an order in which every two rows are comparable numbers a finite set from zero
without gaps (`Places`), and that putting the listed rows, in the order of the list,
into the places they have among their siblings leaves every place taken once.

The proof of `Trees` found the property wrong, beyond TLC's two requests: two moves that
overlap make a cycle in a form, `copyForm` reads it, and the copy has a cycle although
nobody moved anything in it. With three requests TLC shows the same. A copy of a form
in `crossed` is now in `crossed` too.

`ImportsStored` is the proof of a loop. An import that nobody has disturbed has
stored the first rows of its sheet, each under an id of its own, and what is still to
be linked are rows of the sheet (`StoredOK`); while rows are stored none has a parent
(`ToStore`); while links are made every row has its parent, or waits, or is the one
being moved (`Linked`, `Moving`). That nobody else is at work is an invariant too
(`SoloOK`), so only the import's own statements have to be looked at. Where a key
stands twice in the sheet the property claims the rows and not their parents, because
`find` takes the first row of a key (`FirstOfKey`).

Only model-checked: the three liveness properties, `ApproversAreTold`,
`DecisionsAreLogged` and `EditsEnd` (fairness and ENABLED are out of the prover's
reach). No recursive operator is declared in any module.

## Not modelled

- `audit-log`: appends rows nobody in the modelled flows writes or reads.
- The inbox of `notification`: it reads the outbox and sets one flag.
- Of `common`: the validation pipe, the envelope, logging and the error filter act
  on one request and keep no state; `RolesGuard` and `ApiKeyGuard` guard no route.
- Reads that change nothing (lists, histories, searches), texts, Excel layout,
  seeds other than those the models start from, and the older migration trees.
- Operations that can write nothing in this code: `register`, `nextPeriod`,
  `configureIndicatorScopes`, and the storing of report summaries where the period
  has a campaign.

## Plan

What is left, in this order:

1. Composition of `CampaignDispatch` and `SubmissionApproval`: scope and default
   cells as state instead of constants, and an abstract specification of a campaign
   whose scope is frozen at dispatch, implemented while no request is overtaken.
2. The inbox, and units of `Directory` in the guards of the other modules.
