--------------------------- MODULE TemplateDesign ---------------------------
(***************************************************************************)
(* The structure of form templates: the handlers of                        *)
(* TemplateManagementService (form-designer.service.ts) over the tables    *)
(* form_templates, form_template_indicators, form_template_attributes,     *)
(* form_template_cell_configs, form_template_indicator_org_rules,          *)
(* indicator_catalog and field_categories.                                 *)
(*                                                                         *)
(* A request is a process.  The reads and refusals a handler starts with   *)
(* are one step, in which the rows it will use are copied to its memory;   *)
(* every later statement, and every transaction, is a step of its own.     *)
(* save(row) selects the row again, inserts it when it is gone and         *)
(* otherwise updates the columns in which the copy differs.  A transaction *)
(* whose statements touch rows no other statement of the model can leave   *)
(* half-way is one step; the one of upsertTemplateScopes is two.           *)
(*                                                                         *)
(* A campaign is only known as the rows of the template it refers to, and  *)
(* is made in one step: CampaignDispatch models it in full.  Left out:     *)
(* names, codes of templates and categories, units, display indexes, data  *)
(* types of indicators (all are numbers, as the seed's) and the lists,     *)
(* which only read.                                                        *)
(***************************************************************************)
EXTENDS Integers, Sequences, FiniteSets

CONSTANTS
  Requests,      \* requests the server has in hand at the same time
  MaxRequests,   \* bound: requests served in a behaviour
  Crashes,       \* TRUE: a request may die between two statements
  Forms,         \* bound: ids of templates
  Indicators,    \* bound: ids of indicators, numbers as uuids are ordered
  Attributes,    \* bound: ids of attributes
  Codes,         \* codes of indicators
  Orgs,          \* units, all active
  Entries,       \* entries of the indicator catalog
  Categories,    \* field categories
  Later,         \* entries and categories that are not there at first
  SeedForm, SeedRows,                     \* what the seed migration inserts
  Drafts, Patches, Orders, Changes, Rules, Sheets,   \* inputs: see the sets below
  NULL, UNSET                             \* UNSET: a field left out of a request

Nodes == Indicators \cup Attributes
Cells == Indicators \X Attributes

\* Indicators and attributes are kept in tables of their own.
Side(n) == IF n \in Indicators THEN Indicators ELSE Attributes

IndicatorRow ==
  [form : Forms, parent : Indicators \cup {NULL}, sort : Nat, code : Codes,
   kind : {"INPUT", "TITLE", "BLANK"}, entry : Entries \cup {NULL}]

AttributeRow ==
  [form : Forms, parent : Attributes \cup {NULL}, sort : Nat, code : {NULL},
   kind : {"PLAIN", "SYSTEM"}, entry : {NULL}]

RowOf(n) == IF n \in Indicators THEN IndicatorRow ELSE AttributeRow

FormRow ==
  [status : {"DRAFT", "READY", "IN_USE", "ARCHIVED"}, type : {"AGGREGATE", "UNIQUE"},
   category : Categories \cup {NULL}, deleted : BOOLEAN]

CellConfig ==
  [type : {"text", "number"}, required : BOOLEAN, editable : BOOLEAN, formula : {NULL, "f"}]

\* is_enabled of a rule
RuleState == BOOLEAN \cup {NULL}

\* An entry of the catalog or a field category.
ListState == {"active", "inactive", "gone", NULL}

\* What a request may carry.
CreateFormDto == [type : {"AGGREGATE", "UNIQUE"}, category : Categories]
PatchFormDto ==
  [type : {"AGGREGATE", "UNIQUE", UNSET}, category : Categories \cup {NULL, UNSET}]
CopyFormDto == [category : Categories \cup {UNSET}]
UpsertTemplateScopesDto == SUBSET (Orgs \X Indicators)
CreateIndicatorDto ==
  [parent : Nodes \cup {NULL}, code : Codes, kind : {"INPUT", "TITLE"},
   entry : Entries \cup {NULL}, sort : Nat \cup {UNSET}]
PatchIndicatorDto ==
  [parent : Nodes \cup {NULL, UNSET}, code : Codes \cup {UNSET},
   kind : {"INPUT", "TITLE", UNSET}, entry : Entries \cup {NULL, UNSET}]
ReorderItemDto == [id : Nodes, parent : Nodes \cup {NULL, UNSET}]
CellItemDto ==
  [type : {"text", "number", UNSET}, required : {TRUE, FALSE, UNSET},
   readOnly : {TRUE, FALSE, UNSET}, formula : {NULL, "f", UNSET}]
ExcelRow ==
  [key : Codes, parent : Codes \cup {NULL}, sort : Nat, kind : {"INPUT", "TITLE", "BLANK"}]

ASSUME IdsAssumption ==
  /\ Indicators \subseteq Nat /\ Attributes \subseteq Nat
  /\ Indicators \cap Attributes = {}
  /\ IsFiniteSet(Indicators) /\ IsFiniteSet(Attributes)
  /\ Later \subseteq Entries \cup Categories /\ Categories \ Later # {}

\* The template of the seed has two forests.
ASSUME SeedAssumption ==
  /\ SeedForm \in Forms
  /\ SeedRows \in [Nodes -> IndicatorRow \cup AttributeRow \cup {NULL}]
  /\ LET there == {n \in Nodes : SeedRows[n] # NULL}
     IN  /\ \A n \in there : /\ SeedRows[n] \in RowOf(n) /\ SeedRows[n].form = SeedForm
                             /\ SeedRows[n].parent \in (there \cap Side(n)) \cup {NULL}
         /\ \A S \in (SUBSET there) \ {{}} : \E n \in S : SeedRows[n].parent \notin S

\* NULL and UNSET are not among the things they stand next to.
ASSUME NullAssumption ==
  /\ NULL # UNSET
  /\ \A none \in {NULL, UNSET} :
       /\ none \notin Forms /\ none \notin Nodes /\ none \notin Codes
       /\ none \notin Entries /\ none \notin Categories /\ none \notin BOOLEAN
       /\ none \notin {"AGGREGATE", "UNIQUE", "INPUT", "TITLE", "text", "number", "f"}
       /\ none \notin FormRow /\ none \notin IndicatorRow /\ none \notin AttributeRow
       /\ none \notin CellConfig /\ none \notin ExcelRow

ASSUME InputsAssumption ==
  /\ Drafts \subseteq CreateIndicatorDto
  /\ Patches \subseteq PatchIndicatorDto
  /\ \A items \in Orders : items \in Seq(ReorderItemDto)
  /\ \A items \in Changes : /\ DOMAIN items \subseteq Cells
                            /\ \A c \in DOMAIN items : items[c] \in CellItemDto
  /\ Rules \subseteq UpsertTemplateScopesDto
  /\ \A book \in Sheets : /\ DOMAIN book = {"indicators", "attributes"}
                          /\ book.indicators \in Seq(ExcelRow)
                          /\ book.attributes \in Seq(ExcelRow)

ASSUME BoundsAssumption == MaxRequests \in Nat /\ Crashes \in BOOLEAN

VARIABLES
  forms,       \* forms[f], NULL while there is none
  nodes,       \* nodes[n]: an indicator or an attribute, NULL while there is none
  born,        \* born[n]: the form id n was given to a row of, NULL while it was not:
               \* an id is never given twice
  cells,       \* cells[<<i, a>>]: the override stored for the cell, or NULL
  rules,       \* rules[<<o, i>>]: is_enabled of the rule, NULL while there is none
  lists,       \* an entry or a category: "active", "inactive", "gone", or NULL before
  campaigns,   \* campaigns[f]: the nodes its campaigns refer to, NULL without any
  pc,          \* pc[r]: the statement request r executes next
  job,         \* job[r]: what request r was asked to do, and its form and row
  copy,        \* copy[r]: the entity in r's memory
  base,        \* base[r]: the row the select inside save returned
  work,        \* work[r]: what else r has read and has still to write
  served,      \* requests taken so far
  crossed,     \* history: forms whose parents moved under a request that writes them,
               \* and the copies of these
  surprised,   \* history: forms whose first campaign came under an edit
  loosened     \* history: forms that may give an indicator of a UNIQUE form to two units

tables  == <<forms, nodes, born, cells, rules, lists, campaigns>>
memory  == <<job, copy, base, work>>
history == <<crossed, surprised, loosened>>
vars    == <<tables, pc, memory, served, history>>

NoJob == [op |-> "none", form |-> NULL, node |-> NULL, solo |-> FALSE]

\* The database after the migrations, and a catalog somebody has filled: one template,
\* ready for use.
Init ==
  /\ forms = [f \in Forms |-> IF f = SeedForm
                THEN [status |-> "READY", type |-> "AGGREGATE",
                      category |-> CHOOSE k \in Categories \ Later : TRUE, deleted |-> FALSE]
                ELSE NULL]
  /\ nodes = SeedRows
  /\ born = [n \in Nodes |-> IF SeedRows[n] # NULL THEN SeedForm ELSE NULL]
  /\ cells = [c \in Cells |-> NULL]
  /\ rules = [p \in Orgs \X Indicators |-> NULL]
  /\ lists = [k \in Entries \cup Categories |-> IF k \in Later THEN NULL ELSE "active"]
  /\ campaigns = [f \in Forms |-> NULL]
  /\ pc = [r \in Requests |-> "idle"]
  /\ job = [r \in Requests |-> NoJob]
  /\ copy = [r \in Requests |-> NULL]
  /\ base = [r \in Requests |-> NULL]
  /\ work = [r \in Requests |-> NULL]
  /\ served = 0
  /\ crossed = {}
  /\ surprised = {}
  /\ loosened = {}
-----------------------------------------------------------------------------
(* What the handlers read.                                                 *)

Live(f) == forms[f] # NULL /\ ~forms[f].deleted

HasCampaignOrAssignment(f) == campaigns[f] # NULL

Editable_NoCampaigns(f) ==   \* mutant: asks for the status only
  Live(f) /\ forms[f].status \in {"DRAFT", "READY"}

\* ensureTemplateStructureEditable
Editable(f) ==
  /\ Live(f)
  /\ forms[f].status \in {"DRAFT", "READY"}
  /\ ~HasCampaignOrAssignment(f)

\* find({ where: { formId } }) on one of the two tables
Of(f, S) == {n \in S : nodes[n] # NULL /\ nodes[n].form = f}

MaxOf(S) == CHOOSE x \in S : \A y \in S : y <= x

NextSortOrder_Max(f, S, parent) ==   \* mutant: the last number, not the next
  MaxOf({-1} \cup {nodes[n].sort : n \in {m \in Of(f, S) : nodes[m].parent = parent}})

NextSortOrder(f, S, parent) ==
  MaxOf({-1} \cup {nodes[n].sort : n \in {m \in Of(f, S) : nodes[m].parent = parent}}) + 1

\* ensureAttributeParent and ensureIndicatorParent
ParentInForm(f, S, parent) == parent \in Of(f, S) \cup {NULL}

CodeFree(f, code, n) ==
  \A m \in Of(f, Indicators) \ {n} : code = NULL \/ nodes[m].code # code

Fresh(S) == {n \in S : born[n] = NULL}

Kept(k) == lists[k] \in {"active", "inactive"}

\* requireActiveFieldCategory
ActiveCategory(k) == lists[k] = "active"

Named(keys, k) == k = NULL \/ (k \in keys /\ Kept(k))

\* What the foreign keys and the unique index ask of row n.
Admissible(n, row) ==
  /\ forms[row.form] # NULL
  /\ row.parent \in {m \in Side(n) : nodes[m] # NULL} \cup {NULL}
  /\ Named(Entries, row.entry)
  /\ CodeFree(row.form, row.code, n)

Merge(row, old, new) == [c \in DOMAIN row |-> IF new[c] # old[c] THEN new[c] ELSE row[c]]

-----------------------------------------------------------------------------
(* The life of a request.                                                  *)

Goto(r, label) == pc' = [pc EXCEPT ![r] = label]

\* solo is history: request r has had the server to itself so far.
Take(r, label, op, f, n) ==
  /\ pc[r] = "idle"
  /\ served < MaxRequests
  /\ served' = served + 1
  /\ Goto(r, label)
  /\ job' = [q \in Requests |->
               IF q = r THEN [op |-> op, form |-> f, node |-> n,
                              solo |-> \A p \in Requests : pc[p] = "idle"]
               ELSE [job[q] EXCEPT !.solo = FALSE]]
  /\ UNCHANGED <<tables, history>>

\* Keep in memory the entity e and the work w.
Hold(r, e, w) ==
  /\ copy' = [copy EXCEPT ![r] = e]
  /\ work' = [work EXCEPT ![r] = w]
  /\ UNCHANGED base

End(r) ==
  /\ Goto(r, "idle")
  /\ job' = [job EXCEPT ![r] = NoJob]
  /\ copy' = [copy EXCEPT ![r] = NULL]
  /\ base' = [base EXCEPT ![r] = NULL]
  /\ work' = [work EXCEPT ![r] = NULL]

Importing(r) == job[r].op = "import"

\* Request r is past its checks and will still write to form f.
Holding(r, f) ==
  /\ job[r].form = f
  /\ pc[r] \notin {"idle", "importRow", "importLink", "copyTree", "newForm"}

\* ... and what it will write includes parents.
HoldingParents(r, f) ==
  Holding(r, f) /\ pc[r] \in {"walk", "saveLoad", "saveWrite", "reorder"}

\* History: a step of r moved parents under another request that writes them.
Cross(r) ==
  crossed' = crossed \cup
    {f \in Forms : /\ \E n \in Nodes : /\ nodes'[n] # NULL /\ nodes'[n].form = f
                                       /\ \/ nodes[n] = NULL
                                          \/ nodes[n].parent # nodes'[n].parent
                   /\ \E q \in Requests \ {r} : HoldingParents(q, f)}

\* A statement of an import is over: the handler goes on with the next row, and
\* reports a failure at the end.  Any other request answers.
Answer(r, label, failed) ==
  IF Importing(r)
  THEN /\ Goto(r, label)
       /\ work' = [work EXCEPT ![r].failed = @ \/ failed]
       /\ UNCHANGED <<job, copy, base>>
  ELSE End(r)

-----------------------------------------------------------------------------
(* Templates.                                                              *)

CreateForm(r, d) ==
  /\ ActiveCategory(d.category)
  /\ Take(r, "newForm", "createForm", NULL, NULL)
  /\ Hold(r, [status |-> "DRAFT", type |-> d.type, category |-> d.category, deleted |-> FALSE],
          NULL)

\* One transaction: the template and its two system attributes.
NewForm(r) ==
  /\ pc[r] = "newForm"
  /\ LET ids == Fresh(Attributes)
         row(f, n) == [form |-> f, parent |-> NULL, sort |-> n, code |-> NULL,
                       kind |-> "SYSTEM", entry |-> NULL]
     IN  IF /\ Named(Categories, copy[r].category)
            /\ Cardinality(ids) >= 2
            /\ \E f \in Forms : forms[f] = NULL
         THEN LET f == CHOOSE f \in Forms : forms[f] = NULL
                  a == CHOOSE n \in ids : TRUE
                  b == CHOOSE n \in ids \ {a} : TRUE
              IN  /\ forms' = [forms EXCEPT ![f] = copy[r]]
                  /\ nodes' = [nodes EXCEPT ![a] = row(f, 0), ![b] = row(f, 1)]
                  /\ born' = [born EXCEPT ![a] = f, ![b] = f]
         ELSE UNCHANGED <<forms, nodes, born>>
  /\ End(r)
  /\ UNCHANGED <<cells, rules, lists, campaigns, served, history>>

\* copyForm reads the template and its trees, and writes the copy later.
CopyForm(r, f, d) ==
  LET k == IF d.category = UNSET THEN forms[f].category ELSE d.category
  IN  /\ Live(f)
      /\ k # NULL => ActiveCategory(k)
      /\ Take(r, "copyTree", "copyForm", f, NULL)
      /\ Hold(r, [status |-> "DRAFT", type |-> "AGGREGATE", category |-> k, deleted |-> FALSE],
              [n \in Of(f, Nodes) |-> nodes[n]])

\* The new ids of the copied rows, each side with its own; which ones is immaterial.
CopyIds(rows) ==
  LET rank(S, n) == Cardinality({x \in S : x < n})
  IN  [n \in DOMAIN rows |->
         CHOOSE m \in Fresh(Side(n)) : rank(Fresh(Side(n)), m) = rank(DOMAIN rows \cap Side(n), n)]

Copied_OldParents(rows, m, f) ==   \* mutant: the second pass is left out
  [n \in {m[x] : x \in DOMAIN rows} |->
     LET old == rows[CHOOSE x \in DOMAIN rows : m[x] = n]
     IN  [form |-> f, parent |-> NULL, sort |-> old.sort, code |-> old.code,
          kind |-> IF n \in Attributes THEN "PLAIN" ELSE old.kind, entry |-> old.entry]]

\* First pass: every row without its parent.  Second pass: the parents that were
\* copied.  Attributes of the system become plain ones.
Copied(rows, m, f) ==
  [n \in {m[x] : x \in DOMAIN rows} |->
     LET old == rows[CHOOSE x \in DOMAIN rows : m[x] = n]
     IN  [form   |-> f,
          parent |-> IF old.parent \in DOMAIN rows THEN m[old.parent] ELSE NULL,
          sort   |-> old.sort,
          code   |-> old.code,
          kind   |-> IF n \in Attributes THEN "PLAIN" ELSE old.kind,
          entry  |-> old.entry]]

CopyTree(r) ==
  /\ pc[r] = "copyTree"
  /\ LET rows == work[r]
         free(S) == Cardinality(DOMAIN rows \cap S) <= Cardinality(Fresh(S))
     IN  IF /\ Named(Categories, copy[r].category)
            /\ \A n \in DOMAIN rows : Named(Entries, rows[n].entry)
            /\ free(Indicators) /\ free(Attributes)
            /\ \E f \in Forms : forms[f] = NULL
         THEN LET f == CHOOSE f \in Forms : forms[f] = NULL
                  new == Copied(rows, CopyIds(rows), f)
              IN  /\ forms' = [forms EXCEPT ![f] = copy[r]]
                  /\ nodes' = [n \in Nodes |-> IF n \in DOMAIN new THEN new[n] ELSE nodes[n]]
                  /\ born' = [n \in Nodes |-> IF n \in DOMAIN new THEN f ELSE born[n]]
                  /\ crossed' = IF job[r].form \in crossed THEN crossed \cup {f} ELSE crossed
         ELSE UNCHANGED <<forms, nodes, born, crossed>>
  /\ End(r)
  /\ UNCHANGED <<cells, rules, lists, campaigns, served, surprised, loosened>>

\* The type is locked once there is a campaign.
PatchForm(r, f, d) ==
  /\ Live(f)
  /\ d.category \in Categories => ActiveCategory(d.category)
  /\ d.type # UNSET /\ d.type # forms[f].type => ~HasCampaignOrAssignment(f)
  /\ Take(r, "formLoad", "patchForm", f, NULL)
  /\ Hold(r, [c \in DOMAIN forms[f] |->
                IF c \in DOMAIN d /\ d[c] # UNSET THEN d[c] ELSE forms[f][c]], NULL)

\* setTemplateFile, and setActive when no campaign speaks against it: no column of the
\* model, but the save may still write the others as they were read.
SetOther(r, f) ==
  /\ Live(f)
  /\ Take(r, "formLoad", "setOther", f, NULL)
  /\ Hold(r, forms[f], NULL)

\* History: rules are stored, or on their way, that a UNIQUE form would have refused.
RulesLoose(f) ==
  LET enabled == {p \in DOMAIN rules : rules[p] = TRUE /\ nodes[p[2]].form = f}
  IN  IF \/ \E p, q \in enabled : p[2] = q[2] /\ p # q
         \/ \E q \in Requests : job[q].form = f /\ pc[q] \in {"rulesOff", "rulesOn"}
      THEN {f} ELSE {}

FormLoad(r) ==
  /\ pc[r] = "formLoad"
  /\ base' = [base EXCEPT ![r] = forms[job[r].form]]
  /\ Goto(r, "formWrite")
  /\ UNCHANGED <<tables, history, job, copy, work, served>>

\* Nothing looks at the rules when the type changes.
FormWrite(r) ==
  /\ pc[r] = "formWrite"
  /\ LET f == job[r].form
         row == Merge(forms[f], base[r], copy[r])
     IN  /\ forms' = [forms EXCEPT ![f] = IF Named(Categories, row.category) THEN row ELSE @]
         /\ loosened' = loosened \cup IF forms'[f].type # forms[f].type THEN RulesLoose(f) ELSE {}
  /\ End(r)
  /\ UNCHANGED <<nodes, born, cells, rules, lists, campaigns, served, crossed, surprised>>

\* Every indicator that takes a value has a unit when the form becomes ready.
MarkFormReady(r, f) ==
  /\ Live(f)
  /\ forms[f].status = "DRAFT"
  /\ \A i \in Of(f, Indicators) : nodes[i].kind = "INPUT" => \E o \in Orgs : rules[<<o, i>>] = TRUE
  /\ Take(r, "formLoad", "markFormReady", f, NULL)
  /\ Hold(r, [forms[f] EXCEPT !.status = "READY"], NULL)

ArchiveForm(r, f) ==
  /\ Live(f)
  /\ forms[f].status \in {"READY", "IN_USE"}
  /\ Take(r, "formLoad", "archiveForm", f, NULL)
  /\ Hold(r, [forms[f] EXCEPT !.status = "ARCHIVED"], NULL)

RemoveForm(r, f) ==
  /\ Editable(f)
  /\ Take(r, "dropForm", "removeForm", f, NULL)
  /\ Hold(r, NULL, NULL)

DropForm(r) ==
  /\ pc[r] = "dropForm"
  /\ forms' = [forms EXCEPT ![job[r].form].deleted = TRUE]
  /\ End(r)
  /\ UNCHANGED <<nodes, born, cells, rules, lists, campaigns, served, history>>

-----------------------------------------------------------------------------
(* The two trees: indicators and attributes.                               *)

CreateAttribute(r, f, parent) ==
  /\ Editable(f)
  /\ ParentInForm(f, Attributes, parent)
  /\ Take(r, "insert", "createAttribute", f, NULL)
  /\ Hold(r, [form |-> f, parent |-> parent, sort |-> NextSortOrder(f, Attributes, parent),
              code |-> NULL, kind |-> "PLAIN", entry |-> NULL], NULL)

CreateIndicator(r, f, d) ==
  /\ Editable(f)
  /\ ParentInForm(f, Indicators, d.parent)
  /\ CodeFree(f, d.code, NULL)
  /\ Named(Entries, d.entry)
  /\ Take(r, "insert", "createIndicator", f, NULL)
  /\ Hold(r, [form |-> f, parent |-> d.parent, code |-> d.code, kind |-> d.kind, entry |-> d.entry,
              sort |-> IF d.sort = UNSET THEN NextSortOrder(f, Indicators, d.parent) ELSE d.sort],
          NULL)

\* What an import keeps of the row it has stored under id n: the id for the row's key and,
\* when there is one, the parent to look for later.
Stored(w, n) ==
  LET known == [w EXCEPT !.ids = Append(@, <<w.head.key, n>>)]
  IN  IF w.head.parent = NULL THEN known ELSE [known EXCEPT !.links = Append(@, w.head)]

\* The table the new row belongs to.
Target(r) == IF copy[r].code = NULL THEN Attributes ELSE Indicators

\* Ids are given in order (a uuid is not: siblings with the same number may stand in
\* any order then).
Insert(r) ==
  /\ pc[r] = "insert"
  /\ LET ids == Fresh(Target(r))
         n == CHOOSE n \in ids : \A m \in ids : n <= m
         done == ids # {} /\ Admissible(n, copy[r])
     IN  /\ nodes' = IF done THEN [nodes EXCEPT ![n] = copy[r]] ELSE nodes
         /\ born' = IF done THEN [born EXCEPT ![n] = copy[r].form] ELSE born
         /\ IF ~Importing(r) THEN End(r)
            ELSE /\ Goto(r, "importRow")
                 /\ work' = [work EXCEPT ![r] = IF done THEN Stored(@, n)
                                                ELSE [@ EXCEPT !.failed = TRUE]]
                 /\ UNCHANGED <<job, copy, base>>
  /\ UNCHANGED <<forms, cells, rules, lists, campaigns, served, history>>

\* An update of the parent first walks up from it; other updates save at once.
Revise(r, f, n, row, parent) ==
  /\ Take(r, IF parent \in {NULL, UNSET} THEN "saveLoad" ELSE "walk", "patch", f, n)
  /\ Hold(r, row, [cursor |-> parent])

PatchAttribute(r, f, n, parent) ==
  /\ Editable(f)
  /\ n \in Of(f, Attributes)
  /\ nodes[n].kind # "SYSTEM"
  /\ parent # UNSET => ParentInForm(f, Attributes, parent) /\ parent # n
  /\ Revise(r, f, n, [nodes[n] EXCEPT !.parent = IF parent = UNSET THEN @ ELSE parent], parent)

PatchIndicator(r, f, n, p) ==
  /\ Editable(f)
  /\ n \in Of(f, Indicators)
  /\ p.parent # UNSET => ParentInForm(f, Indicators, p.parent) /\ p.parent # n
  /\ p.code # UNSET => CodeFree(f, p.code, n)
  /\ p.entry # UNSET => Named(Entries, p.entry)
  /\ Revise(r, f, n, [c \in DOMAIN nodes[n] |->
                        IF c \in DOMAIN p /\ p[c] # UNSET THEN p[c] ELSE nodes[n][c]], p.parent)

Walk_OneLevel(r) ==   \* mutant: looks at the new parent only
  /\ pc[r] = "walk"
  /\ IF work[r].cursor = job[r].node
     THEN Answer(r, "importLink", TRUE)
     ELSE Goto(r, "saveLoad") /\ UNCHANGED memory
  /\ UNCHANGED <<tables, history, served>>

Walk_NoProgress(r) ==   \* mutant: reads the same row again
  /\ pc[r] = "walk"
  /\ LET n == work[r].cursor
     IN  IF n = job[r].node
         THEN Answer(r, "importLink", TRUE)
         ELSE /\ Goto(r, IF n = NULL THEN "saveLoad" ELSE "walk")
              /\ UNCHANGED memory
  /\ UNCHANGED <<tables, history, served>>

\* ensureNoAttributeCycle and ensureNoIndicatorCycle: one row of the form is read in
\* each step, until the walk meets the node itself or has no further parent.
Walk(r) ==
  /\ pc[r] = "walk"
  /\ LET n == work[r].cursor
     IN  IF n = job[r].node
         THEN Answer(r, "importLink", TRUE)
         ELSE IF n \in Of(job[r].form, Side(job[r].node)) /\ nodes[n].parent # NULL
         THEN /\ work' = [work EXCEPT ![r].cursor = nodes[n].parent]
              /\ UNCHANGED <<pc, job, copy, base>>
         ELSE Goto(r, "saveLoad") /\ UNCHANGED memory
  /\ UNCHANGED <<tables, history, served>>

SaveLoad(r) ==
  /\ pc[r] = "saveLoad"
  /\ base' = [base EXCEPT ![r] = nodes[job[r].node]]
  /\ Goto(r, "saveWrite")
  /\ UNCHANGED <<tables, history, job, copy, work, served>>

\* The update of a row deleted since its select touches nothing.
SaveWrite(r) ==
  /\ pc[r] = "saveWrite"
  /\ LET n == job[r].node
         row == IF base[r] = NULL THEN copy[r] ELSE Merge(nodes[n], base[r], copy[r])
         done == (base[r] = NULL <=> nodes[n] = NULL) /\ Admissible(n, row)
     IN  /\ nodes' = IF done THEN [nodes EXCEPT ![n] = row] ELSE nodes
         /\ Answer(r, "importLink", ~done /\ (nodes[n] = NULL => base[r] = NULL))
  /\ Cross(r)
  /\ UNCHANGED <<forms, born, cells, rules, lists, campaigns, served, surprised, loosened>>

RemoveAttribute(r, f, n) ==
  /\ Editable(f)
  /\ n \in Of(f, Attributes)
  /\ nodes[n].kind # "SYSTEM"
  /\ Take(r, "delete", "removeAttribute", f, n)
  /\ Hold(r, NULL, NULL)

\* The cells that carry data are those of a campaign.
RemoveIndicator(r, f, n) ==
  /\ Editable(f)
  /\ n \in Of(f, Indicators)
  /\ Take(r, "delete", "removeIndicator", f, n)
  /\ Hold(r, NULL, NULL)

\* The children lose their parent; overrides and rules of the row go with it.
Unlink(n) ==
  /\ nodes' = [m \in Nodes |->
       IF m = n \/ nodes[m] = NULL THEN IF m = n THEN NULL ELSE nodes[m]
       ELSE [nodes[m] EXCEPT !.parent = IF @ = n THEN NULL ELSE @]]
  /\ cells' = [c \in Cells |-> IF n \in {c[1], c[2]} THEN NULL ELSE cells[c]]
  /\ rules' = [p \in DOMAIN rules |-> IF p[2] = n THEN NULL ELSE rules[p]]

\* Rows of a campaign restrict the delete.
Delete(r) ==
  /\ pc[r] = "delete"
  /\ IF \E f \in Forms : campaigns[f] # NULL /\ job[r].node \in campaigns[f]
     THEN UNCHANGED <<nodes, cells, rules>>
     ELSE Unlink(job[r].node)
  /\ End(r)
  /\ UNCHANGED <<forms, born, lists, campaigns, served, history>>

-----------------------------------------------------------------------------
(* Reordering.                                                             *)

Listed(items, n) == \E i \in DOMAIN items : items[i].id = n

At(items, n) == CHOOSE i \in DOMAIN items : items[i].id = n

\* effectiveParentId: the parent asked for, or else the one read.
Effective(rows, items, n) ==
  IF Listed(items, n) /\ items[At(items, n)].parent # UNSET
  THEN items[At(items, n)].parent ELSE rows[n].parent

\* isCycle: the walk up from n finds no root.
Loops(rows, items, n) ==
  LET last == Cardinality(DOMAIN rows)
      up[k \in 0..last] == IF k = 0 THEN Effective(rows, items, n)
                           ELSE IF up[k - 1] = NULL THEN NULL
                           ELSE Effective(rows, items, up[k - 1])
  IN  up[last] # NULL

Acceptable(rows, items) ==
  /\ \A i \in DOMAIN items : /\ items[i].id \in DOMAIN rows
                             /\ items[i].parent \in DOMAIN rows \cup {NULL, UNSET}
                             /\ items[i].parent # items[i].id
  /\ \A i, j \in DOMAIN items : items[i].id = items[j].id => i = j
  /\ \A i \in DOMAIN items : ~Loops(rows, items, items[i].id)

Before(rows, m, n) ==
  rows[m].sort < rows[n].sort \/ (rows[m].sort = rows[n].sort /\ m < n)

NewSort_Ignored(rows, items, n) ==   \* mutant: the order of the list is not used
  Cardinality({m \in DOMAIN rows : /\ Effective(rows, items, m) = Effective(rows, items, n)
                                   /\ Before(rows, m, n)})

\* Siblings are numbered in their old order, and the listed ones share the places they
\* hold among them in the order of the list.
NewSort(rows, items, n) ==
  LET siblings == {m \in DOMAIN rows : Effective(rows, items, m) = Effective(rows, items, n)}
      place(x) == Cardinality({m \in siblings : Before(rows, m, x)})
      slots == {place(x) : x \in {y \in siblings : Listed(items, y)}}
      rank(x) == Cardinality({y \in siblings : Listed(items, y) /\ At(items, y) < At(items, x)})
  IN  IF Listed(items, n)
      THEN CHOOSE s \in slots : Cardinality({t \in slots : t < s}) = rank(n)
      ELSE place(n)

\* affectedParents: the old and the new parents of the listed rows.
Affected(rows, items) ==
  {rows[items[i].id].parent : i \in DOMAIN items}
    \cup {Effective(rows, items, items[i].id) : i \in DOMAIN items}

Reorder(r, f, S, items) ==
  LET rows == [n \in Of(f, S) |-> nodes[n]]
  IN  /\ Editable(f)
      /\ Acceptable(rows, items)
      /\ Take(r, "reorder", "reorder", f, NULL)
      /\ Hold(r, NULL, [rows |-> rows, items |-> items])

ReorderIndicators(r, f, items) == Reorder(r, f, Indicators, items)

ReorderAttributes(r, f, items) ==
  /\ \A i \in DOMAIN items : items[i].id \in Of(f, Attributes) => nodes[items[i].id].kind # "SYSTEM"
  /\ Reorder(r, f, Attributes, items)

Placed(row, sort, parent) == LET numbered == [row EXCEPT !.sort = sort] IN [numbered EXCEPT !.parent = parent]

\* One transaction, from the rows read before it.
ReorderWrite(r) ==
  /\ pc[r] = "reorder"
  /\ LET rows == work[r].rows
         items == work[r].items
         moved == {n \in DOMAIN rows : Effective(rows, items, n) \in Affected(rows, items)}
         asked(n) == Listed(items, n) /\ items[At(items, n)].parent # UNSET
     IN  nodes' = IF \E n \in moved : /\ asked(n) /\ nodes[n] # NULL
                                      /\ Effective(rows, items, n) # NULL
                                      /\ nodes[Effective(rows, items, n)] = NULL
                  THEN nodes
                  ELSE [n \in Nodes |->
                          IF n \in moved /\ nodes[n] # NULL
                          THEN Placed(nodes[n], NewSort(rows, items, n),
                                      IF asked(n) THEN Effective(rows, items, n) ELSE nodes[n].parent)
                          ELSE nodes[n]]
  /\ Cross(r)
  /\ End(r)
  /\ UNCHANGED <<forms, born, cells, rules, lists, campaigns, served, surprised, loosened>>

-----------------------------------------------------------------------------
(* Overrides of cells.                                                     *)

\* buildBaseCellConfig for an indicator that takes a value.
BaseConfig == [type |-> "number", required |-> FALSE, editable |-> TRUE, formula |-> NULL]

Normalized_KeepOpen(item, old) ==   \* mutant: a formula does not close the cell
  [type     |-> IF item.type # UNSET THEN item.type ELSE old.type,
   required |-> IF item.required # UNSET THEN item.required ELSE old.required,
   editable |-> IF item.readOnly # UNSET THEN ~item.readOnly ELSE old.editable,
   formula  |-> IF item.formula # UNSET THEN item.formula ELSE old.formula]

\* A field that is left out keeps its value; a cell with a formula is read-only.
Normalized(item, old) ==
  LET formula == IF item.formula # UNSET THEN item.formula ELSE old.formula
  IN  [type     |-> IF item.type # UNSET THEN item.type ELSE old.type,
       required |-> IF item.required # UNSET THEN item.required ELSE old.required,
       editable |-> /\ formula = NULL
                    /\ IF item.readOnly # UNSET THEN ~item.readOnly ELSE old.editable,
       formula  |-> formula]

UpsertCellConfigs(r, f, items) ==
  /\ Editable(f)
  /\ \A c \in DOMAIN items : /\ c[1] \in Of(f, Indicators) /\ c[2] \in Of(f, Attributes)
                             /\ nodes[c[1]].kind # "TITLE"
  /\ Take(r, "cells", "upsertCellConfigs", f, NULL)
  /\ Hold(r, NULL, items)

\* One transaction: an override that says what the base says is not kept.
WriteCells(r) ==
  /\ pc[r] = "cells"
  /\ LET items == work[r]
         new(c) == Normalized(items[c], IF cells[c] = NULL THEN BaseConfig ELSE cells[c])
     IN  cells' = IF \E c \in DOMAIN items : nodes[c[1]] = NULL \/ nodes[c[2]] = NULL
                  THEN cells
                  ELSE [c \in Cells |-> IF c \notin DOMAIN items THEN cells[c]
                                        ELSE IF new(c) = BaseConfig THEN NULL ELSE new(c)]
  /\ End(r)
  /\ UNCHANGED <<forms, nodes, born, rules, lists, campaigns, served, history>>

DeleteCellConfigs(r, f, S) ==
  /\ Editable(f)
  /\ Take(r, "cellsOff", "deleteCellConfigs", f, NULL)
  /\ Hold(r, NULL, {c \in S : c[1] \in Of(f, Indicators)})

EraseCells(r) ==
  /\ pc[r] = "cellsOff"
  /\ cells' = [c \in Cells |-> IF c \in work[r] THEN NULL ELSE cells[c]]
  /\ End(r)
  /\ UNCHANGED <<forms, nodes, born, rules, lists, campaigns, served, history>>

\* listEffectiveCellConfigs for one cell.
EffectiveConfig(c) ==
  IF nodes[c[1]].kind = "TITLE" THEN [BaseConfig EXCEPT !.editable = FALSE]
  ELSE IF cells[c] = NULL THEN BaseConfig
  ELSE [cells[c] EXCEPT !.editable = @ /\ cells[c].formula = NULL]
-----------------------------------------------------------------------------
(* Default units of the indicators.                                        *)

RuleAt(f) == {p \in DOMAIN rules : rules[p] # NULL /\ p[2] \in Of(f, Indicators)}

\* listTemplateScopes
TemplateScopes(f) == {p \in RuleAt(f) : rules[p]}

OneOrg_Stored(f, items) ==   \* mutant: the items are not compared with each other
  LET enabled == TemplateScopes(f)
  IN  \A p \in items : p[2] \in {q[2] : q \in enabled} => p \in enabled

\* In a UNIQUE template an indicator is given to one unit, by what is asked and by what
\* is stored.
OneOrg(f, items) ==
  LET enabled == TemplateScopes(f)
  IN  /\ \A p, q \in items : p[2] = q[2] => p = q
      /\ \A p \in items : p[2] \in {q[2] : q \in enabled} => p \in enabled

UpsertTemplateScopes(r, f, items) ==
  /\ Editable(f)
  /\ \A p \in items : p[2] \in Of(f, Indicators)
  /\ forms[f].type = "UNIQUE" => OneOrg(f, items)
  /\ Take(r, "rulesOff", "upsertTemplateScopes", f, NULL)
  /\ Hold(r, NULL, [items |-> items, seen |-> {}])

\* The transaction opens with one update of the rules it sees, which nobody else sees yet.
RulesOff(r) ==
  /\ pc[r] = "rulesOff"
  /\ work' = [work EXCEPT ![r].seen = RuleAt(job[r].form)]
  /\ Goto(r, "rulesOn")
  /\ UNCHANGED <<tables, served, history, job, copy, base>>

\* It ends with the rules asked for.  A rule that another request has stored since is
\* found, or stored again, which the unique index refuses; so is a rule of an indicator
\* that is gone.
RulesOn(r) ==
  /\ pc[r] = "rulesOn"
  /\ LET items == work[r].items
         since == {p \in items \ work[r].seen : rules[p] # NULL}
     IN  \/ /\ \A p \in items : nodes[p[2]] # NULL
            /\ rules' = [p \in DOMAIN rules |->
                           IF p \in items THEN TRUE
                           ELSE IF p \in work[r].seen /\ rules[p] # NULL THEN FALSE ELSE rules[p]]
         \/ /\ since # {} \/ \E p \in items : nodes[p[2]] = NULL
            /\ UNCHANGED rules
  /\ loosened' = loosened \cup {f \in {job[r].form} :
       \E q \in Requests \ {r} : job[q].form = f /\ pc[q] \in {"rulesOff", "rulesOn"}}
  /\ End(r)
  /\ UNCHANGED <<forms, nodes, born, cells, lists, campaigns, served, crossed, surprised>>

DeleteTemplateScopes(r, f, items) ==
  /\ Editable(f)
  /\ Take(r, "rulesErase", "deleteTemplateScopes", f, NULL)
  /\ Hold(r, NULL, {p \in items : p[2] \in Of(f, Indicators)})

EraseRules(r) ==
  /\ pc[r] = "rulesErase"
  /\ rules' = [p \in DOMAIN rules |-> IF p \in work[r] THEN NULL ELSE rules[p]]
  /\ End(r)
  /\ UNCHANGED <<forms, nodes, born, cells, lists, campaigns, served, history>>

-----------------------------------------------------------------------------
(* Import of workbooks: the two trees of a sheet, a row at a time, through *)
(* the handlers above; a row that fails is reported at the end.            *)

SideOf(r) == work[r].side
RowsOf(book, S) == IF S = Indicators THEN book.indicators ELSE book.attributes

\* One of the two sheets is opened.
Opened(book, S, failed) ==
  [book |-> book, side |-> S, rows |-> RowsOf(book, S), head |-> NULL, ids |-> <<>>,
   links |-> <<>>, cursor |-> NULL, failed |-> failed]

\* The three imports: a book without one of the sheets imports the other.
Import(r, f, book) ==
  /\ Live(f)
  /\ Take(r, "importRow", "import", f, NULL)
  /\ Hold(r, NULL, Opened(book, Indicators, FALSE))

\* The next row of the sheet is at hand.
Fetched(w) == LET rest == [w EXCEPT !.rows = Tail(@)] IN [rest EXCEPT !.head = Head(w.rows)]

\* A row goes to its insert, or is refused and the next one is taken.
ImportAs(r, good, row) ==
  /\ work' = [work EXCEPT ![r] = IF good THEN Fetched(@) ELSE [Fetched(@) EXCEPT !.failed = TRUE]]
  /\ IF good
     THEN /\ Goto(r, "insert")
          /\ copy' = [copy EXCEPT ![r] = row]
     ELSE UNCHANGED <<pc, copy>>
  /\ UNCHANGED <<tables, served, history, job, base>>

\* createIndicator up to its insert.  The parent comes later.
ImportIndicator(r) ==
  /\ pc[r] = "importRow" /\ SideOf(r) = Indicators
  /\ work[r].rows # <<>>
  /\ LET row == Head(work[r].rows)
     IN  ImportAs(r, Editable(job[r].form) /\ CodeFree(job[r].form, row.key, NULL),
                  [form |-> job[r].form, parent |-> NULL, sort |-> row.sort, code |-> row.key,
                   kind |-> row.kind, entry |-> NULL])

\* createAttribute up to its insert.
ImportAttribute(r) ==
  /\ pc[r] = "importRow" /\ SideOf(r) = Attributes
  /\ work[r].rows # <<>>
  /\ ImportAs(r, Editable(job[r].form),
              [form |-> job[r].form, parent |-> NULL, code |-> NULL, kind |-> "PLAIN",
               sort |-> NextSortOrder(job[r].form, Attributes, NULL), entry |-> NULL])

ImportLinks(r) ==
  /\ pc[r] = "importRow"
  /\ work[r].rows = <<>>
  /\ Goto(r, "importLink")
  /\ UNCHANGED <<tables, memory, served, history>>

Mapped(ids, key) == \E i \in DOMAIN ids : ids[i][1] = key

\* find: the first row of that key
NodeOf(ids, key) ==
  ids[CHOOSE i \in DOMAIN ids : ids[i][1] = key /\ \A j \in 1..(i - 1) : ids[j][1] # key][2]

\* The next link is tried: the walk starts at the parent, when there is one to take.
Tried(w, parent) ==
  LET rest == [w EXCEPT !.links = Tail(@)] IN [rest EXCEPT !.cursor = parent]

LinkAs_Silent(r, link) ==   \* mutant: a link that cannot be made is not reported
  LET ids == work[r].ids
      parent == NodeOf(ids, link.parent)
      child == NodeOf(ids, link.key)
      done == /\ Mapped(ids, link.parent) /\ parent # child
              /\ {child, parent} \subseteq Of(job[r].form, SideOf(r)) /\ Editable(job[r].form)
  IN  /\ work' = [work EXCEPT ![r] = Tried(@, IF done THEN parent ELSE NULL)]
      /\ IF done
         THEN /\ Goto(r, "walk")
              /\ job' = [job EXCEPT ![r].node = child]
              /\ copy' = [copy EXCEPT ![r] = [nodes[child] EXCEPT !.parent = parent]]
         ELSE UNCHANGED <<pc, job, copy>>
      /\ UNCHANGED <<tables, served, history, base>>

\* patchIndicator and patchAttribute of the parent alone, up to the walk.
LinkAs(r, link) ==
  LET ids == work[r].ids
      parent == NodeOf(ids, link.parent)
      child == NodeOf(ids, link.key)
      done == /\ Mapped(ids, link.parent) /\ parent # child
              /\ {child, parent} \subseteq Of(job[r].form, SideOf(r)) /\ Editable(job[r].form)
  IN  /\ work' = [work EXCEPT ![r] = IF done THEN Tried(@, parent)
                                     ELSE [Tried(@, NULL) EXCEPT !.failed = TRUE]]
      /\ IF done
         THEN /\ Goto(r, "walk")
              /\ job' = [job EXCEPT ![r].node = child]
              /\ copy' = [copy EXCEPT ![r] = [nodes[child] EXCEPT !.parent = parent]]
         ELSE UNCHANGED <<pc, job, copy>>
      /\ UNCHANGED <<tables, served, history, base>>

LinkIndicator(r) ==
  /\ pc[r] = "importLink" /\ SideOf(r) = Indicators
  /\ work[r].links # <<>>
  /\ LinkAs(r, Head(work[r].links))

LinkAttribute(r) ==
  /\ pc[r] = "importLink" /\ SideOf(r) = Attributes
  /\ work[r].links # <<>>
  /\ LinkAs(r, Head(work[r].links))

\* One sheet is done: the other one, or the answer.
ImportNext(r) ==
  /\ pc[r] = "importLink"
  /\ work[r].links = <<>>
  /\ IF SideOf(r) = Indicators /\ Live(job[r].form)
     THEN /\ Goto(r, "importRow")
          /\ work' = [work EXCEPT ![r] = Opened(@.book, Attributes, @.failed)]
          /\ UNCHANGED <<job, copy, base>>
     ELSE End(r)
  /\ UNCHANGED <<tables, served, history>>

-----------------------------------------------------------------------------
(* The catalog of indicators and the field categories.                     *)

\* createCatalogEntry and createFieldCategory
CreateListEntry(r, k) ==
  /\ lists[k] = NULL
  /\ Take(r, "listWrite", "createListEntry", NULL, k)
  /\ Hold(r, [status |-> "active"], NULL)

\* patchCatalogEntry and patchFieldCategory: only a category can be switched off.
PatchListEntry(r, k, status) ==
  /\ Kept(k)
  /\ status \in {"active", "inactive"}
  /\ status # lists[k] => k \in Categories
  /\ Take(r, "listLoad", "patchListEntry", NULL, k)
  /\ Hold(r, [status |-> status], NULL)

ListLoad(r) ==
  /\ pc[r] = "listLoad"
  /\ base' = [base EXCEPT ![r] = [status |-> lists[job[r].node]]]
  /\ Goto(r, "listWrite")
  /\ UNCHANGED <<tables, served, history, job, copy, work>>

ListWrite(r) ==
  /\ pc[r] = "listWrite"
  /\ LET k == job[r].node
         update == base[r] # NULL /\ base[r].status \in {"active", "inactive"}
         same == base[r] # NULL /\ base[r].status = copy[r].status
     IN  lists' = [lists EXCEPT ![k] = IF Kept(k) # update \/ same THEN @ ELSE copy[r].status]
  /\ End(r)
  /\ UNCHANGED <<forms, nodes, born, cells, rules, campaigns, served, history>>

\* removeCatalogEntry and removeFieldCategory: nothing uses it.
RemoveListEntry(r, k) ==
  /\ Kept(k)
  /\ \A n \in Nodes : nodes[n] # NULL => nodes[n].entry # k
  /\ \A f \in Forms : Live(f) => forms[f].category # k
  /\ Take(r, "listDrop", "removeListEntry", NULL, k)
  /\ Hold(r, NULL, NULL)

\* What has come to use it since loses it.
Forget(k) ==
  /\ nodes' = [n \in Nodes |-> IF nodes[n] = NULL THEN NULL
                               ELSE [nodes[n] EXCEPT !.entry = IF @ = k THEN NULL ELSE @]]
  /\ forms' = [f \in Forms |-> IF forms[f] = NULL THEN NULL
                               ELSE [forms[f] EXCEPT !.category = IF @ = k THEN NULL ELSE @]]

ListDrop(r) ==
  /\ pc[r] = "listDrop"
  /\ lists' = [lists EXCEPT ![job[r].node] = IF Kept(job[r].node) THEN "gone" ELSE @]
  /\ Forget(job[r].node)
  /\ End(r)
  /\ UNCHANGED <<born, cells, rules, campaigns, served, history>>

-----------------------------------------------------------------------------
(* What a reader of the template is shown.                                 *)

MapAttribute(n) ==
  [parent |-> nodes[n].parent, sort |-> nodes[n].sort, isSystem |-> nodes[n].kind = "SYSTEM"]

MapIndicator(n) ==
  [parent |-> nodes[n].parent, sort |-> nodes[n].sort, code |-> nodes[n].code, kind |-> nodes[n].kind]

MapCellConfig(c) ==
  [type |-> cells[c].type, required |-> cells[c].required, formula |-> cells[c].formula,
   readOnly |-> cells[c].formula # NULL \/ ~cells[c].editable]

FindOneForm(f) ==
  [type           |-> forms[f].type,
   attributes     |-> [n \in Of(f, Attributes) |-> MapAttribute(n)],
   indicators     |-> [n \in Of(f, Indicators) |-> MapIndicator(n)],
   cellConfigs    |-> [c \in {d \in Cells : cells[d] # NULL /\ d[1] \in Of(f, Indicators)} |->
                         MapCellConfig(c)],
   templateScopes |-> TemplateScopes(f)]

-----------------------------------------------------------------------------
(* The rest of the program and the server.                                 *)

\* create refers to the indicators its template gives to units and puts the template in
\* use; createBatch refers to none.
MakeCampaign(f) ==
  LET given == {p[2] : p \in TemplateScopes(f)}
      known == IF campaigns[f] = NULL THEN {} ELSE campaigns[f]
  IN  /\ Live(f)
      /\ \/ /\ forms[f].status \in {"READY", "IN_USE"}
            /\ campaigns' = [campaigns EXCEPT ![f] = known \cup given]
            /\ forms' = [forms EXCEPT ![f].status = "IN_USE"]
         \/ /\ campaigns' = [campaigns EXCEPT ![f] = known]
            /\ UNCHANGED forms
      /\ surprised' = IF campaigns[f] = NULL /\ \E r \in Requests : Holding(r, f)
                      THEN surprised \cup {f} ELSE surprised
      /\ UNCHANGED <<nodes, born, cells, rules, lists, pc, memory, served, crossed, loosened>>

\* A request dies with its connection: its transaction is undone.
Crash(r) ==
  /\ Crashes
  /\ pc[r] # "idle"
  /\ End(r)
  /\ UNCHANGED <<tables, served, history>>

-----------------------------------------------------------------------------
(* The endpoints, controller by controller.                                *)

FormsController(r) ==
  \/ \E d \in CreateFormDto : CreateForm(r, d)
  \/ \E f \in Forms : \/ \E d \in PatchFormDto : PatchForm(r, f, d)
                      \/ SetOther(r, f)
                      \/ MarkFormReady(r, f)
                      \/ ArchiveForm(r, f)
                      \/ RemoveForm(r, f)
                      \/ \E d \in CopyFormDto : CopyForm(r, f, d)

FormAttributesController(r) ==
  \E f \in Forms :
    \/ \E p \in Attributes \cup {NULL} : CreateAttribute(r, f, p)
    \/ \E n \in Attributes, p \in Attributes \cup {NULL, UNSET} : PatchAttribute(r, f, n, p)
    \/ \E n \in Attributes : RemoveAttribute(r, f, n)
    \/ \E items \in Orders : ReorderAttributes(r, f, items)

FormIndicatorsController(r) ==
  \E f \in Forms :
    \/ \E d \in Drafts : CreateIndicator(r, f, d)
    \/ \E n \in Indicators, p \in Patches : PatchIndicator(r, f, n, p)
    \/ \E n \in Indicators : RemoveIndicator(r, f, n)
    \/ \E items \in Orders : ReorderIndicators(r, f, items)

FormCellConfigsController(r) ==
  \E f \in Forms, items \in Changes :
    UpsertCellConfigs(r, f, items) \/ DeleteCellConfigs(r, f, DOMAIN items)

TemplateScopeController(r) ==
  \E f \in Forms, items \in Rules :
    UpsertTemplateScopes(r, f, items) \/ DeleteTemplateScopes(r, f, items)

ImportController(r) == \E f \in Forms, book \in Sheets : Import(r, f, book)

IndicatorCatalogController(r) ==
  \E k \in Entries : CreateListEntry(r, k) \/ PatchListEntry(r, k, "active") \/ RemoveListEntry(r, k)

FieldCategoriesController(r) ==
  \E k \in Categories : \/ CreateListEntry(r, k)
                        \/ \E status \in {"active", "inactive"} : PatchListEntry(r, k, status)
                        \/ RemoveListEntry(r, k)

Requested(r) ==
  /\ pc[r] = "idle"
  /\ served < MaxRequests
  /\ \/ FormsController(r) \/ FormAttributesController(r) \/ FormIndicatorsController(r)
     \/ FormCellConfigsController(r) \/ TemplateScopeController(r) \/ ImportController(r)
     \/ IndicatorCatalogController(r) \/ FieldCategoriesController(r)

Handle(r) ==
  \/ NewForm(r) \/ CopyTree(r) \/ FormLoad(r) \/ FormWrite(r) \/ DropForm(r)
  \/ Insert(r) \/ Walk(r) \/ SaveLoad(r) \/ SaveWrite(r) \/ Delete(r) \/ ReorderWrite(r)
  \/ WriteCells(r) \/ EraseCells(r) \/ RulesOff(r) \/ RulesOn(r) \/ EraseRules(r)
  \/ ImportIndicator(r) \/ ImportAttribute(r) \/ ImportLinks(r)
  \/ LinkIndicator(r) \/ LinkAttribute(r) \/ ImportNext(r)
  \/ ListLoad(r) \/ ListWrite(r) \/ ListDrop(r)

Next ==
  \/ \E r \in Requests : Requested(r) \/ Handle(r) \/ Crash(r)
  \/ \E f \in Forms : MakeCampaign(f)

Spec == Init /\ [][Next]_vars

\* The server goes on with every request it has taken.
FairSpec == Spec /\ \A r \in Requests : WF_vars(Handle(r))
-----------------------------------------------------------------------------
(* Properties.                                                             *)

\* The tables, and the ids given to rows (the tables of
\* 030-template/schema/001-init-templates.ts).
TableTypes ==
  /\ forms \in [Forms -> FormRow \cup {NULL}]
  /\ nodes \in [Nodes -> IndicatorRow \cup AttributeRow \cup {NULL}]
  /\ born \in [Nodes -> Forms \cup {NULL}]
  /\ \A n \in Nodes : nodes[n] # NULL => nodes[n] \in RowOf(n) /\ nodes[n].form = born[n]
  /\ cells \in [Cells -> CellConfig \cup {NULL}]
  /\ rules \in [Orgs \X Indicators -> RuleState]
  /\ lists \in [Entries \cup Categories -> ListState]
  /\ campaigns \in [Forms -> (SUBSET Indicators) \cup {NULL}]
  /\ served \in 0..MaxRequests
  /\ crossed \cup surprised \cup loosened \subseteq Forms

Statements ==
  {"idle", "newForm", "copyTree", "formLoad", "formWrite", "dropForm", "insert", "walk", "saveLoad",
   "saveWrite", "delete", "reorder", "cells", "cellsOff", "rulesOff", "rulesOn", "rulesErase",
   "importRow", "importLink", "listLoad", "listWrite", "listDrop"}

Handlers ==
  {"createForm", "copyForm", "patchForm", "setOther", "markFormReady", "archiveForm", "removeForm",
   "createAttribute", "createIndicator", "patch", "removeAttribute", "removeIndicator", "reorder",
   "upsertCellConfigs", "deleteCellConfigs", "upsertTemplateScopes", "deleteTemplateScopes",
   "import", "createListEntry", "patchListEntry", "removeListEntry"}

Job ==
  [op : Handlers \cup {"none"}, form : Forms \cup {NULL}, node : Nodes \cup Entries \cup Categories \cup {NULL},
   solo : BOOLEAN]

RequestTypes ==
  /\ pc \in [Requests -> Statements]
  /\ job \in [Requests -> Job]
  /\ \A r \in Requests : pc[r] = "idle" <=> job[r].op = "none"
  /\ Requests = DOMAIN copy /\ Requests = DOMAIN base /\ Requests = DOMAIN work

\* Rows, overrides, rules and the requests in hand have their types, and a row stays in
\* the form its id was given for.
TypeOK == TableTypes /\ RequestTypes

\* A set of rows that holds the parent of each of its members has a cycle.
Rooted(S) == \E n \in S : nodes[n].parent \notin S

\* The indicators and the attributes of a form are forests, each under rows of the same
\* form and the same table: no parent is a row below the node, however many moves there
\* were, unless two moves in the same form overlapped, or in the one it was copied from
\* (ensureNoIndicatorCycle, isCycle, copyForm).
\* An override and a rule are of a row of the table they name.
TreesAreForests ==
  /\ \A n \in Nodes : nodes[n] # NULL =>
       nodes[n].parent \in Of(nodes[n].form, Side(n)) \cup {NULL}
  /\ \A f \in Forms \ crossed, T \in {Indicators, Attributes} :
       \A S \in (SUBSET Of(f, T)) \ {{}} : Rooted(S)
  /\ \A c \in Cells : cells[c] # NULL =>
       nodes[c[1]] # NULL /\ nodes[c[2]] # NULL /\ nodes[c[1]].form = nodes[c[2]].form

\* docs/canonical/rules.md:8: the structure of a template that has a campaign does not
\* change.  It holds unless the first campaign came while an edit was past its check
\* (ensureTemplateStructureEditable), which nothing in the code prevents.
StructureLocked ==
  [][\A f \in Forms : campaigns[f] # NULL /\ f \notin surprised =>
        /\ FindOneForm(f)' = FindOneForm(f)
        /\ Live(f)' <=> Live(f)]_vars

\* In a template that is UNIQUE an indicator is given to at most one unit, unless two
\* requests stored rules at the same time or the type was changed over rules that were
\* there (upsertTemplateScopes).
OneUnitPerIndicator ==
  \A f \in Forms \ loosened : forms[f] # NULL /\ forms[f].type = "UNIQUE" =>
    \A p, q \in TemplateScopes(f) : p[2] = q[2] => p = q

\* When a reorder is written and the rows it read are still as it read them, then among
\* these the parents asked for are the parents, the rows listed stand in the order of the
\* list among siblings, the others keep their order, and the children of every parent it
\* touched are numbered from zero without gaps (reorderIndicators, reorderAttributes).
Reordered(rows, items) ==
  LET touched == {rows[items[i].id].parent : i \in DOMAIN items}
                   \cup {nodes'[items[i].id].parent : i \in DOMAIN items}
      siblings(p) == {n \in DOMAIN rows : nodes'[n].parent = p}
      listed(n) == \E i \in DOMAIN items : items[i].id = n
  IN  /\ \A i \in DOMAIN items :
           nodes'[items[i].id].parent = IF items[i].parent = UNSET THEN rows[items[i].id].parent
                                        ELSE items[i].parent
      /\ \A n \in DOMAIN rows : ~listed(n) => nodes'[n].parent = rows[n].parent
      /\ \A p \in touched : {nodes'[n].sort : n \in siblings(p)} = 0..(Cardinality(siblings(p)) - 1)
      /\ \A i, j \in DOMAIN items :
           LET m == items[i].id
               n == items[j].id
           IN  i < j /\ nodes'[m].parent = nodes'[n].parent => nodes'[m].sort < nodes'[n].sort
      /\ \A p \in touched : \A m, n \in {x \in siblings(p) : ~listed(x)} :
           Before(rows, m, n) => nodes'[m].sort < nodes'[n].sort

OrderAsAsked ==
  [][\A r \in Requests :
       pc[r] = "reorder" /\ pc'[r] = "idle" /\ nodes' # nodes
         /\ (\A n \in DOMAIN work[r].rows : nodes[n] = work[r].rows[n])
       => Reordered(work[r].rows, work[r].items)]_vars

\* After a change of overrides the effective configuration of a cell has every field that
\* was asked for and, where nothing was asked, what it had before; a cell with a formula
\* is read-only, and one whose formula is taken away stays so (upsertCellConfigs and
\* listEffectiveCellConfigs).
CellAsAsked ==
  [][\A r \in Requests :
       pc[r] = "cells" /\ pc'[r] = "idle" /\ cells' # cells =>
         \A c \in DOMAIN work[r] :
           LET item == work[r][c]
               old == EffectiveConfig(c)
               new == EffectiveConfig(c)'
           IN  nodes[c[1]].kind # "TITLE" =>
               /\ new.type = IF item.type = UNSET THEN old.type ELSE item.type
               /\ new.required = IF item.required = UNSET THEN old.required ELSE item.required
               /\ new.formula = IF item.formula = UNSET THEN old.formula ELSE item.formula
               /\ new.formula # NULL => ~new.editable
               /\ new.formula = NULL => new.editable = IF item.readOnly = UNSET THEN old.editable
                                                       ELSE ~item.readOnly]_vars

\* A copy has the trees its request read, row for row and parent for parent, and none of
\* its rows hangs under a row of the source (the two passes of copyForm).
Mirrored(rows, new) ==
  /\ Cardinality(new) = Cardinality(DOMAIN rows)
  /\ \E m \in [DOMAIN rows -> new] :
       /\ \A n \in DOMAIN rows :
            /\ nodes'[m[n]].code = rows[n].code
            /\ nodes'[m[n]].sort = rows[n].sort
            /\ nodes'[m[n]].parent = IF rows[n].parent = NULL THEN NULL ELSE m[rows[n].parent]
       /\ \A x, y \in DOMAIN rows : m[x] = m[y] => x = y

CopyMirrors ==
  [][\A r \in Requests, f \in Forms :
       pc[r] = "copyTree" /\ pc'[r] = "idle" /\ forms[f] = NULL /\ forms'[f] # NULL =>
         \A S \in {Indicators, Attributes} :
           Mirrored([n \in DOMAIN work[r] \cap S |-> work[r][n]],
                    {n \in S : nodes'[n] # NULL /\ nodes'[n].form = f})]_vars

\* An import that has had the server to itself and has reported no failure has stored the
\* sheet: a row of the table for every row of the sheet, in its order, each under the row
\* its parent's key names, wherever in the sheet that parent stands.
ImportAsSheet ==
  \A r \in Requests :
    pc[r] = "importLink" /\ work[r].links = <<>> /\ ~work[r].failed /\ job[r].solo =>
      LET sheet == RowsOf(work[r].book, SideOf(r))
          ids == work[r].ids
          keys == {sheet[i].key : i \in DOMAIN sheet}
      IN  /\ Len(ids) = Len(sheet)
          /\ Cardinality(keys) = Len(sheet) =>
               \A i \in DOMAIN sheet :
                 LET row == nodes[ids[i][2]]
                 IN  IF sheet[i].parent = NULL THEN row.parent = NULL
                     ELSE \E j \in DOMAIN sheet : /\ sheet[j].key = sheet[i].parent
                                                  /\ row.parent = ids[j][2]

\* Every request is answered, unless moves that overlapped have left a cycle: the walk up
\* from a row of the cycle never ends (ensureNoIndicatorCycle keeps no set of visited rows).
EditsEnd == \A r \in Requests : pc[r] # "idle" ~> (pc[r] = "idle" \/ crossed # {})
=============================================================================
