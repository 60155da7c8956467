----------------------- MODULE TemplateDesignProofs ------------------------
(***************************************************************************)
(* What TemplateDesign promises: the statements that write many rows at    *)
(* once, an import, a copy and a reorder, keep the invariant too, so that  *)
(* it holds in every state; and what a step may do to what a user asked    *)
(* for or what a campaign was made of, which follows from it.              *)
(***************************************************************************)
EXTENDS TemplateEditProofs

\* What an import keeps has its type.
LEMMA ImportKeeps ==
  ASSUME NEW w \in ImportWork
  PROVE  /\ [w EXCEPT !.failed = TRUE] \in ImportWork
         /\ w.head # NULL => \A n \in Nodes : Stored(w, n) \in ImportWork
         /\ w.rows # <<>> => Fetched(w) \in ImportWork /\ Fetched(w).head = Head(w.rows)
                              /\ Head(w.rows) \in ExcelRow
         /\ w.links # <<>> => /\ Head(w.links) \in ExcelRow
                               /\ \A p \in Nodes \cup {NULL} : /\ Tried(w, p) \in ImportWork
                                                              /\ Tried(w, p).cursor = p
<1>0. /\ w.rows \in Seq(ExcelRow) /\ w.links \in Seq(ExcelRow) /\ w.ids \in Seq(Codes \X Nodes)
      /\ w.head \in ExcelRow \cup {NULL}
  BY DEF ImportWork
<1>1. \A v \in ImportWork : [v EXCEPT !.failed = TRUE] \in ImportWork
  BY DEF ImportWork
<1>2. \A v \in ImportWork, ids \in Seq(Codes \X Nodes) :
        [v EXCEPT !.ids = ids] \in ImportWork /\ [v EXCEPT !.ids = ids].links = v.links
        /\ [v EXCEPT !.ids = ids].head = v.head
  BY DEF ImportWork
<1>3. \A v \in ImportWork, links \in Seq(ExcelRow) :
        [v EXCEPT !.links = links] \in ImportWork
  BY DEF ImportWork
<1>4. \A v \in ImportWork, rows \in Seq(ExcelRow) : [v EXCEPT !.rows = rows] \in ImportWork
  BY DEF ImportWork
<1>5. \A v \in ImportWork, head \in ExcelRow :
        [v EXCEPT !.head = head] \in ImportWork /\ [v EXCEPT !.head = head].head = head
  BY DEF ImportWork
<1>6. \A v \in ImportWork, p \in Nodes \cup {NULL} :
        [v EXCEPT !.cursor = p] \in ImportWork /\ [v EXCEPT !.cursor = p].cursor = p
  BY DEF ImportWork
<1>7. ASSUME w.head # NULL, NEW n \in Nodes PROVE Stored(w, n) \in ImportWork
  <2> DEFINE ids == Append(w.ids, <<w.head.key, n>>)
             known == [w EXCEPT !.ids = ids]
             links == Append(w.links, w.head)
  <2>1. ids \in Seq(Codes \X Nodes)
    <3>1. <<w.head.key, n>> \in Codes \X Nodes
      BY <1>0, <1>7 DEF ExcelRow
    <3> QED  BY <1>0, <3>1
  <2>2. known \in ImportWork /\ known.links = w.links
    <3> HIDE DEF ids
    <3> QED  BY <1>2, <2>1
  <2>3. links \in Seq(ExcelRow)
    BY <1>0, <1>7
  <2>4. [known EXCEPT !.links = links] \in ImportWork
    <3> HIDE DEF known, links
    <3> QED  BY <1>3, <2>2, <2>3
  <2>5. Stored(w, n) = IF w.head.parent = NULL THEN known ELSE [known EXCEPT !.links = Append(@, w.head)]
    BY DEF Stored
  <2>6. [known EXCEPT !.links = Append(@, w.head)] = [known EXCEPT !.links = links]
    <3> HIDE DEF known
    <3> QED  BY <2>2
  <2> QED  BY <2>2, <2>4, <2>5, <2>6
<1>8. ASSUME w.rows # <<>>
      PROVE  Fetched(w) \in ImportWork /\ Fetched(w).head = Head(w.rows) /\ Head(w.rows) \in ExcelRow
  <2> DEFINE rest == [w EXCEPT !.rows = Tail(@)]
  <2>1. Tail(w.rows) \in Seq(ExcelRow) /\ Head(w.rows) \in ExcelRow
    BY <1>0, <1>8, HeadTailProperties
  <2>2. rest \in ImportWork
    BY <1>4, <2>1
  <2>3. Fetched(w) = [rest EXCEPT !.head = Head(w.rows)]
    BY DEF Fetched
  <2> HIDE DEF rest
  <2> QED  BY <1>5, <2>1, <2>2, <2>3
<1>9. ASSUME w.links # <<>>
      PROVE  /\ Head(w.links) \in ExcelRow
             /\ \A p \in Nodes \cup {NULL} : Tried(w, p) \in ImportWork /\ Tried(w, p).cursor = p
  <2> DEFINE rest == [w EXCEPT !.links = Tail(@)]
  <2>1. Tail(w.links) \in Seq(ExcelRow) /\ Head(w.links) \in ExcelRow
    BY <1>0, <1>9, HeadTailProperties
  <2>2. rest \in ImportWork
    BY <1>3, <2>1
  <2>3. \A p : Tried(w, p) = [rest EXCEPT !.cursor = p]
    BY DEF Tried
  <2> HIDE DEF rest
  <2> QED  BY <1>6, <2>1, <2>2, <2>3
<1> QED  BY <1>1, <1>7, <1>8, <1>9

\* An import that goes on with the next row or the next link.
LEMMA ImportGoesOn ==
  ASSUME IInv, NEW r \in Requests, Importing(r), pc[r] \notin WithoutForm,
         NEW label \in {"importRow", "importLink"}, Goto(r, label),
         NEW w \in ImportWork, work' = [work EXCEPT ![r] = w] \/ (work' = work /\ work[r] = w),
         UNCHANGED <<job, copy, base>>, Grown
  PROVE  Moves(r) /\ RequestOK(r)'
<1>1. Moves(r) /\ pc'[r] = label /\ job' = job /\ work'[r] = w
  <2>1. DOMAIN work = Requests /\ pc[r] # "idle" /\ label \in Statements \ {"idle"}
    BY DEF IInv, TypeOK, RequestTypes, WithoutForm, Statements
  <2>2. Moves(r) /\ pc'[r] = label
    BY <2>1, GoesOn
  <2> QED  BY <2>1, <2>2
<1>2. job[r].form \in Forms /\ forms[job[r].form] # NULL /\ job[r].op = "import"
  BY DEF IInv, RequestsOK, RequestOK, InHand, FormInHand, Importing
<1>3. InHand(r)'
  BY <1>1, <1>2 DEF Grown, InHand, FormInHand, WithoutForm, TreeInHand, RowInHand,
     OrderInHand, CellsInHand, RulesInHand, ListInHand, ImportInHand, Importing
<1>4. Walked(r)' /\ Alone(r)' /\ Locked(r)'
  BY <1>1 DEF Walked, Alone, Locked
<1> QED  BY <1>1, <1>3, <1>4 DEF RequestOK

\* A row is given the least id that is free; its parent has been there.
LEMMA InsertOK ==
  ASSUME IInv, NEW r \in Requests, Insert(r)
  PROVE  IInv'
<1> PICK f : f = job[r].form
  OBVIOUS
<1> PICK row : row = copy[r]
  OBVIOUS
<1> PICK T : T = Target(r)
  OBVIOUS
<1> DEFINE ids == Fresh(T)
<1> PICK n : n = CHOOSE x \in ids : \A m \in ids : x <= m
  OBVIOUS
<1> DEFINE done == ids # {} /\ Admissible(n, row)
           w == IF done THEN Stored(work[r], n) ELSE [work[r] EXCEPT !.failed = TRUE]
<1>1. /\ pc[r] = "insert"
      /\ nodes' = IF done THEN [nodes EXCEPT ![n] = row] ELSE nodes
      /\ born' = IF done THEN [born EXCEPT ![n] = row.form] ELSE born
      /\ ~Importing(r) => End(r)
      /\ Importing(r) => Goto(r, "importRow") /\ work' = [work EXCEPT ![r] = w] /\ UNCHANGED <<job, copy, base>>
      /\ UNCHANGED <<forms, cells, rules, lists, campaigns, served, crossed, surprised, loosened>>
  BY DEF Insert, history
<1>2. InHand(r) /\ TypeOK /\ TableTypes
  BY DEF IInv, RequestsOK, RequestOK, TypeOK
<1>3. /\ f \in Forms /\ forms[f] # NULL /\ f # NULL /\ row.form = f
      /\ T \in {Indicators, Attributes} /\ T \subseteq Nodes /\ T \subseteq Nat
      /\ row.parent \in Ids(f, T) \cup {NULL}
      /\ row \in IndicatorRow \cup AttributeRow /\ row # NULL
      /\ \A m \in T : row \in RowOf(m) /\ Side(m) = T
  <2>1. f \in Forms /\ forms[f] # NULL /\ row.form = f /\ row \in IndicatorRow \cup AttributeRow
        /\ row.parent \in Ids(f, T) \cup {NULL}
    BY <1>1, <1>2 DEF InHand, FormInHand, WithoutForm, RowInHand
  <2>2. T \in {Indicators, Attributes} /\ T \subseteq Nodes /\ T \subseteq Nat
    BY IdsAssumption DEF Target, Nodes
  <2>3. row.code = NULL <=> row \in AttributeRow
    BY <2>1, Rows
  <2>4. \A m \in T : row \in RowOf(m) /\ Side(m) = T
    BY <2>1, <2>3, Sides DEF Target
  <2> QED  BY <2>1, <2>2, <2>4, NullAssumption, Rows
<1>4. ids \in SUBSET T /\ \A m \in ids : born[m] = NULL
  BY DEF Fresh
<1>5. done => n \in ids
  <2> SUFFICES ASSUME ids # {} PROVE n \in ids
    OBVIOUS
  <2>1. ids \in SUBSET Nat
    BY <1>3, <1>4
  <2> HIDE DEF ids
  <2>2. \E x \in ids : \A m \in ids : x <= m
    BY <2>1, LeastNumber
  <2> QED  BY <2>2
<1>6. done => /\ n \in T /\ n \in Nodes /\ born[n] = NULL /\ nodes[n] = NULL
              /\ row.parent # NULL => row.parent \in T /\ nodes[row.parent] # NULL /\ row.parent # n
  <2> SUFFICES ASSUME done
               PROVE  /\ n \in T /\ n \in Nodes /\ born[n] = NULL /\ nodes[n] = NULL
                      /\ row.parent # NULL => row.parent \in T /\ nodes[row.parent] # NULL /\ row.parent # n
    OBVIOUS
  <2>1. n \in T /\ n \in Nodes /\ born[n] = NULL
    BY <1>3, <1>4, <1>5
  <2>2. nodes[n] = NULL
    BY <1>2, <2>1, RowTable
  <2>3. row.parent # NULL => row.parent \in T /\ nodes[row.parent] # NULL
    BY <1>3, <2>1 DEF Admissible
  <2> QED  BY <2>1, <2>2, <2>3
<1>7. Importing(r) => w \in ImportWork
  <2> SUFFICES ASSUME Importing(r) PROVE w \in ImportWork
    OBVIOUS
  <2>1. work[r] \in ImportWork /\ work[r].head \in ExcelRow
    BY <1>1, <1>2 DEF InHand, ImportInHand
  <2>2. work[r].head # NULL
    <3>1. NULL \notin ExcelRow
      BY NullAssumption
    <3> QED  BY <2>1, <3>1
  <2> HIDE DEF done
  <2> QED  BY <1>6, <2>1, <2>2, ImportKeeps
<1> HIDE DEF done, ids, w
<1>8. /\ \A m \in Nodes : nodes'[m] = IF done /\ m = n THEN row ELSE nodes[m]
      /\ \A m \in Nodes : born'[m] = IF done /\ m = n THEN f ELSE born[m]
      /\ nodes' \in [Nodes -> IndicatorRow \cup AttributeRow \cup {NULL}]
      /\ born' \in [Nodes -> Forms \cup {NULL}]
  BY <1>1, <1>2, <1>3 DEF TableTypes
<1>9. Grown
  BY <1>1, <1>6, <1>8 DEF Grown
<1>10. TableTypes'
  <2>1. ASSUME NEW m \in Nodes, nodes'[m] # NULL
        PROVE  nodes'[m] \in RowOf(m) /\ nodes'[m].form = born'[m]
    <3>1. CASE done /\ m = n
      BY <1>3, <1>6, <1>8, <3>1
    <3>2. CASE ~(done /\ m = n)
      <4>1. nodes'[m] = nodes[m] /\ born'[m] = born[m]
        BY <1>8, <3>2
      <4> QED  BY <1>2, <2>1, <4>1 DEF TableTypes
    <3> QED  BY <3>1, <3>2
  <2> QED  BY <1>1, <1>2, <1>8, <2>1 DEF TableTypes
<1>11. \A m \in Nodes : nodes[m] # NULL => nodes'[m] = nodes[m]
  BY <1>6, <1>8
<1>12. CellsOK' /\ RulesOK' /\ CampaignsOK' /\ OneUnitPerIndicator' /\ TypesStay /\ OthersAlone(r)
  BY <1>1, <1>9, <1>10, <1>11, RowsStay
<1>13. RowsOK'
  <2>1. \A m \in Nodes : born'[m] # NULL => forms'[born'[m]] # NULL
    BY <1>1, <1>3, <1>8 DEF IInv, TablesOK, RowsOK
  <2>2. ASSUME NEW m \in Nodes, nodes'[m] # NULL
        PROVE  (nodes[m].parent \in Of(nodes[m].form, Side(m)) \cup {NULL})'
    <3>1. CASE done /\ m = n
      <4> SUFFICES ASSUME row.parent # NULL PROVE (nodes[m].parent \in Of(nodes[m].form, Side(m)))'
        BY <1>8, <3>1
      <4>1. nodes'[m] = row /\ Side(m) = T /\ row.parent \in T /\ row.parent \in Nodes
            /\ nodes'[row.parent] = nodes[row.parent] /\ nodes[row.parent] # NULL
            /\ born[row.parent] = f
        BY <1>3, <1>6, <1>8, <3>1 DEF Ids
      <4>2. nodes[row.parent].form = f
        BY <1>2, <4>1, RowTable
      <4> QED  BY <1>3, <4>1, <4>2 DEF Of
    <3>2. CASE ~(done /\ m = n)
      <4>1. nodes'[m] = nodes[m] /\ nodes[m] # NULL
        BY <1>8, <2>2, <3>2
      <4>2. nodes[m].parent \in Of(nodes[m].form, Side(m)) \cup {NULL}
        BY <4>1 DEF IInv, TablesOK, RowsOK
      <4>3. Side(m) \subseteq Nodes
        BY Sides
      <4> QED  BY <1>11, <4>1, <4>2, <4>3 DEF Of
    <3> QED  BY <3>1, <3>2
  <2> QED  BY <2>1, <2>2 DEF RowsOK, Of
<1>14. ForestsOK'
  <2> SUFFICES ASSUME NEW g \in Forms \ crossed', NEW U \in {Indicators, Attributes},
                      NEW S \in (SUBSET Of(g, U)') \ {{}}, ~Rooted(S)'
               PROVE  FALSE
    BY DEF ForestsOK
  <2>1. g \in Forms \ crossed /\ U \subseteq Nodes
    BY <1>1 DEF Nodes
  <2>2. \A m \in S : m \in U /\ m \in Nodes /\ nodes'[m] # NULL /\ nodes'[m].form = g /\ nodes'[m].parent \in S
    BY <2>1 DEF Of, Rooted
  <2>3. NULL \notin S
    BY <2>2, Rows
\* Nobody has the new row for a parent.
  <2> DEFINE B == IF done THEN S \ {n} ELSE S
  <2>4. \A m \in B : nodes[m] = nodes'[m] /\ nodes[m] # NULL /\ m \in Of(g, U)
    BY <1>8, <2>2 DEF Of
  <2>5. \A m \in B : nodes[m].parent \in B
    <3> SUFFICES ASSUME NEW m \in B, done PROVE nodes[m].parent # n
      BY <2>2, <2>4
    <3>1. m \in Nodes /\ nodes[m] # NULL
      BY <2>2, <2>4
    <3>2. nodes[m].parent \in Of(nodes[m].form, Side(m)) \cup {NULL}
      BY <3>1 DEF IInv, TablesOK, RowsOK
    <3>3. nodes[n] = NULL /\ n \in Nodes
      BY <1>6, <3>1
    <3> QED  BY <3>2, <3>3, Rows DEF Of
  <2>6. B # {}
    <3> SUFFICES ASSUME done, S = {n} PROVE FALSE
      OBVIOUS
    <3>1. n \in Nodes /\ nodes'[n].parent \in S
      BY <2>2
    <3>2. nodes'[n] = row
      BY <1>8, <3>1
    <3> QED  BY <1>6, <2>3, <3>1, <3>2
  <2>7. Rooted(B)
    BY <2>1, <2>4, <2>6 DEF IInv, TablesOK, ForestsOK
  <2> QED  BY <2>5, <2>7 DEF Rooted
<1>15. OthersCalm(r)
  <2>1. \A g \in Forms : Calm(g)
    BY <1>6, <1>8, NullAssumption DEF Calm
  <2> QED  BY <2>1 DEF OthersCalm
<1>16. Moves(r) /\ RequestOK(r)'
  <2>1. CASE ~Importing(r)
    BY <1>1, <1>2, <2>1, EndMoves
  <2>2. CASE Importing(r)
    BY <1>1, <1>7, <1>9, <2>2, ImportGoesOn DEF WithoutForm
  <2> QED  BY <2>1, <2>2
<1> QED  BY <1>9, <1>10, <1>12, <1>13, <1>14, <1>15, <1>16, StepOK DEF TablesOK

\* The next row of the sheet goes to its insert, or is refused.
LEMMA ImportAsOK ==
  ASSUME IInv, NEW r \in Requests, pc[r] = "importRow", work[r].rows # <<>>,
         NEW good \in BOOLEAN, NEW row, ImportAs(r, good, row),
         good => /\ row \in IndicatorRow \cup AttributeRow /\ row.form = job[r].form /\ row.parent = NULL
                 /\ Editable(job[r].form)
  PROVE  IInv'
<1> PICK f : f = job[r].form
  OBVIOUS
<1>1. InHand(r) /\ Importing(r) /\ work[r] \in ImportWork /\ f \in Forms /\ forms[f] # NULL
      /\ DOMAIN work = Requests /\ DOMAIN copy = Requests
  BY DEF IInv, TypeOK, RequestTypes, RequestsOK, RequestOK, InHand, ImportInHand, FormInHand, WithoutForm
<1> DEFINE w == IF good THEN Fetched(work[r]) ELSE [Fetched(work[r]) EXCEPT !.failed = TRUE]
<1>2. w \in ImportWork /\ (good => w.head \in ExcelRow)
  <2>1. Fetched(work[r]) \in ImportWork /\ Fetched(work[r]).head \in ExcelRow
    BY <1>1, ImportKeeps
  <2>2. [Fetched(work[r]) EXCEPT !.failed = TRUE] \in ImportWork
    BY <2>1, ImportKeeps
  <2> QED  BY <2>1, <2>2
<1>3. /\ work' = [work EXCEPT ![r] = w] /\ UNCHANGED <<job, base>>
      /\ good => Goto(r, "insert") /\ copy' = [copy EXCEPT ![r] = row]
      /\ ~good => pc' = pc /\ copy' = copy
      /\ UNCHANGED <<tables, served, history>>
  BY DEF ImportAs
<1> HIDE DEF w
<1>4. Still
  BY <1>3 DEF Still, IInv, TypeOK, TableTypes
<1>5. Grown /\ forms' = forms /\ campaigns' = campaigns
  BY <1>4, StillOK
<1>6. CASE ~good
  <2>1. Goto(r, "importRow")
    BY <1>3, <1>6 DEF Goto, IInv, TypeOK, RequestTypes
  <2>2. Moves(r) /\ RequestOK(r)'
    BY <1>1, <1>2, <1>3, <1>5, <1>6, <2>1, ImportGoesOn DEF WithoutForm
  <2> QED  BY <1>4, <2>2, QuietStep
<1>7. CASE good
  <2>1. Moves(r) /\ pc'[r] = "insert" /\ job' = job /\ work'[r] = w /\ copy'[r] = row
    <3>1. Moves(r) /\ pc'[r] = "insert"
      <4>1. "insert" \in Statements \ {"idle"}
        BY DEF Statements
      <4> QED  BY <1>3, <1>7, <4>1, GoesOn
    <3> QED  BY <1>1, <1>3, <1>7, <3>1
  <2>2. InHand(r)'
    BY <1>1, <1>2, <1>5, <1>7, <2>1 DEF InHand, FormInHand, WithoutForm, TreeInHand, RowInHand,
       OrderInHand, CellsInHand, RulesInHand, ListInHand, ImportInHand, Importing
  <2>3. Walked(r)' /\ Alone(r)'
    BY <2>1 DEF Walked, Alone
  <2>4. Locked(r)'
    BY <1>5, <1>7, <2>1 DEF Locked, Editable, HasCampaignOrAssignment
  <2> QED  BY <1>4, <2>1, <2>2, <2>3, <2>4, QuietStep DEF RequestOK
<1> QED  BY <1>6, <1>7

\* The next row of either sheet goes to its insert, or is refused.
LEMMA ImportRowsOK ==
  ASSUME IInv, NEW r \in Requests, ImportIndicator(r) \/ ImportAttribute(r)
  PROVE  IInv'
<1> PICK f : f = job[r].form
  OBVIOUS
<1>1. pc[r] = "importRow" /\ work[r].rows # <<>>
  BY DEF ImportIndicator, ImportAttribute
<1>2. f \in Forms /\ work[r] \in ImportWork /\ TypeOK
  BY <1>1 DEF IInv, RequestsOK, RequestOK, InHand, ImportInHand, FormInHand, WithoutForm
<1>3. CASE ImportIndicator(r)
  <2> DEFINE line == Head(work[r].rows)
             good == Editable(f) /\ CodeFree(f, line.key, NULL)
             row == [form |-> f, parent |-> NULL, sort |-> line.sort, code |-> line.key,
                     kind |-> line.kind, entry |-> NULL]
  <2>1. ImportAs(r, good, row)
    BY <1>3 DEF ImportIndicator
  <2>2. line \in ExcelRow
    BY <1>1, <1>2, ImportKeeps
  <2>3. row \in IndicatorRow /\ row.form = f /\ row.parent = NULL
    BY <1>2, <2>2 DEF IndicatorRow, ExcelRow
  <2>4. good \in BOOLEAN /\ (good => Editable(f))
    BY DEF Editable, Live, CodeFree
  <2> HIDE DEF good, row
  <2> QED  BY <1>1, <2>1, <2>3, <2>4, ImportAsOK
<1>4. CASE ImportAttribute(r)
  <2> DEFINE good == Editable(f)
             row == [form |-> f, parent |-> NULL, code |-> NULL, kind |-> "PLAIN",
                     sort |-> NextSortOrder(f, Attributes, NULL), entry |-> NULL]
  <2>1. ImportAs(r, good, row)
    BY <1>4 DEF ImportAttribute
  <2>2. NextSortOrder(f, Attributes, NULL) \in Nat
    BY <1>2, NextNumber DEF Nodes
  <2>3. row \in AttributeRow /\ row.form = f /\ row.parent = NULL
    BY <1>2, <2>2 DEF AttributeRow
  <2>4. good \in BOOLEAN
    BY DEF Editable
  <2> HIDE DEF row
  <2> QED  BY <1>1, <2>1, <2>3, <2>4, ImportAsOK
<1> QED  BY <1>3, <1>4

\* A link of the import: the patch of the parent, up to its walk, or the next link.
LEMMA LinkAsOK ==
  ASSUME IInv, NEW r \in Requests, pc[r] = "importLink", work[r].links # <<>>, NEW link, LinkAs(r, link)
  PROVE  IInv'
<1> PICK f : f = job[r].form
  OBVIOUS
<1> PICK S : S = SideOf(r)
  OBVIOUS
<1> PICK parent : parent = NodeOf(work[r].ids, link.parent)
  OBVIOUS
<1> PICK child : child = NodeOf(work[r].ids, link.key)
  OBVIOUS
<1> DEFINE done == /\ Mapped(work[r].ids, link.parent) /\ parent # child
                   /\ {child, parent} \subseteq Of(f, S) /\ Editable(f)
           w == IF done THEN Tried(work[r], parent) ELSE [Tried(work[r], NULL) EXCEPT !.failed = TRUE]
           row == [nodes[child] EXCEPT !.parent = parent]
<1>1. InHand(r) /\ Importing(r) /\ work[r] \in ImportWork /\ f \in Forms /\ forms[f] # NULL
      /\ DOMAIN work = Requests /\ DOMAIN copy = Requests /\ S \in {Indicators, Attributes} /\ TypeOK /\ TableTypes
  BY DEF IInv, TypeOK, RequestTypes, RequestsOK, RequestOK, InHand, ImportInHand, FormInHand, WithoutForm,
         ImportWork, SideOf
<1>2. /\ work' = [work EXCEPT ![r] = w] /\ UNCHANGED base
      /\ done => Goto(r, "walk") /\ job' = [job EXCEPT ![r].node = child] /\ copy' = [copy EXCEPT ![r] = row]
      /\ ~done => pc' = pc /\ job' = job /\ copy' = copy
      /\ UNCHANGED <<tables, served, history>>
  BY DEF LinkAs
<1>3. done => /\ child \in S /\ child \in Nodes /\ nodes[child] # NULL /\ nodes[child].form = f
              /\ parent \in Ids(f, S) /\ child \in Ids(f, Nodes) /\ parent # child /\ parent \in Nodes
              /\ Side(child) = S /\ campaigns[f] = NULL /\ nodes[child] \in RowOf(child)
  <2> SUFFICES ASSUME done
               PROVE  /\ child \in S /\ child \in Nodes /\ nodes[child] # NULL /\ nodes[child].form = f
                      /\ parent \in Ids(f, S) /\ child \in Ids(f, Nodes) /\ parent # child /\ parent \in Nodes
                      /\ Side(child) = S /\ campaigns[f] = NULL /\ nodes[child] \in RowOf(child)
    OBVIOUS
  <2>1. S \subseteq Nodes /\ \A m \in S : Side(m) = S
    BY <1>1, Sides
  <2>2. child \in Of(f, S) /\ parent \in Of(f, S) /\ campaigns[f] = NULL
    BY DEF Editable, HasCampaignOrAssignment
  <2>3. child \in Ids(f, S) /\ parent \in Ids(f, S) /\ nodes[child] # NULL /\ nodes[child].form = f
    BY <1>1, <2>1, <2>2, OfIds
  <2>4. nodes[child] \in RowOf(child)
    BY <1>1, <2>1, <2>3 DEF TableTypes, Ids
  <2> QED  BY <2>1, <2>2, <2>3, <2>4 DEF Ids
<1>4. w \in ImportWork /\ (done => w.cursor = parent)
  <2>1. \A p \in Nodes \cup {NULL} : Tried(work[r], p) \in ImportWork /\ Tried(work[r], p).cursor = p
    BY <1>1, ImportKeeps
  <2>2. [Tried(work[r], NULL) EXCEPT !.failed = TRUE] \in ImportWork
    BY <2>1, ImportKeeps
  <2> HIDE DEF done
  <2> QED  BY <1>3, <2>1, <2>2
<1>5. done => row \in RowOf(child) /\ row.form = f /\ row.parent = parent
  <2> SUFFICES ASSUME done PROVE row \in RowOf(child) /\ row.form = f /\ row.parent = parent
    OBVIOUS
  <2> HIDE DEF done
  <2>1. CASE S = Indicators
    <3>1. nodes[child] \in IndicatorRow /\ RowOf(child) = IndicatorRow /\ parent \in Indicators
      BY <1>3, <2>1, Sides DEF Ids
    <3> QED  BY <1>3, <3>1 DEF IndicatorRow
  <2>2. CASE S = Attributes
    <3>1. nodes[child] \in AttributeRow /\ RowOf(child) = AttributeRow /\ parent \in Attributes
      BY <1>3, <2>2, Sides DEF Ids
    <3> QED  BY <1>3, <3>1 DEF AttributeRow
  <2> QED  BY <1>1, <2>1, <2>2
<1> HIDE DEF done, w, row
<1>6. Still
  BY <1>2 DEF Still, IInv, TypeOK, TableTypes
<1>7. Grown /\ forms' = forms /\ campaigns' = campaigns /\ nodes' = nodes /\ born' = born
  BY <1>6, StillOK
<1>8. CASE ~done
  <2>1. Goto(r, "importLink")
    BY <1>2, <1>8 DEF Goto, IInv, TypeOK, RequestTypes
  <2>2. Moves(r) /\ RequestOK(r)'
    BY <1>1, <1>2, <1>4, <1>7, <1>8, <2>1, ImportGoesOn DEF WithoutForm
  <2> QED  BY <1>6, <2>2, QuietStep
<1>9. CASE done
  <2>1. Moves(r) /\ pc'[r] = "walk" /\ job'[r].op = job[r].op /\ job'[r].form = f /\ job'[r].node = child
        /\ work'[r] = w /\ copy'[r] = row
    <3>1. Moves(r) /\ pc'[r] = "walk" /\ job'[r].op = job[r].op /\ job'[r].form = f
      <4>1. "walk" \in Statements \ {"idle"}
        BY DEF Statements
      <4>2. Goto(r, "walk") /\ copy' = [copy EXCEPT ![r] = row] /\ child \in Nodes
            /\ job' = [job EXCEPT ![r].node = child]
        BY <1>2, <1>3, <1>9
      <4> QED  BY <1>2, <4>1, <4>2, GoesOn
    <3>2. job \in [Requests -> Job]
      BY <1>1 DEF TypeOK, RequestTypes
    <3>3. job'[r].node = child
      BY <1>2, <1>9, <3>2 DEF Job
    <3> QED  BY <1>1, <1>2, <1>9, <3>1, <3>3
  <2>2. InHand(r)'
    BY <1>1, <1>3, <1>4, <1>5, <1>7, <1>9, <2>1 DEF InHand, FormInHand, WithoutForm, TreeInHand, RowInHand,
       OrderInHand, CellsInHand, RulesInHand, ListInHand, ImportInHand, Importing, Ids
  <2>3. Walked(r)'
    <3>1. \E A : parent \in A \cup {parent} /\ Above(A, child, f, {parent, NULL})'
      <4>1. Above({}, child, f, {parent, NULL})'
        BY DEF Above
      <4> QED  BY <4>1
    <3> QED  BY <1>4, <1>5, <1>9, <2>1, <3>1 DEF Walked, Above, Ids
  <2>4. Alone(r)' /\ Locked(r)'
    BY <1>3, <1>7, <1>9, <2>1 DEF Alone, Locked
  <2> QED  BY <1>6, <2>1, <2>2, <2>3, <2>4, QuietStep DEF RequestOK
<1> QED  BY <1>8, <1>9

\* The next link of either sheet goes to its walk or to its save, or is refused.
LEMMA LinksOK ==
  ASSUME IInv, NEW r \in Requests, LinkIndicator(r) \/ LinkAttribute(r)
  PROVE  IInv'
BY LinkAsOK DEF LinkIndicator, LinkAttribute

\* The rows of a sheet are done, or its links.
LEMMA ImportTurnsOK ==
  ASSUME IInv, NEW r \in Requests, ImportLinks(r) \/ ImportNext(r)
  PROVE  IInv'
<1>1. /\ pc[r] \in {"importRow", "importLink"} /\ Importing(r) /\ work[r] \in ImportWork
  BY DEF ImportLinks, ImportNext, IInv, TypeOK, RequestTypes, RequestsOK, RequestOK, InHand, ImportInHand
<1>2. UNCHANGED <<tables, served, history>>
  BY DEF ImportLinks, ImportNext
<1>3. Still
  BY <1>2 DEF Still, IInv, TypeOK, TableTypes
<1>4. Grown
  BY <1>3, StillOK
<1>5. CASE ImportLinks(r)
  <2>1. Goto(r, "importLink") /\ work' = work /\ UNCHANGED <<job, copy, base>>
    BY <1>1, <1>5 DEF ImportLinks, memory
  <2>2. Moves(r) /\ RequestOK(r)'
    BY <1>1, <1>4, <2>1, ImportGoesOn DEF WithoutForm
  <2> QED  BY <1>3, <2>2, QuietStep
<1>6. CASE ImportNext(r)
  <2>1. CASE End(r)
    BY <1>2, <2>1, EndStep
  <2>2. CASE ~End(r)
    <3> DEFINE w == Opened(work[r].book, Attributes, work[r].failed)
    <3>1. Goto(r, "importRow") /\ work' = [work EXCEPT ![r] = w] /\ UNCHANGED <<job, copy, base>>
      BY <1>6, <2>2 DEF ImportNext
    <3>2. work[r].book \in Sheets /\ work[r].failed \in BOOLEAN
      BY <1>1 DEF ImportWork
    <3>3. w \in ImportWork
      BY <3>2, OpenedType
    <3> HIDE DEF w
    <3>4. Moves(r) /\ RequestOK(r)'
      BY <1>1, <1>4, <3>1, <3>3, ImportGoesOn DEF WithoutForm
    <3> QED  BY <1>3, <3>4, QuietStep
  <2> QED  BY <2>1, <2>2
<1> QED  BY <1>5, <1>6

\* The ids of a copy: free ones of the same table, one for each row.
LEMMA CopyIdsType ==
  ASSUME NEW rows, DOMAIN rows \subseteq Nodes,
         \A S \in {Indicators, Attributes} : Cardinality(DOMAIN rows \cap S) <= Cardinality(Fresh(S))
  PROVE  /\ DOMAIN CopyIds(rows) = DOMAIN rows
         /\ \A n \in DOMAIN rows : CopyIds(rows)[n] \in Fresh(Side(n))
         /\ \A x, y \in DOMAIN rows : CopyIds(rows)[x] = CopyIds(rows)[y] => x = y
<1> DEFINE rank(S, n) == Cardinality({x \in S : x < n})
           m == CopyIds(rows)
<1>1. ASSUME NEW S \in SUBSET Nodes
      PROVE  /\ IsFiniteSet(S) /\ LinearOn(Less(S), S) /\ Cardinality(S) \in Nat
             /\ \A x \in S : Place(x, Less(S), S) = rank(S, x)
  <2>1. S \in SUBSET Int
    BY IdsAssumption DEF Nodes
  <2>2. LinearOn(Less(S), S) /\ \A x \in S : {y \in S : <<y, x>> \in Less(S)} = {y \in S : y < x}
    BY <2>1, NumbersOrder
  <2> QED  BY <2>2, FiniteRows DEF Place
<1>2. ASSUME NEW T \in {Indicators, Attributes}
      PROVE  /\ \A n \in DOMAIN rows \cap T : \E x \in Fresh(T) : rank(Fresh(T), x) = rank(DOMAIN rows \cap T, n)
             /\ \A x, y \in DOMAIN rows \cap T : rank(DOMAIN rows \cap T, x) = rank(DOMAIN rows \cap T, y) => x = y
  <2> PICK D : D = DOMAIN rows \cap T
    OBVIOUS
  <2> PICK F : F = Fresh(T)
    OBVIOUS
  <2>1. D \in SUBSET Nodes /\ F \in SUBSET Nodes
    BY DEF Fresh, Nodes
  <2>2. Cardinality(D) <= Cardinality(F) /\ Cardinality(D) \in Nat /\ Cardinality(F) \in Nat
    BY <1>1, <2>1
  <2>3. /\ \A x \in D : Place(x, Less(D), D) \in 0..(Cardinality(D) - 1)
        /\ \A x, y \in D : Place(x, Less(D), D) = Place(y, Less(D), D) => x = y
        /\ \A k \in 0..(Cardinality(F) - 1) : \E x \in F : Place(x, Less(F), F) = k
    BY <1>1, <2>1, Places
  <2>4. ASSUME NEW n \in D PROVE \E x \in F : Place(x, Less(F), F) = Place(n, Less(D), D)
    <3>1. Place(n, Less(D), D) \in 0..(Cardinality(F) - 1)
      BY <2>2, <2>3
    <3> QED  BY <2>3, <3>1
  <2>5. (\A x \in D : Place(x, Less(D), D) = rank(D, x)) /\ (\A x \in F : Place(x, Less(F), F) = rank(F, x))
    BY <1>1, <2>1
  <2>6. /\ \A n \in D : \E x \in F : rank(F, x) = rank(D, n)
        /\ \A x, y \in D : rank(D, x) = rank(D, y) => x = y
    <3> HIDE DEF rank
    <3> QED  BY <2>3, <2>4, <2>5
  <2> QED  BY <2>6
<1>3. DOMAIN m = DOMAIN rows
  BY DEF CopyIds
<1>4. ASSUME NEW n \in DOMAIN rows
      PROVE  /\ m[n] \in Fresh(Side(n))
             /\ rank(Fresh(Side(n)), m[n]) = rank(DOMAIN rows \cap Side(n), n)
  <2>1. m[n] = CHOOSE x \in Fresh(Side(n)) : rank(Fresh(Side(n)), x) = rank(DOMAIN rows \cap Side(n), n)
    BY DEF CopyIds
  <2>2. \E x \in Fresh(Side(n)) : rank(Fresh(Side(n)), x) = rank(DOMAIN rows \cap Side(n), n)
    <3>1. Side(n) \in {Indicators, Attributes} /\ n \in DOMAIN rows \cap Side(n)
      BY Sides
    <3> HIDE DEF rank, m
    <3> QED  BY <1>2, <3>1
  <2> HIDE DEF rank, m
  <2> QED  BY <2>1, <2>2
<1>5. ASSUME NEW x \in DOMAIN rows, NEW y \in DOMAIN rows, m[x] = m[y] PROVE x = y
  <2>1. Side(x) = Side(y)
    BY <1>4, <1>5, Sides DEF Fresh
  <2>2. x \in Side(x) /\ y \in Side(x) /\ Side(x) \in {Indicators, Attributes}
    BY <2>1, Sides
  <2> HIDE DEF rank, m
  <2> QED  BY <1>2, <1>4, <1>5, <2>1, <2>2
<1> QED  BY <1>3, <1>4, <1>5

\* The rows of a copy.
LEMMA CopiedRows ==
  ASSUME NEW rows, DOMAIN rows \subseteq Nodes, NEW f \in Forms, NEW m,
         \A n \in DOMAIN rows : rows[n] \in RowOf(n) /\ rows[n].parent \in (DOMAIN rows \cap Side(n)) \cup {NULL},
         \A n \in DOMAIN rows : m[n] \in Side(n),
         \A x, y \in DOMAIN rows : m[x] = m[y] => x = y
  PROVE  \A x \in DOMAIN rows :
              /\ Copied(rows, m, f)[m[x]] \in RowOf(m[x]) /\ Copied(rows, m, f)[m[x]].form = f
              /\ Copied(rows, m, f)[m[x]].parent = IF rows[x].parent = NULL THEN NULL ELSE m[rows[x].parent]
              /\ Copied(rows, m, f)[m[x]].code = rows[x].code
              /\ Copied(rows, m, f)[m[x]].sort = rows[x].sort
<1>2. ASSUME NEW x \in DOMAIN rows
      PROVE  /\ Copied(rows, m, f)[m[x]] \in RowOf(m[x]) /\ Copied(rows, m, f)[m[x]].form = f
             /\ Copied(rows, m, f)[m[x]].parent = IF rows[x].parent = NULL THEN NULL ELSE m[rows[x].parent]
             /\ Copied(rows, m, f)[m[x]].code = rows[x].code
             /\ Copied(rows, m, f)[m[x]].sort = rows[x].sort
  <2> PICK n : n = m[x]
    OBVIOUS
  <2> PICK old : old = rows[x]
    OBVIOUS
  <2> DEFINE parent == IF old.parent \in DOMAIN rows THEN m[old.parent] ELSE NULL
             kind == IF n \in Attributes THEN "PLAIN" ELSE old.kind
  <2>1. (CHOOSE y \in DOMAIN rows : m[y] = n) = x
    OBVIOUS
  <2>2. Copied(rows, m, f)[n] = [form |-> f, parent |-> parent, sort |-> old.sort, code |-> old.code,
                                 kind |-> kind, entry |-> old.entry]
    BY <2>1 DEF Copied
  <2>3. /\ x \in Nodes /\ n \in Side(x) /\ n \in Nodes /\ RowOf(n) = RowOf(x) /\ Side(n) = Side(x)
        /\ NULL \notin DOMAIN rows
    BY Sides, Rows
  <2>4. parent = IF old.parent = NULL THEN NULL ELSE m[old.parent]
    BY <2>3
  <2>5. parent \in Side(n) \cup {NULL}
    <3> SUFFICES ASSUME old.parent # NULL PROVE m[old.parent] \in Side(n)
      BY <2>4
    <3>1. old.parent \in DOMAIN rows /\ old.parent \in Side(x)
      OBVIOUS
    <3>2. Side(old.parent) = Side(x)
      BY <2>3, <3>1, Sides
    <3> QED  BY <2>3, <3>1, <3>2
  <2> HIDE DEF parent
  <2>6. CASE n \in Indicators
    <3>1. Side(n) = Indicators /\ RowOf(n) = IndicatorRow /\ old \in IndicatorRow /\ n \notin Attributes
      BY <2>3, <2>6, Sides
    <3> QED  BY <2>2, <2>4, <2>5, <3>1 DEF IndicatorRow
  <2>7. CASE n \in Attributes
    <3>1. Side(n) = Attributes /\ RowOf(n) = AttributeRow /\ old \in AttributeRow
      BY <2>3, <2>7, Sides
    <3> QED  BY <2>2, <2>4, <2>5, <2>7, <3>1 DEF AttributeRow
  <2> QED  BY <2>3, <2>6, <2>7 DEF Nodes
<1> QED  BY <1>2

\* Form f is written as a copy of the rows r has read, row x under id m[x]: the copy of
\* each row is new and of the same table, and its parent the copy of its parent.
Copying(r, f, m) ==
  LET rows == work[r]
  IN  /\ f \in Forms /\ forms[f] = NULL /\ forms' = [forms EXCEPT ![f] = copy[r]]
      /\ crossed' = IF job[r].form \in crossed THEN crossed \cup {f} ELSE crossed
      /\ DOMAIN rows \subseteq Nodes /\ DOMAIN m = DOMAIN rows
      /\ \A x, y \in DOMAIN rows : m[x] = m[y] => x = y
      /\ \A n \in Nodes \ {m[x] : x \in DOMAIN rows} : nodes'[n] = nodes[n] /\ born'[n] = born[n]
      /\ nodes' = [n \in Nodes |-> nodes'[n]] /\ born' = [n \in Nodes |-> born'[n]]
      /\ \A x \in DOMAIN rows :
           /\ m[x] \in Side(x) /\ m[x] \in Nodes /\ born[m[x]] = NULL /\ nodes[m[x]] = NULL
           /\ Side(m[x]) = Side(x) /\ x \in Side(x) /\ born'[m[x]] = f
           /\ nodes'[m[x]] \in RowOf(m[x]) /\ nodes'[m[x]] # NULL /\ nodes'[m[x]].form = f
           /\ nodes'[m[x]].parent = IF rows[x].parent = NULL THEN NULL ELSE m[rows[x].parent]
           /\ nodes'[m[x]].code = rows[x].code /\ nodes'[m[x]].sort = rows[x].sort
           /\ rows[x].parent # NULL => rows[x].parent \in DOMAIN rows \cap Side(x)

\* A copy is written whole or not at all.
LEMMA CopyWritten ==
  ASSUME IInv, NEW r \in Requests, CopyTree(r)
  PROVE  UNCHANGED <<forms, nodes, born, crossed>> \/ \E f, m : Copying(r, f, m)
<1> PICK rows : rows = work[r]
  OBVIOUS
<1> DEFINE free(S) == Cardinality(DOMAIN rows \cap S) <= Cardinality(Fresh(S))
           good == /\ Named(Categories, copy[r].category)
                   /\ \A n \in DOMAIN rows : Named(Entries, rows[n].entry)
                   /\ free(Indicators) /\ free(Attributes)
                   /\ \E f \in Forms : forms[f] = NULL
<1> PICK f : f = CHOOSE g \in Forms : forms[g] = NULL
  OBVIOUS
<1> PICK m : m = CopyIds(rows)
  OBVIOUS
<1> PICK new : new = Copied(rows, m, f)
  OBVIOUS
<1> SUFFICES ASSUME ~UNCHANGED <<forms, nodes, born, crossed>> PROVE Copying(r, f, m)
  OBVIOUS
<1>1. pc[r] = "copyTree" /\ good
      /\ forms' = [forms EXCEPT ![f] = copy[r]]
      /\ nodes' = [n \in Nodes |-> IF n \in DOMAIN new THEN new[n] ELSE nodes[n]]
      /\ born' = [n \in Nodes |-> IF n \in DOMAIN new THEN f ELSE born[n]]
      /\ crossed' = IF job[r].form \in crossed THEN crossed \cup {f} ELSE crossed
  BY DEF CopyTree
<1>2. f \in Forms /\ forms[f] = NULL
  BY <1>1
<1>3. InHand(r) /\ TypeOK /\ TableTypes
  BY DEF IInv, RequestsOK, RequestOK, TypeOK
<1>4. /\ DOMAIN rows \subseteq Nodes
      /\ \A n \in DOMAIN rows : /\ rows[n] \in RowOf(n)
                                /\ rows[n].parent \in (DOMAIN rows \cap Side(n)) \cup {NULL}
  BY <1>1, <1>3 DEF InHand, TreeInHand
<1>5. /\ DOMAIN m = DOMAIN rows
      /\ \A n \in DOMAIN rows : m[n] \in Fresh(Side(n))
      /\ \A x, y \in DOMAIN rows : m[x] = m[y] => x = y
  BY <1>1, <1>4, CopyIdsType
<1>6. \A x \in DOMAIN rows : /\ m[x] \in Side(x) /\ m[x] \in Nodes /\ born[m[x]] = NULL /\ nodes[m[x]] = NULL
                             /\ Side(m[x]) = Side(x) /\ x \in Side(x)
  <2> SUFFICES ASSUME NEW x \in DOMAIN rows
               PROVE  /\ m[x] \in Side(x) /\ m[x] \in Nodes /\ born[m[x]] = NULL /\ nodes[m[x]] = NULL
                      /\ Side(m[x]) = Side(x) /\ x \in Side(x)
    OBVIOUS
  <2>1. m[x] \in Side(x) /\ m[x] \in Nodes /\ born[m[x]] = NULL /\ Side(m[x]) = Side(x) /\ x \in Side(x)
    BY <1>4, <1>5, Sides DEF Fresh
  <2>2. nodes[m[x]] = NULL
    BY <1>3, <2>1, RowTable
  <2> QED  BY <2>1, <2>2
<1>7. /\ DOMAIN new = {m[x] : x \in DOMAIN rows}
      /\ \A x \in DOMAIN rows :
           /\ new[m[x]] \in RowOf(m[x]) /\ new[m[x]].form = f
           /\ new[m[x]].parent = IF rows[x].parent = NULL THEN NULL ELSE m[rows[x].parent]
           /\ new[m[x]].code = rows[x].code /\ new[m[x]].sort = rows[x].sort
  <2>1. \A n \in DOMAIN rows : m[n] \in Side(n)
    BY <1>6
  <2>2. \A x, y \in DOMAIN rows : m[x] = m[y] => x = y
    BY <1>5
  <2>3. \A n \in DOMAIN rows : rows[n] \in RowOf(n) /\ rows[n].parent \in (DOMAIN rows \cap Side(n)) \cup {NULL}
    BY <1>4
  <2>4. DOMAIN rows \subseteq Nodes
    BY <1>4
  <2>5. \A x \in DOMAIN rows :
          /\ Copied(rows, m, f)[m[x]] \in RowOf(m[x]) /\ Copied(rows, m, f)[m[x]].form = f
          /\ Copied(rows, m, f)[m[x]].parent = IF rows[x].parent = NULL THEN NULL ELSE m[rows[x].parent]
          /\ Copied(rows, m, f)[m[x]].code = rows[x].code
          /\ Copied(rows, m, f)[m[x]].sort = rows[x].sort
    BY <1>2, <2>1, <2>2, <2>3, <2>4, CopiedRows
  <2>6. DOMAIN new = {m[x] : x \in DOMAIN rows}
    BY DEF Copied
  <2> QED  BY <2>5, <2>6
<1>8. \A x \in DOMAIN rows : nodes'[m[x]] = new[m[x]] /\ born'[m[x]] = f /\ nodes'[m[x]] # NULL
  <2> SUFFICES ASSUME NEW x \in DOMAIN rows
               PROVE  nodes'[m[x]] = new[m[x]] /\ born'[m[x]] = f /\ nodes'[m[x]] # NULL
    OBVIOUS
  <2>1. m[x] \in Nodes /\ m[x] \in DOMAIN new
    BY <1>6, <1>7
  <2>2. nodes'[m[x]] = new[m[x]] /\ born'[m[x]] = f
    BY <1>1, <2>1
  <2> QED  BY <1>7, <2>2, Rows DEF RowOf
<1>9. \A n \in Nodes \ {m[x] : x \in DOMAIN rows} : nodes'[n] = nodes[n] /\ born'[n] = born[n]
  BY <1>1, <1>7
<1>10. nodes' = [n \in Nodes |-> nodes'[n]] /\ born' = [n \in Nodes |-> born'[n]]
  BY <1>1
<1> HIDE DEF good
<1> QED  BY <1>1, <1>2, <1>4, <1>5, <1>6, <1>7, <1>8, <1>9, <1>10 DEF Copying

\* A copy has the trees that were read.
LEMMA CopyTreeOK ==
  ASSUME IInv, NEW r \in Requests, CopyTree(r)
  PROVE  IInv'
<1> PICK rows : rows = work[r]
  OBVIOUS
<1>1. /\ pc[r] = "copyTree" /\ End(r)
      /\ UNCHANGED <<cells, rules, lists, campaigns, served, surprised, loosened>>
  BY DEF CopyTree
<1>2. CASE UNCHANGED <<forms, nodes, born, crossed>>
  <2>1. UNCHANGED <<tables, served, history>>
    BY <1>1, <1>2 DEF tables, history
  <2> QED  BY <1>1, <2>1, EndStep
<1>3. CASE \E f, m : Copying(r, f, m)
  <2> PICK f, m : Copying(r, f, m)
    BY <1>3
  <2>1. /\ f \in Forms /\ forms[f] = NULL /\ forms' = [forms EXCEPT ![f] = copy[r]]
        /\ crossed' = IF job[r].form \in crossed THEN crossed \cup {f} ELSE crossed
        /\ DOMAIN rows \subseteq Nodes /\ DOMAIN m = DOMAIN rows
        /\ \A x, y \in DOMAIN rows : m[x] = m[y] => x = y
        /\ \A n \in Nodes \ {m[x] : x \in DOMAIN rows} : nodes'[n] = nodes[n] /\ born'[n] = born[n]
        /\ nodes' = [n \in Nodes |-> nodes'[n]] /\ born' = [n \in Nodes |-> born'[n]]
        /\ \A x \in DOMAIN rows :
             /\ m[x] \in Side(x) /\ m[x] \in Nodes /\ born[m[x]] = NULL /\ nodes[m[x]] = NULL
             /\ Side(m[x]) = Side(x) /\ x \in Side(x) /\ born'[m[x]] = f
             /\ nodes'[m[x]] \in RowOf(m[x]) /\ nodes'[m[x]] # NULL /\ nodes'[m[x]].form = f
             /\ nodes'[m[x]].parent = IF rows[x].parent = NULL THEN NULL ELSE m[rows[x].parent]
             /\ rows[x].parent # NULL => rows[x].parent \in DOMAIN rows \cap Side(x)
    BY DEF Copying
  <2> DEFINE N == {m[x] : x \in DOMAIN rows}
  <2>2. InHand(r) /\ TypeOK /\ TableTypes
    BY DEF IInv, RequestsOK, RequestOK, TypeOK
  <2>3. /\ N \subseteq Nodes
        /\ \A n \in N : \E x \in DOMAIN rows : n = m[x]
        /\ \A n \in N : born[n] = NULL /\ nodes[n] = NULL /\ nodes'[n] # NULL
                        /\ nodes'[n].form = f /\ born'[n] = f /\ nodes'[n] \in RowOf(n)
        /\ \A n \in Nodes : n \notin N => nodes'[n] = nodes[n] /\ born'[n] = born[n]
    BY <2>1
  <2> HIDE DEF N
  <2>4. /\ \A g \in Forms \ {f} : forms'[g] = forms[g]
        /\ forms'[f] \in FormRow /\ forms'[f] # NULL /\ forms' \in [Forms -> FormRow \cup {NULL}]
    <3>1. copy[r] \in FormRow /\ copy[r] # NULL
      BY <1>1, <2>2, Rows DEF InHand, FormInHand
    <3> QED  BY <2>1, <2>2, <3>1 DEF TableTypes
  <2>5. Grown
    BY <1>1, <2>1, <2>3, <2>4 DEF Grown
  <2>6. TableTypes'
    <3>1. ASSUME NEW n \in Nodes, nodes'[n] # NULL
          PROVE  nodes'[n] \in RowOf(n) /\ nodes'[n].form = born'[n]
      <4>1. CASE n \in N
        BY <2>3, <4>1
      <4>2. CASE n \notin N
        <5>1. nodes'[n] = nodes[n] /\ born'[n] = born[n]
          BY <2>3, <4>2
        <5> QED  BY <2>2, <3>1, <5>1 DEF TableTypes
      <4> QED  BY <4>1, <4>2
    <3>2. nodes' \in [Nodes -> IndicatorRow \cup AttributeRow \cup {NULL}]
      BY <2>1, <3>1 DEF RowOf
    <3>3. born' \in [Nodes -> Forms \cup {NULL}]
      <4>1. \A n \in Nodes : born'[n] \in Forms \cup {NULL}
        BY <2>1, <2>2, <2>3 DEF TableTypes
      <4> QED  BY <2>1, <4>1
    <3>4. crossed' \subseteq Forms
      BY <2>1, <2>2 DEF TableTypes
    <3> QED  BY <1>1, <2>2, <2>4, <3>1, <3>2, <3>3, <3>4 DEF TableTypes
  <2>7. \A n \in Nodes : nodes[n] # NULL => n \notin N /\ nodes'[n] = nodes[n] /\ nodes[n].form # f
    BY <2>1, <2>3, NothingOf
  <2>8. CellsOK' /\ RulesOK' /\ CampaignsOK' /\ OneUnitPerIndicator' /\ TypesStay /\ OthersAlone(r)
    BY <1>1, <2>1, <2>4, <2>5, <2>6, <2>7, RowsStay
  <2>9. RowsOK'
    <3>1. \A n \in Nodes : born'[n] # NULL => forms'[born'[n]] # NULL
      <4>1. \A n \in Nodes : born'[n] \in {born[n], f}
        BY <2>3
      <4>2. \A n \in Nodes : born[n] # NULL => born[n] \in Forms /\ forms[born[n]] # NULL
        BY <2>2 DEF IInv, TablesOK, RowsOK, TableTypes
      <4> QED  BY <2>1, <2>4, <4>1, <4>2
    <3>2. ASSUME NEW n \in Nodes, nodes'[n] # NULL
          PROVE  (nodes[n].parent \in Of(nodes[n].form, Side(n)) \cup {NULL})'
      <4>1. CASE n \in N
        <5>1. PICK x \in DOMAIN rows : n = m[x]
          BY <2>3, <4>1
        <5>2. CASE rows[x].parent = NULL
          BY <2>1, <5>1, <5>2
        <5>3. CASE rows[x].parent # NULL
          <6> PICK p : p = rows[x].parent
            OBVIOUS
          <6>1. p \in DOMAIN rows /\ p \in Side(x) /\ nodes'[n].parent = m[p] /\ nodes'[n].form = f /\ Side(n) = Side(x)
            BY <2>1, <5>1, <5>3
          <6>2. m[p] \in Side(p) /\ nodes'[m[p]] # NULL /\ nodes'[m[p]].form = f
            BY <2>1, <6>1
          <6>3. Side(p) = Side(x)
            BY <2>1, <6>1, Sides
          <6> QED  BY <6>1, <6>2, <6>3 DEF Of
        <5> QED  BY <5>2, <5>3
      <4>2. CASE n \notin N
        <5>1. nodes'[n] = nodes[n] /\ nodes[n] # NULL
          BY <2>3, <3>2, <4>2
        <5>2. nodes[n].parent \in Of(nodes[n].form, Side(n)) \cup {NULL}
          BY <5>1 DEF IInv, TablesOK, RowsOK
        <5>3. Side(n) \subseteq Nodes
          BY Sides
        <5> QED  BY <2>7, <5>1, <5>2, <5>3 DEF Of
      <4> QED  BY <4>1, <4>2
    <3> QED  BY <3>1, <3>2 DEF RowsOK, Of
  <2>10. ForestsOK'
    <3> SUFFICES ASSUME NEW g \in Forms \ crossed', NEW T \in {Indicators, Attributes},
                        NEW S \in (SUBSET Of(g, T)') \ {{}}
                 PROVE  Rooted(S)'
      BY DEF ForestsOK
    <3>0. T \subseteq Nodes
      BY DEF Nodes
    <3>1. CASE g = f
      <4>1. job[r].form \notin crossed
        BY <2>1, <3>1
      <4>2. \A P \in (SUBSET DOMAIN rows) \ {{}} : \E x \in P : rows[x].parent \notin P
        BY <1>1, <2>2, <4>1 DEF InHand, TreeInHand
      <4>3. \A n \in S : n \in N
        <5> SUFFICES ASSUME NEW n \in S PROVE n \in N
          OBVIOUS
        <5>1. n \in Nodes /\ nodes'[n] # NULL /\ nodes'[n].form = f
          BY <3>0, <3>1 DEF Of
        <5> QED  BY <2>3, <2>7, <5>1
      <4> DEFINE P == {x \in DOMAIN rows : m[x] \in S}
      <4>4. P \in (SUBSET DOMAIN rows) \ {{}}
        BY <2>3, <4>3
      <4>5. PICK x \in P : rows[x].parent \notin P
        BY <4>2, <4>4
      <4>6. nodes'[m[x]].parent \notin S
        <5>1. NULL \notin S
          BY <3>0, Rows DEF Of
        <5>2. CASE rows[x].parent = NULL
          BY <2>1, <5>1, <5>2
        <5>3. CASE rows[x].parent # NULL
          BY <2>1, <4>5, <5>3
        <5> QED  BY <5>2, <5>3
      <4> QED  BY <4>5, <4>6 DEF Rooted
    <3>2. CASE g # f
      <4>1. \A n \in Nodes : born'[n] = g /\ nodes'[n] # NULL =>
              nodes[n] # NULL /\ nodes[n].form = g /\ nodes'[n].parent \in {nodes[n].parent, NULL}
        BY <2>2, <2>3, <3>2, RowTable
      <4>2. g \in Forms \ crossed
        BY <2>1
      <4> QED  BY <2>2, <2>6, <4>1, <4>2, ForestKept DEF IInv, TablesOK
    <3> QED  BY <3>1, <3>2
  <2>11. OthersCalm(r)
    <3> SUFFICES ASSUME NEW g \in Forms, NEW q \in Requests, OnParents(q), job[q].form = g PROVE Calm(g)
      BY DEF OthersCalm
    <3>1. g # f
      BY <2>1, NothingOf DEF OnParents, WithoutForm
    <3>2. \A n \in Nodes : born[n] = g => n \notin N
      BY <2>3, NullAssumption
    <3> QED  BY <2>3, <3>2 DEF Calm
  <2> QED  BY <1>1, <2>5, <2>6, <2>8, <2>9, <2>10, <2>11, EndsOK DEF TablesOK
<1> QED  BY <1>2, <1>3, CopyWritten

\* The places the members of L hold in S, and the one among them that x is given when
\* they are handed out in the order Q.
Slots(R, S, L) == {Place(x, R, S) : x \in L}

Share(x, R, S, L, Q) ==
  CHOOSE s \in Slots(R, S, L) :
    Cardinality({t \in Slots(R, S, L) : t < s}) = Place(x, Q, L)

\* Each member of L gets a slot of its own, all slots are taken, and in the order Q.
LEMMA Shares ==
  ASSUME NEW S, IsFiniteSet(S), NEW R, LinearOn(R, S), NEW L \in SUBSET S, NEW Q, LinearOn(Q, L)
  PROVE  /\ Slots(R, S, L) \subseteq 0..(Cardinality(S) - 1)
         /\ \A x \in L : Share(x, R, S, L, Q) \in Slots(R, S, L)
         /\ \A x, y \in L : <<x, y>> \in Q => Share(x, R, S, L, Q) < Share(y, R, S, L, Q)
         /\ \A s \in Slots(R, S, L) : \E x \in L : Share(x, R, S, L, Q) = s
<1> PICK K : K = Slots(R, S, L)
  OBVIOUS
<1>1. IsFiniteSet(L)
  BY FS_Subset
<1>2. /\ \A x \in S : Place(x, R, S) \in 0..(Cardinality(S) - 1)
      /\ \A x, y \in S : Place(x, R, S) = Place(y, R, S) => x = y
  BY Places
<1>3. K \subseteq 0..(Cardinality(S) - 1) /\ K \in SUBSET Int
  <2>1. K \subseteq 0..(Cardinality(S) - 1)
    BY <1>2 DEF Slots
  <2> QED  BY <2>1
<1>4. IsFiniteSet(K) /\ Cardinality(K) = Cardinality(L)
  <2> DEFINE P == [x \in L |-> Place(x, R, S)]
  <2>1. P \in [L -> K] /\ (\A a, b \in L : P[a] = P[b] => a = b) /\ (\A t \in K : \E s \in L : P[s] = t)
    BY <1>2 DEF Slots
  <2> HIDE DEF P
  <2>2. P \in Bijection(L, K)
    BY <2>1, Fun_IsBij
  <2>3. ExistsBijection(L, K)
    BY <2>2 DEF ExistsBijection
  <2> QED  BY <1>1, <2>3, FS_Bijection
<1>5. /\ \A x \in L : Place(x, Q, L) \in 0..(Cardinality(L) - 1)
      /\ \A x, y \in L : Place(x, Q, L) = Place(y, Q, L) => x = y
      /\ \A k \in 0..(Cardinality(L) - 1) : \E x \in L : Place(x, Q, L) = k
  BY <1>1, Places
<1>6. LinearOn(Less(K), K) /\ \A s \in K : {t \in K : <<t, s>> \in Less(K)} = {t \in K : t < s}
  BY <1>3, NumbersOrder
<1>7. /\ \A s \in K : Place(s, Less(K), K) \in 0..(Cardinality(K) - 1)
      /\ \A s, t \in K : Place(s, Less(K), K) = Place(t, Less(K), K) => s = t
      /\ \A k \in 0..(Cardinality(K) - 1) : \E s \in K : Place(s, Less(K), K) = k
  BY <1>4, <1>6, Places
<1>8. \A s \in K : Cardinality({t \in K : t < s}) = Place(s, Less(K), K)
  BY <1>6 DEF Place
<1>9. ASSUME NEW x \in L
      PROVE  /\ Share(x, R, S, L, Q) \in K
             /\ Place(Share(x, R, S, L, Q), Less(K), K) = Place(x, Q, L)
  <2>1. PICK s \in K : Place(s, Less(K), K) = Place(x, Q, L)
    BY <1>4, <1>5, <1>7
  <2>2. Share(x, R, S, L, Q) = CHOOSE u \in K : Cardinality({t \in K : t < u}) = Place(x, Q, L)
    BY DEF Share
  <2> QED  BY <1>8, <2>1, <2>2
<1>10. ASSUME NEW x \in L, NEW y \in L, <<x, y>> \in Q
       PROVE  Share(x, R, S, L, Q) < Share(y, R, S, L, Q)
  <2> PICK u : u = Share(x, R, S, L, Q)
    OBVIOUS
  <2> PICK v : v = Share(y, R, S, L, Q)
    OBVIOUS
  <2>1. u \in K /\ v \in K /\ Place(u, Less(K), K) = Place(x, Q, L) /\ Place(v, Less(K), K) = Place(y, Q, L)
    BY <1>9
  <2>2. Place(x, Q, L) < Place(y, Q, L)
    BY <1>1, <1>10, PlaceGrows
  <2>3. Place(x, Q, L) \in Int /\ Place(y, Q, L) \in Int
    BY <1>5
  <2>4. ~(v < u)
    <3> SUFFICES ASSUME v < u PROVE FALSE
      OBVIOUS
    <3>1. <<v, u>> \in Less(K)
      BY <2>1 DEF Less
    <3>2. Place(v, Less(K), K) < Place(u, Less(K), K)
      BY <1>4, <1>6, <2>1, <3>1, PlaceGrows
    <3> QED  BY <2>1, <2>2, <2>3, <3>2
  <2>5. u # v
    BY <2>1, <2>2, <2>3
  <2>6. u \in Int /\ v \in Int
    BY <1>3, <2>1
  <2>7. u < v
    BY <2>4, <2>5, <2>6
  <2> QED  BY <2>7
<1>11. ASSUME NEW s \in K PROVE \E x \in L : Share(x, R, S, L, Q) = s
  <2>1. PICK x \in L : Place(x, Q, L) = Place(s, Less(K), K)
    BY <1>4, <1>5, <1>7
  <2> QED  BY <1>7, <1>9, <2>1
<1> QED  BY <1>3, <1>9, <1>10, <1>11

\* The rows with a parent, in their old order and in that of the list.
Children(rows, items, p) == {m \in DOMAIN rows : Effective(rows, items, m) = p}
Older(rows, S) == {q \in S \X S : Before(rows, q[1], q[2])}
ListedOf(items, S) == {x \in S : Listed(items, x)}
Ahead(items, L) == {q \in L \X L : At(items, q[1]) < At(items, q[2])}

\* A row that is in the list is at one of its places.
LEMMA ListedAt ==
  ASSUME NEW items \in Seq(ReorderItemDto), NEW n, Listed(items, n)
  PROVE  At(items, n) \in 1..Len(items) /\ At(items, n) \in DOMAIN items /\ items[At(items, n)].id = n
         /\ items[At(items, n)] \in ReorderItemDto
<1>1. \E i \in DOMAIN items : items[i].id = n
  BY DEF Listed
<1>2. At(items, n) \in DOMAIN items /\ items[At(items, n)].id = n
  BY <1>1 DEF At
<1>3. DOMAIN items = 1..Len(items) /\ \A i \in 1..Len(items) : items[i] \in ReorderItemDto
  OBVIOUS
<1> QED  BY <1>2, <1>3

\* A reorder gives the children of a row or of none the numbers from zero on, each once:
\* the listed ones in the order of the list, the others in their old order.
LEMMA NewSortFacts ==
  ASSUME NEW rows, DOMAIN rows \subseteq Nodes, \A n \in DOMAIN rows : rows[n].sort \in Nat,
         NEW items \in Seq(ReorderItemDto), NEW p
  PROVE  LET S == Children(rows, items, p)
             sort(n) == NewSort(rows, items, n)
         IN  /\ \A n \in S : sort(n) \in 0..(Cardinality(S) - 1)
             /\ \A k \in 0..(Cardinality(S) - 1) : \E n \in S : sort(n) = k
             /\ \A m, n \in ListedOf(items, S) : At(items, m) < At(items, n) => sort(m) < sort(n)
             /\ \A m, n \in S \ ListedOf(items, S) : Before(rows, m, n) => sort(m) < sort(n)
<1> PICK S : S = Children(rows, items, p)
  OBVIOUS
<1> PICK R : R = Older(rows, S)
  OBVIOUS
<1> PICK L : L = ListedOf(items, S)
  OBVIOUS
<1> PICK Q : Q = Ahead(items, L)
  OBVIOUS
<1>1. S \in SUBSET Nodes /\ IsFiniteSet(S) /\ L \in SUBSET S /\ S \subseteq DOMAIN rows
  BY FiniteRows DEF Children, ListedOf
<1>2. LinearOn(R, S)
  <2>1. \A x \in S : x \in Nat /\ rows[x].sort \in Nat
    BY <1>1, IdsAssumption DEF Nodes
  <2> QED  BY <2>1 DEF LinearOn, Older, Before
<1>3. LinearOn(Q, L)
  <2>1. \A x \in L : At(items, x) \in Nat /\ items[At(items, x)].id = x
    BY ListedAt DEF ListedOf
  <2> QED  BY <2>1 DEF LinearOn, Ahead
<1>4. \A x \in S : Place(x, R, S) = Cardinality({m \in S : Before(rows, m, x)})
  BY DEF Place, Older
<1>5. ASSUME NEW n \in S
      PROVE  NewSort(rows, items, n) = IF n \in L THEN Share(n, R, S, L, Q) ELSE Place(n, R, S)
  <2> DEFINE siblings == {m \in DOMAIN rows : Effective(rows, items, m) = Effective(rows, items, n)}
             place(x) == Cardinality({m \in siblings : Before(rows, m, x)})
             slots == {place(x) : x \in {y \in siblings : Listed(items, y)}}
             rank(x) == Cardinality({y \in siblings : Listed(items, y) /\ At(items, y) < At(items, x)})
  <2>1. siblings = S
    BY DEF Children
  <2>2. place(n) = Place(n, R, S)
    BY <1>4, <2>1
  <2>3. slots = Slots(R, S, L)
    <3>1. {y \in siblings : Listed(items, y)} = L
      BY <2>1 DEF ListedOf
    <3>2. \A x \in L : place(x) = Place(x, R, S)
      BY <1>1, <1>4, <2>1
    <3> HIDE DEF place, siblings
    <3> QED  BY <3>1, <3>2 DEF Slots
  <2>4. n \in L => rank(n) = Place(n, Q, L)
    <3>1. n \in L => {y \in siblings : Listed(items, y) /\ At(items, y) < At(items, n)} = {y \in L : <<y, n>> \in Q}
      BY <2>1 DEF ListedOf, Ahead
    <3> HIDE DEF siblings
    <3> QED  BY <3>1 DEF Place
  <2>5. NewSort(rows, items, n) = IF Listed(items, n)
                                  THEN CHOOSE s \in slots : Cardinality({t \in slots : t < s}) = rank(n)
                                  ELSE place(n)
    BY DEF NewSort
  <2>6. n \in L <=> Listed(items, n)
    BY DEF ListedOf
  <2> HIDE DEF slots, place, rank, siblings
  <2>7. CASE n \in L
    BY <2>3, <2>4, <2>5, <2>6, <2>7 DEF Share
  <2>8. CASE n \notin L
    BY <2>2, <2>5, <2>6, <2>8
  <2> QED  BY <2>7, <2>8
<1> DEFINE new(n) == IF n \in L THEN Share(n, R, S, L, Q) ELSE Place(n, R, S)
<1>6. /\ Slots(R, S, L) \subseteq 0..(Cardinality(S) - 1)
      /\ \A x \in L : Share(x, R, S, L, Q) \in Slots(R, S, L)
      /\ \A x, y \in L : <<x, y>> \in Q => Share(x, R, S, L, Q) < Share(y, R, S, L, Q)
      /\ \A s \in Slots(R, S, L) : \E x \in L : Share(x, R, S, L, Q) = s
  BY <1>1, <1>2, <1>3, Shares
<1>7. /\ \A x \in S : Place(x, R, S) \in 0..(Cardinality(S) - 1)
      /\ \A k \in 0..(Cardinality(S) - 1) : \E x \in S : Place(x, R, S) = k
  BY <1>1, <1>2, Places
<1>8. \A n \in S : new(n) \in 0..(Cardinality(S) - 1)
  BY <1>1, <1>6, <1>7
<1>9. ASSUME NEW k \in 0..(Cardinality(S) - 1) PROVE \E n \in S : new(n) = k
  <2>1. PICK x \in S : Place(x, R, S) = k
    BY <1>7
  <2>2. CASE x \in L
    <3>1. k \in Slots(R, S, L)
      BY <2>1, <2>2 DEF Slots
    <3> QED  BY <1>1, <1>6, <3>1
  <2>3. CASE x \notin L
    BY <2>1, <2>3
  <2> QED  BY <2>2, <2>3
<1>10. ASSUME NEW m \in L, NEW n \in L, At(items, m) < At(items, n) PROVE new(m) < new(n)
  BY <1>6, <1>10 DEF Ahead
<1>11. ASSUME NEW m \in S \ L, NEW n \in S \ L, Before(rows, m, n) PROVE new(m) < new(n)
  <2>1. <<m, n>> \in R
    BY <1>11 DEF Older
  <2> QED  BY <1>1, <1>2, <2>1, PlaceGrows
<1> HIDE DEF new
<1>12. \A n \in S : NewSort(rows, items, n) = new(n)
  BY <1>5 DEF new
<1> QED  BY <1>1, <1>8, <1>9, <1>10, <1>11, <1>12

\* A row that is renumbered and put under another parent keeps its other fields.
LEMMA PlacedRow ==
  ASSUME NEW n \in Nodes, NEW row \in RowOf(n), NEW sort \in Nat, NEW parent \in Side(n) \cup {NULL}
  PROVE  /\ Placed(row, sort, parent) \in RowOf(n) /\ Placed(row, sort, parent).form = row.form
         /\ Placed(row, sort, parent).parent = parent /\ Placed(row, sort, parent).sort = sort
         /\ Placed(row, sort, parent).code = row.code
<1> DEFINE numbered == [row EXCEPT !.sort = sort]
<1>1. Placed(row, sort, parent) = [numbered EXCEPT !.parent = parent]
  BY DEF Placed
<1>2. CASE n \in Indicators
  <2>1. RowOf(n) = IndicatorRow /\ Side(n) = Indicators
    BY <1>2, Sides
  <2>2. numbered \in IndicatorRow /\ numbered.form = row.form /\ numbered.sort = sort /\ numbered.code = row.code
    BY <2>1 DEF IndicatorRow
  <2> HIDE DEF numbered
  <2> QED  BY <1>1, <2>1, <2>2 DEF IndicatorRow
<1>3. CASE n \in Attributes
  <2>1. RowOf(n) = AttributeRow /\ Side(n) = Attributes
    BY <1>3, Sides
  <2>2. numbered \in AttributeRow /\ numbered.form = row.form /\ numbered.sort = sort /\ numbered.code = row.code
    BY <2>1 DEF AttributeRow
  <2> HIDE DEF numbered
  <2> QED  BY <1>1, <2>1, <2>2 DEF AttributeRow
<1> QED  BY <1>2, <1>3 DEF Nodes

\* The parent a listed row is asked to have, and the one of another row.
LEMMA EffectiveParent ==
  ASSUME NEW rows, NEW items \in Seq(ReorderItemDto), Acceptable(rows, items), NEW n \in DOMAIN rows,
         rows[n].parent \in DOMAIN rows \cup {NULL}
  PROVE  /\ Effective(rows, items, n) \in DOMAIN rows \cup {NULL}
         /\ ~(Listed(items, n) /\ items[At(items, n)].parent # UNSET) => Effective(rows, items, n) = rows[n].parent
         /\ Listed(items, n) => Effective(rows, items, n) \in Affected(rows, items)
<1>1. Listed(items, n) => At(items, n) \in DOMAIN items /\ items[At(items, n)].id = n
  BY ListedAt
<1>2. Effective(rows, items, n) \in DOMAIN rows \cup {NULL}
  BY <1>1 DEF Effective, Acceptable
<1>3. Listed(items, n) => Effective(rows, items, n) \in Affected(rows, items)
  BY <1>1 DEF Affected
<1> QED  BY <1>2, <1>3 DEF Effective

\* What a reorder writes.
LEMMA OrderWritten ==
  ASSUME IInv, NEW r \in Requests, ReorderWrite(r), NEW rows, rows = work[r].rows, NEW items, items = work[r].items
  PROVE  \/ nodes' = nodes
         \/ /\ nodes' = [n \in Nodes |-> nodes'[n]]
            /\ \A n \in Nodes \ DOMAIN rows : nodes'[n] = nodes[n]
            /\ \A n \in DOMAIN rows : nodes[n] = NULL => nodes'[n] = NULL
            /\ \A n \in DOMAIN rows : nodes[n] # NULL =>
                 LET p == Effective(rows, items, n)
                     asked == Listed(items, n) /\ items[At(items, n)].parent # UNSET
                 IN  /\ n \in Nodes /\ nodes'[n] \in RowOf(n) /\ nodes'[n].form = nodes[n].form
                     /\ asked => nodes'[n].parent = p /\ (p # NULL => p \in DOMAIN rows /\ nodes[p] # NULL)
                     /\ ~asked => nodes'[n].parent = nodes[n].parent /\ p = rows[n].parent
                     /\ nodes'[n].sort = IF p \in Affected(rows, items) THEN NewSort(rows, items, n)
                                         ELSE nodes[n].sort
                     /\ nodes'[n].code = nodes[n].code
<1> DEFINE eff(n) == Effective(rows, items, n)
           moved == {n \in DOMAIN rows : eff(n) \in Affected(rows, items)}
           asked(n) == Listed(items, n) /\ items[At(items, n)].parent # UNSET
           bad == \E n \in moved : asked(n) /\ nodes[n] # NULL /\ eff(n) # NULL /\ nodes[eff(n)] = NULL
           new(n) == Placed(nodes[n], NewSort(rows, items, n), IF asked(n) THEN eff(n) ELSE nodes[n].parent)
<1>1. /\ pc[r] = "reorder"
      /\ nodes' = IF bad THEN nodes
                  ELSE [n \in Nodes |-> IF n \in moved /\ nodes[n] # NULL THEN new(n) ELSE nodes[n]]
  BY DEF ReorderWrite
<1> SUFFICES ASSUME ~bad
             PROVE  /\ nodes' = [n \in Nodes |-> nodes'[n]]
                    /\ \A n \in Nodes \ DOMAIN rows : nodes'[n] = nodes[n]
                    /\ \A n \in DOMAIN rows : nodes[n] = NULL => nodes'[n] = NULL
                    /\ \A n \in DOMAIN rows : nodes[n] # NULL =>
                         /\ n \in Nodes /\ nodes'[n] \in RowOf(n) /\ nodes'[n].form = nodes[n].form
                         /\ asked(n) => nodes'[n].parent = eff(n)
                                        /\ (eff(n) # NULL => eff(n) \in DOMAIN rows /\ nodes[eff(n)] # NULL)
                         /\ ~asked(n) => nodes'[n].parent = nodes[n].parent /\ eff(n) = rows[n].parent
                         /\ nodes'[n].sort = IF eff(n) \in Affected(rows, items) THEN NewSort(rows, items, n)
                                             ELSE nodes[n].sort
                         /\ nodes'[n].code = nodes[n].code
  BY <1>1
<1>2. nodes' = [n \in Nodes |-> IF n \in moved /\ nodes[n] # NULL THEN new(n) ELSE nodes[n]]
  BY <1>1
<1>3. InHand(r) /\ TypeOK /\ TableTypes
  BY DEF IInv, RequestsOK, RequestOK, TypeOK
<1>4. /\ DOMAIN rows \subseteq Nodes
      /\ \A n \in DOMAIN rows : /\ rows[n] \in RowOf(n) /\ rows[n].parent \in DOMAIN rows \cup {NULL}
                                /\ \A m \in DOMAIN rows : m \in Side(n)
      /\ items \in Seq(ReorderItemDto) /\ Acceptable(rows, items)
  <2>1. DOMAIN rows \subseteq Indicators \/ DOMAIN rows \subseteq Attributes
    BY <1>1, <1>3 DEF InHand, OrderInHand, Ids
  <2> QED  BY <1>1, <1>3, <2>1, Sides DEF InHand, OrderInHand, Nodes
<1> HIDE DEF bad
<1>5. ASSUME NEW n \in DOMAIN rows, nodes[n] # NULL
      PROVE  /\ n \in Nodes /\ nodes'[n] \in RowOf(n) /\ nodes'[n].form = nodes[n].form
             /\ asked(n) => nodes'[n].parent = eff(n)
                            /\ (eff(n) # NULL => eff(n) \in DOMAIN rows /\ nodes[eff(n)] # NULL)
             /\ ~asked(n) => nodes'[n].parent = nodes[n].parent /\ eff(n) = rows[n].parent
             /\ nodes'[n].sort = IF eff(n) \in Affected(rows, items) THEN NewSort(rows, items, n)
                                 ELSE nodes[n].sort
             /\ nodes'[n].code = nodes[n].code
  <2>1. /\ n \in Nodes /\ nodes[n] \in RowOf(n) /\ nodes[n].parent \in Side(n) \cup {NULL}
    BY <1>3, <1>4, <1>5, RowTable
  <2>2. /\ eff(n) \in DOMAIN rows \cup {NULL} /\ (~asked(n) => eff(n) = rows[n].parent)
        /\ Listed(items, n) => eff(n) \in Affected(rows, items)
    BY <1>4, EffectiveParent
  <2>3. asked(n) => n \in moved
    BY <2>2
  <2>4. asked(n) /\ eff(n) # NULL => eff(n) \in DOMAIN rows /\ nodes[eff(n)] # NULL
    BY <1>5, <2>2, <2>3 DEF bad
  <2>5. CASE n \in moved
    <3> PICK sort : sort = NewSort(rows, items, n)
      OBVIOUS
    <3> PICK parent : parent = IF asked(n) THEN eff(n) ELSE nodes[n].parent
      OBVIOUS
    <3>1. sort \in Nat
      <4>1. \A m \in DOMAIN rows : rows[m].sort \in Nat
        BY <1>4, Rows DEF RowOf
      <4>2. \A m \in Children(rows, items, eff(n)) : NewSort(rows, items, m) \in 0..(Cardinality(Children(rows, items, eff(n))) - 1)
        BY <1>4, <4>1, NewSortFacts
      <4>3. n \in Children(rows, items, eff(n))
        BY DEF Children
      <4> QED  BY <4>2, <4>3
    <3>2. parent \in Side(n) \cup {NULL}
      BY <1>4, <2>1, <2>2
    <3>3. nodes'[n] = Placed(nodes[n], sort, parent)
      BY <1>2, <1>5, <2>1, <2>5
    <3>4. /\ nodes'[n] \in RowOf(n) /\ nodes'[n].form = nodes[n].form
          /\ nodes'[n].parent = parent /\ nodes'[n].sort = sort /\ nodes'[n].code = nodes[n].code
      BY <2>1, <3>1, <3>2, <3>3, PlacedRow
    <3> QED  BY <2>1, <2>2, <2>4, <2>5, <3>4
  <2>6. CASE n \notin moved
    <3>1. nodes'[n] = nodes[n] /\ ~asked(n)
      BY <1>2, <2>1, <2>3, <2>6
    <3> QED  BY <2>1, <2>2, <2>6, <3>1
  <2> QED  BY <2>5, <2>6
<1>6. \A n \in DOMAIN rows : nodes[n] = NULL => nodes'[n] = NULL
  BY <1>2, <1>4
<1>7. nodes' = [n \in Nodes |-> nodes'[n]] /\ \A n \in Nodes \ DOMAIN rows : nodes'[n] = nodes[n]
  BY <1>2
<1> QED  BY <1>5, <1>6, <1>7

\* The order asked for was a forest when the rows were read; where no other move came
\* between, it still is.
LEMMA ReorderWriteOK ==
  ASSUME IInv, NEW r \in Requests, ReorderWrite(r)
  PROVE  IInv'
<1> PICK f : f = job[r].form
  OBVIOUS
<1> PICK rows : rows = work[r].rows
  OBVIOUS
<1> PICK items : items = work[r].items
  OBVIOUS
<1>1. /\ pc[r] = "reorder" /\ Cross(r) /\ End(r)
      /\ UNCHANGED <<forms, born, cells, rules, lists, campaigns, served, surprised, loosened>>
  BY DEF ReorderWrite
<1>2. InHand(r) /\ Walked(r) /\ TypeOK /\ TableTypes
  BY DEF IInv, RequestsOK, RequestOK, TypeOK
<1>3. /\ f \in Forms /\ DOMAIN rows \subseteq Nodes
      /\ \A n \in DOMAIN rows : /\ born[n] = f /\ rows[n].parent \in DOMAIN rows \cup {NULL}
                                /\ \A m \in DOMAIN rows : m \in Side(n)
      /\ items \in Seq(ReorderItemDto) /\ Acceptable(rows, items)
  <2>1. \/ DOMAIN rows \subseteq Indicators
        \/ DOMAIN rows \subseteq Attributes
    BY <1>1, <1>2 DEF InHand, OrderInHand, Ids
  <2>2. f \in Forms
    BY <1>1, <1>2 DEF InHand, FormInHand, WithoutForm
  <2> QED  BY <1>1, <1>2, <2>1, <2>2, Sides DEF InHand, OrderInHand, Nodes, Ids
<1>4. crossed \subseteq crossed'
  BY <1>1 DEF Cross
<1>5. Grown
  BY <1>1, <1>4 DEF Grown
\* What has become of each row.
<1>6. ASSUME NEW n \in Nodes
      PROVE  /\ nodes'[n] = NULL <=> nodes[n] = NULL
             /\ nodes[n] # NULL => nodes'[n] \in RowOf(n) /\ nodes'[n].form = nodes[n].form
             /\ nodes[n] # NULL =>
                  \/ /\ nodes'[n].parent = nodes[n].parent
                     /\ nodes' # nodes /\ n \in DOMAIN rows => Effective(rows, items, n) = rows[n].parent
                  \/ /\ n \in DOMAIN rows /\ nodes'[n].parent = Effective(rows, items, n)
                     /\ Effective(rows, items, n) # NULL =>
                          Effective(rows, items, n) \in DOMAIN rows /\ nodes[Effective(rows, items, n)] # NULL
  <2>1. nodes[n] # NULL => nodes[n] \in RowOf(n)
    BY <1>2, RowTable
  <2>2. CASE nodes' = nodes
    BY <2>1, <2>2
  <2>3. CASE nodes' # nodes
    <3>1. CASE n \notin DOMAIN rows
      <4>1. nodes'[n] = nodes[n]
        BY <2>3, <3>1, OrderWritten
      <4> QED  BY <2>1, <3>1, <4>1
    <3>2. CASE n \in DOMAIN rows
      <4> PICK p : p = Effective(rows, items, n)
        OBVIOUS
      <4> DEFINE asked == Listed(items, n) /\ items[At(items, n)].parent # UNSET
      <4>1. /\ nodes[n] = NULL => nodes'[n] = NULL
            /\ nodes[n] # NULL =>
                 /\ nodes'[n] \in RowOf(n) /\ nodes'[n].form = nodes[n].form
                 /\ asked => nodes'[n].parent = p /\ (p # NULL => p \in DOMAIN rows /\ nodes[p] # NULL)
                 /\ ~asked => nodes'[n].parent = nodes[n].parent /\ p = rows[n].parent
        BY <2>3, <3>2, OrderWritten
      <4>2. nodes[n] # NULL => nodes'[n] # NULL
        BY <4>1, Rows DEF RowOf
      <4> HIDE DEF asked
      <4> QED  BY <3>2, <4>1, <4>2
    <3> QED  BY <3>1, <3>2
  <2> QED  BY <2>2, <2>3
<1>7. TableTypes'
  <2>1. nodes' \in [Nodes -> IndicatorRow \cup AttributeRow \cup {NULL}]
    <3>1. nodes' = [n \in Nodes |-> nodes'[n]]
      BY <1>2, OrderWritten DEF TableTypes
    <3> QED  BY <1>6, <3>1 DEF RowOf
  <2>2. \A n \in Nodes : nodes'[n] # NULL => nodes'[n] \in RowOf(n) /\ nodes'[n].form = born'[n]
    BY <1>1, <1>2, <1>6 DEF TableTypes
  <2>3. crossed' \subseteq Forms
    BY <1>1, <1>2 DEF Cross, TableTypes
  <2> QED  BY <1>1, <1>2, <2>1, <2>2, <2>3 DEF TableTypes
<1>8. OthersCalm(r)
  BY <1>1, <1>5, <1>7, CrossCalm
<1>9. CellsOK' /\ RulesOK' /\ CampaignsOK' /\ OneUnitPerIndicator' /\ TypesStay /\ OthersAlone(r)
  BY <1>1, <1>5, <1>6, <1>7, RowsStay
<1>10. RowsOK'
  <2>1. \A n \in Nodes : born'[n] # NULL => forms'[born'[n]] # NULL
    BY <1>1 DEF IInv, TablesOK, RowsOK
  <2>2. ASSUME NEW n \in Nodes, nodes'[n] # NULL, nodes'[n].parent # NULL
        PROVE  (nodes[n].parent \in Of(nodes[n].form, Side(n)))'
    <3> PICK p : p = nodes'[n].parent
      OBVIOUS
    <3>1. nodes[n] # NULL /\ nodes'[n].form = nodes[n].form
      BY <1>6, <2>2
    <3>2. p \in Side(n) /\ p \in Nodes /\ nodes[p] # NULL /\ nodes[p].form = nodes[n].form
      <4>1. CASE p = nodes[n].parent
        <5>1. p \in Of(nodes[n].form, Side(n))
          BY <2>2, <3>1, <4>1 DEF IInv, TablesOK, RowsOK
        <5> QED  BY <5>1, Sides DEF Of
      <4>2. CASE n \in DOMAIN rows /\ p \in DOMAIN rows /\ nodes[p] # NULL
        <5>1. p \in Side(n) /\ p \in Nodes /\ born[p] = f /\ born[n] = f
          BY <1>3, <4>2
        <5> QED  BY <1>2, <3>1, <4>2, <5>1, RowTable
      <4> QED  BY <1>6, <2>2, <3>1, <4>1, <4>2
    <3>3. nodes'[p] # NULL /\ nodes'[p].form = nodes'[n].form
      BY <1>6, <3>1, <3>2
    <3> QED  BY <3>2, <3>3 DEF Of
  <2> QED  BY <2>1, <2>2 DEF RowsOK, Of
<1>11. ForestsOK'
  <2> SUFFICES ASSUME NEW g \in Forms \ crossed', NEW U \in {Indicators, Attributes},
                      NEW S \in (SUBSET Of(g, U)') \ {{}}, ~Rooted(S)'
               PROVE  FALSE
    BY DEF ForestsOK
  <2>1. g \in Forms \ crossed /\ U \subseteq Nodes
    BY <1>4 DEF Nodes
  <2>2. \A m \in S : m \in U /\ m \in Nodes /\ nodes'[m] # NULL /\ nodes'[m].form = g /\ nodes'[m].parent \in S
    BY <2>1 DEF Of, Rooted
  <2>3. NULL \notin S
    BY <2>2, Rows
  <2>4. \A m \in S : nodes[m] # NULL /\ nodes[m].form = g /\ m \in Of(g, U)
    BY <1>6, <2>2 DEF Of
  <2>5. CASE nodes' # nodes /\ S \cap DOMAIN rows # {}
    <3> DEFINE B == S \cap DOMAIN rows
    <3>1. g = f
      <4>1. PICK m \in B : TRUE
        BY <2>5
      <4>2. nodes[m].form = g /\ born[m] = f /\ nodes[m] # NULL /\ m \in Nodes
        BY <1>3, <2>4, <4>1
      <4> QED  BY <1>2, <4>2, RowTable
    <3>2. /\ \A m \in DOMAIN rows : nodes[m] # NULL => nodes[m].parent \in {rows[m].parent, NULL}
          /\ \A Z \in (SUBSET DOMAIN rows) \ {{}} : \E m \in Z : Effective(rows, items, m) \notin Z
      BY <1>1, <1>2, <2>1, <3>1 DEF Walked
    <3>3. ASSUME NEW m \in B PROVE Effective(rows, items, m) \in B
      <4>1. m \in Nodes /\ nodes[m] # NULL /\ nodes'[m].parent \in S /\ nodes'[m].parent # NULL
        BY <2>2, <2>3, <2>4
      <4>2. nodes'[m].parent = Effective(rows, items, m)
        BY <1>6, <2>5, <3>2, <4>1
      <4>3. Effective(rows, items, m) \in DOMAIN rows \cup {NULL}
        BY <1>3, EffectiveParent
      <4> QED  BY <4>1, <4>2, <4>3
    <3> HIDE DEF B
    <3>4. B \in (SUBSET DOMAIN rows) \ {{}}
      BY <2>5 DEF B
    <3> QED  BY <3>2, <3>3, <3>4
  <2>6. CASE nodes' = nodes \/ S \cap DOMAIN rows = {}
    <3>1. \A m \in S : nodes[m].parent = nodes'[m].parent
      BY <1>6, <2>4, <2>2, <2>6
    <3>2. Rooted(S)
      BY <2>1, <2>4 DEF IInv, TablesOK, ForestsOK
    <3> QED  BY <2>2, <3>1, <3>2 DEF Rooted
  <2> QED  BY <2>5, <2>6
<1> QED  BY <1>1, <1>5, <1>7, <1>8, <1>9, <1>10, <1>11, EndsOK DEF TablesOK

\* Every statement of a request keeps the invariant.
LEMMA HandleOK ==
  ASSUME IInv, NEW r \in Requests, Handle(r)
  PROVE  IInv'
<1>1. CASE \/ NewForm(r) \/ CopyTree(r) \/ FormLoad(r) \/ FormWrite(r) \/ DropForm(r)
           \/ Insert(r) \/ Walk(r) \/ SaveLoad(r) \/ SaveWrite(r) \/ Delete(r) \/ ReorderWrite(r)
  BY <1>1, NewFormOK, CopyTreeOK, FormLoadOK, FormWriteOK, DropFormOK, InsertOK, WalkOK, SaveLoadOK,
     SaveWriteOK, DeleteOK, ReorderWriteOK
<1>2. CASE WriteCells(r) \/ EraseCells(r) \/ RulesOff(r) \/ RulesOn(r) \/ EraseRules(r)
  BY <1>2, WriteCellsOK, EraseCellsOK, RulesOffOK, RulesOnOK, EraseRulesOK
<1>3. CASE \/ ImportIndicator(r) \/ ImportAttribute(r) \/ ImportLinks(r)
           \/ LinkIndicator(r) \/ LinkAttribute(r) \/ ImportNext(r)
  BY <1>3, ImportRowsOK, LinksOK, ImportTurnsOK
<1>4. CASE ListLoad(r) \/ ListWrite(r) \/ ListDrop(r)
  BY <1>4, ListLoadOK, ListWriteOK, ListDropOK
<1> QED  BY <1>1, <1>2, <1>3, <1>4 DEF Handle

\* The seed satisfies the invariant.
LEMMA InitOK ==
  ASSUME Init
  PROVE  IInv
<1> DEFINE there == {n \in Nodes : SeedRows[n] # NULL}
<1>0. /\ SeedForm \in Forms /\ SeedForm # NULL
      /\ SeedRows \in [Nodes -> IndicatorRow \cup AttributeRow \cup {NULL}]
      /\ \A n \in there : /\ SeedRows[n] \in RowOf(n) /\ SeedRows[n].form = SeedForm
                          /\ SeedRows[n].parent \in (there \cap Side(n)) \cup {NULL}
      /\ \A S \in (SUBSET there) \ {{}} : \E n \in S : SeedRows[n].parent \notin S
  BY SeedAssumption, NullAssumption
<1>1. /\ nodes = SeedRows
      /\ forms[SeedForm] # NULL /\ forms \in [Forms -> FormRow \cup {NULL}]
      /\ born \in [Nodes -> Forms \cup {NULL}]
      /\ \A n \in Nodes : born[n] = IF SeedRows[n] # NULL THEN SeedForm ELSE NULL
  <2> DEFINE row == [status |-> "READY", type |-> "AGGREGATE",
                     category |-> CHOOSE k \in Categories \ Later : TRUE, deleted |-> FALSE]
  <2>1. (CHOOSE k \in Categories \ Later : TRUE) \in Categories
    BY IdsAssumption
  <2>2. row \in FormRow
    BY <2>1 DEF FormRow
  <2>3. forms = [f \in Forms |-> IF f = SeedForm THEN row ELSE NULL]
    BY DEF Init
  <2>4. row # NULL
    BY <2>2, Rows
  <2> HIDE DEF row
  <2>5. forms[SeedForm] # NULL /\ forms \in [Forms -> FormRow \cup {NULL}]
    BY <1>0, <2>2, <2>3, <2>4
  <2>6. nodes = SeedRows /\ born = [n \in Nodes |-> IF SeedRows[n] # NULL THEN SeedForm ELSE NULL]
    BY DEF Init
  <2> QED  BY <1>0, <2>5, <2>6
<1>2. /\ cells = [c \in Cells |-> NULL] /\ rules = [p \in Orgs \X Indicators |-> NULL]
      /\ lists = [k \in Entries \cup Categories |-> IF k \in Later THEN NULL ELSE "active"]
      /\ campaigns = [f \in Forms |-> NULL]
      /\ pc = [r \in Requests |-> "idle"] /\ job = [r \in Requests |-> NoJob]
      /\ copy = [r \in Requests |-> NULL] /\ base = [r \in Requests |-> NULL] /\ work = [r \in Requests |-> NULL]
      /\ served = 0 /\ crossed = {} /\ surprised = {} /\ loosened = {}
  BY DEF Init
<1>3. TableTypes
  <2>1. \A n \in Nodes : nodes[n] # NULL => nodes[n] \in RowOf(n) /\ nodes[n].form = born[n]
    BY <1>0, <1>1
  <2>2. rules \in [Orgs \X Indicators -> RuleState] /\ lists \in [Entries \cup Categories -> ListState]
        /\ cells \in [Cells -> CellConfig \cup {NULL}] /\ campaigns \in [Forms -> (SUBSET Indicators) \cup {NULL}]
    BY <1>2 DEF RuleState, ListState
  <2>3. served \in 0..MaxRequests /\ crossed \cup surprised \cup loosened \subseteq Forms
    BY <1>2, BoundsAssumption
  <2> QED  BY <1>0, <1>1, <2>1, <2>2, <2>3 DEF TableTypes
<1>4. RequestTypes
  <2>1. NoJob \in Job /\ NoJob.op = "none"
    BY DEF NoJob, Job
  <2> QED  BY <1>2, <2>1 DEF RequestTypes, Statements
<1>5. RequestsOK
  BY <1>2, IdleOK DEF RequestsOK
<1>6. \A f : Of(f, Nodes) \subseteq there
  BY <1>1 DEF Of
<1>7. RowsOK
  <2>1. \A n \in Nodes : born[n] # NULL => forms[born[n]] # NULL
    BY <1>1
  <2>2. ASSUME NEW n \in Nodes, nodes[n] # NULL PROVE nodes[n].parent \in Of(nodes[n].form, Side(n)) \cup {NULL}
    <3>1. n \in there /\ nodes[n].form = SeedForm /\ nodes[n].parent \in (there \cap Side(n)) \cup {NULL}
      BY <1>0, <1>1, <2>2
    <3>2. \A m \in there : nodes[m] # NULL /\ nodes[m].form = SeedForm
      BY <1>0, <1>1
    <3> QED  BY <3>1, <3>2 DEF Of
  <2> QED  BY <2>1, <2>2 DEF RowsOK
<1>8. ForestsOK
  <2> SUFFICES ASSUME NEW f \in Forms, NEW T \in {Indicators, Attributes}, NEW S \in (SUBSET Of(f, T)) \ {{}}
               PROVE  Rooted(S)
    BY DEF ForestsOK
  <2>1. S \in (SUBSET there) \ {{}}
    <3>1. T \subseteq Nodes
      BY DEF Nodes
    <3> QED  BY <1>1, <3>1 DEF Of
  <2> QED  BY <1>0, <1>1, <2>1 DEF Rooted
<1>9. CellsOK /\ RulesOK /\ CampaignsOK /\ OneUnitPerIndicator
  <2>1. CellsOK /\ RulesOK /\ CampaignsOK
    BY <1>2 DEF CellsOK, RulesOK, CampaignsOK
  <2>2. \A f : TemplateScopes(f) = {}
    BY <1>2 DEF TemplateScopes, RuleAt
  <2> QED  BY <2>1, <2>2 DEF OneUnitPerIndicator
<1> QED  BY <1>3, <1>4, <1>5, <1>7, <1>8, <1>9 DEF IInv, TypeOK, TablesOK

\* Every step keeps the invariant.
LEMMA NextOK ==
  ASSUME IInv, [Next]_vars
  PROVE  IInv'
<1>1. ASSUME NEW r \in Requests, Requested(r) PROVE IInv'
  BY <1>1, RequestedOK
<1>2. ASSUME NEW r \in Requests, Handle(r) PROVE IInv'
  BY <1>2, HandleOK
<1>3. ASSUME NEW r \in Requests, Crash(r) PROVE IInv'
  BY <1>3, EndStep DEF Crash
<1>4. ASSUME NEW f \in Forms, MakeCampaign(f) PROVE IInv'
  BY <1>4, MakeCampaignOK
<1>5. ASSUME UNCHANGED vars PROVE IInv'
  <2>1. /\ Still /\ pc' = pc /\ job' = job /\ copy' = copy /\ base' = base /\ work' = work
    BY <1>5 DEF vars, memory, Still, IInv, TypeOK, TableTypes
  <2>2. TypeOK'
    BY <2>1, StillOK DEF IInv, TypeOK, RequestTypes
  <2>3. Grown /\ TablesOK' /\ (\A f : Calm(f)) /\ (\A f : TemplateScopes(f)' = TemplateScopes(f))
        /\ forms' = forms /\ campaigns' = campaigns
    BY <2>1, StillOK
  <2>4. ASSUME NEW q \in Requests PROVE RequestOK(q)'
    <3>1. InHand(q) /\ Walked(q) /\ Alone(q) /\ Locked(q) /\ Same(q)
      BY <2>1 DEF IInv, RequestsOK, RequestOK, Same
    <3> PICK f : f = job[q].form
      OBVIOUS
    <3>2. InHand(q)'
      BY <2>3, <3>1, InHandKept
    <3>3. Walked(q)'
      BY <2>3, <3>1, WalkedKept
    <3>4. Alone(q)'
      BY <2>3, <3>1, AloneKept
    <3>5. Locked(q)'
      BY <2>3, <3>1, LockedKept
    <3> QED  BY <3>2, <3>3, <3>4, <3>5 DEF RequestOK
  <2> QED  BY <2>2, <2>3, <2>4 DEF IInv, RequestsOK
<1> QED  BY <1>1, <1>2, <1>3, <1>4, <1>5 DEF Next

\* The inductive invariant holds in every state: the tables are consistent, and what a
\* request holds and has checked between two of its statements is still true, but for the
\* forms on which two requests were seen to overlap.
THEOREM TemplateInvariant == Spec => []IInv
BY InitOK, NextOK, PTL DEF Spec

\* Rows, overrides, rules, lists and requests keep their types, and a row stays in the form
\* its id was given for, whatever requests interleave or crash.
THEOREM TypeCorrect == Spec => []TypeOK
BY TemplateInvariant, PTL DEF IInv

\* Indicators and attributes are trees (ensureNoIndicatorCycle and its attribute sibling walk up
\* from the new parent before the save): a cycle takes two moves of one form that overlap,
\* or the copy of a form where that happened.
THEOREM Trees == Spec => []TreesAreForests
<1>1. IInv => TreesAreForests
  BY DEF IInv, TablesOK, RowsOK, ForestsOK, CellsOK, TreesAreForests
<1> QED  BY <1>1, TemplateInvariant, PTL

\* One indicator is never given to two units by rules in force (upsertTemplateScopes puts
\* the others out of force in one transaction), but where rules or the type of the form
\* changed under a request that stores them.
THEOREM OneUnit == Spec => []OneUnitPerIndicator
<1>1. IInv => OneUnitPerIndicator
  BY DEF IInv, TablesOK
<1> QED  BY <1>1, TemplateInvariant, PTL

-----------------------------------------------------------------------------
(* What a step may do.                                                     *)

\* A request moves its own counter only.
LEMMA OwnCounter ==
  ASSUME NEW r \in Requests, Requested(r) \/ Handle(r) \/ Crash(r)
  PROVE  pc' = pc \/ \E label : pc' = [pc EXCEPT ![r] = label]
<1>1. ASSUME NEW label, NEW op, NEW f, NEW n, Take(r, label, op, f, n)
      PROVE  \E l : pc' = [pc EXCEPT ![r] = l]
  BY <1>1 DEF Take, Goto
<1>2. ASSUME End(r) PROVE \E l : pc' = [pc EXCEPT ![r] = l]
  BY <1>2 DEF End, Goto
<1>3. ASSUME NEW label, NEW failed, Answer(r, label, failed) PROVE \E l : pc' = [pc EXCEPT ![r] = l]
  BY <1>2, <1>3 DEF Answer, Goto
<1>4. CASE Requested(r)
  <2>1. CASE FormsController(r)
    BY <1>1, <2>1 DEF FormsController, CreateForm, PatchForm, SetOther, MarkFormReady, ArchiveForm, RemoveForm, CopyForm
  <2>2. CASE FormAttributesController(r)
    BY <1>1, <2>2 DEF FormAttributesController, CreateAttribute, PatchAttribute, Revise, RemoveAttribute,
                      ReorderAttributes, Reorder
  <2>3. CASE FormIndicatorsController(r)
    BY <1>1, <2>3 DEF FormIndicatorsController, CreateIndicator, PatchIndicator, Revise, RemoveIndicator,
                      ReorderIndicators, Reorder
  <2>4. CASE FormCellConfigsController(r) \/ TemplateScopeController(r) \/ ImportController(r)
    BY <1>1, <2>4 DEF FormCellConfigsController, UpsertCellConfigs, DeleteCellConfigs, TemplateScopeController,
                      UpsertTemplateScopes, DeleteTemplateScopes, ImportController, Import
  <2>5. CASE IndicatorCatalogController(r) \/ FieldCategoriesController(r)
    BY <1>1, <2>5 DEF IndicatorCatalogController, FieldCategoriesController, CreateListEntry, PatchListEntry,
                      RemoveListEntry
  <2> QED  BY <1>4, <2>1, <2>2, <2>3, <2>4, <2>5 DEF Requested
<1>5. CASE \/ NewForm(r) \/ CopyTree(r) \/ FormLoad(r) \/ FormWrite(r) \/ DropForm(r)
  BY <1>2, <1>5 DEF NewForm, CopyTree, FormLoad, FormWrite, DropForm, Goto
<1>6. CASE Insert(r) \/ Walk(r) \/ SaveLoad(r) \/ SaveWrite(r) \/ Delete(r) \/ ReorderWrite(r)
  <2>1. CASE Insert(r)
    <3>1. End(r) \/ Goto(r, "importRow")
      BY <2>1 DEF Insert
    <3> QED  BY <1>2, <3>1 DEF Goto
  <2>2. CASE Walk(r)
    BY <1>3, <2>2 DEF Walk, Goto
  <2>3. CASE SaveLoad(r) \/ SaveWrite(r) \/ Delete(r) \/ ReorderWrite(r)
    BY <1>2, <1>3, <2>3 DEF SaveLoad, SaveWrite, Delete, ReorderWrite, Goto
  <2> QED  BY <1>6, <2>1, <2>2, <2>3
<1>7. CASE WriteCells(r) \/ EraseCells(r) \/ RulesOff(r) \/ RulesOn(r) \/ EraseRules(r)
  BY <1>2, <1>7 DEF WriteCells, EraseCells, RulesOff, RulesOn, EraseRules, Goto
<1>8. CASE \/ ImportIndicator(r) \/ ImportAttribute(r) \/ ImportLinks(r)
           \/ LinkIndicator(r) \/ LinkAttribute(r) \/ ImportNext(r)
  BY <1>2, <1>8 DEF ImportIndicator, ImportAttribute, ImportLinks, LinkIndicator, LinkAttribute, ImportNext,
                    ImportAs, LinkAs, Goto
<1>9. CASE ListLoad(r) \/ ListWrite(r) \/ ListDrop(r)
  BY <1>2, <1>9 DEF ListLoad, ListWrite, ListDrop, Goto
<1>10. CASE Crash(r)
  BY <1>2, <1>10 DEF Crash
<1> QED  BY <1>4, <1>5, <1>6, <1>7, <1>8, <1>9, <1>10 DEF Handle

\* Whose counter moves has taken the step.
LEMMA Stepped ==
  ASSUME IInv, [Next]_vars, NEW r \in Requests, pc'[r] # pc[r], pc[r] # "idle"
  PROVE  Handle(r) \/ Crash(r)
<1>1. DOMAIN pc = Requests
  BY DEF IInv, TypeOK, RequestTypes
<1>2. ~UNCHANGED vars /\ \A f \in Forms : ~MakeCampaign(f)
  BY DEF vars, MakeCampaign
<1>3. PICK q \in Requests : Requested(q) \/ Handle(q) \/ Crash(q)
  BY <1>2 DEF Next
<1>4. q = r
  <2>1. pc' = pc \/ \E label : pc' = [pc EXCEPT ![q] = label]
    BY <1>3, OwnCounter
  <2> QED  BY <1>1, <2>1
<1>5. ~Requested(r)
  BY DEF Requested
<1> QED  BY <1>3, <1>4, <1>5

\* The statement that comes next is the one that is executed.
LEMMA Executed ==
  ASSUME NEW r \in Requests, Handle(r)
  PROVE  /\ pc[r] = "reorder" => ReorderWrite(r)
         /\ pc[r] = "cells" => WriteCells(r)
         /\ pc[r] = "copyTree" => CopyTree(r)
BY DEF Handle, NewForm, CopyTree, FormLoad, FormWrite, DropForm, Insert, Walk, SaveLoad, SaveWrite, Delete,
       ReorderWrite, WriteCells, EraseCells, RulesOff, RulesOn, EraseRules, ImportIndicator, ImportAttribute,
       ImportLinks, LinkIndicator, LinkAttribute, ImportNext, ListLoad, ListWrite, ListDrop

\* An override is shown as it is stored: one with a formula is closed already.
LEMMA ShownConfig ==
  ASSUME NEW v \in CellConfig, v.formula # NULL => ~v.editable,
         NEW shown, shown = [v EXCEPT !.editable = @ /\ v.formula = NULL]
  PROVE  /\ shown.type = v.type /\ shown.required = v.required /\ shown.formula = v.formula
         /\ shown.editable = v.editable
<1>1. v.editable \in BOOLEAN /\ DOMAIN v = {"type", "required", "editable", "formula"}
  BY DEF CellConfig
<1> PICK editable : editable = (v.editable /\ v.formula = NULL)
  OBVIOUS
<1>2. editable = v.editable
  BY <1>1, Zenon
<1>3. shown = [v EXCEPT !.editable = editable]
  BY Zenon
<1> QED  BY <1>1, <1>2, <1>3

\* The fields of an override that is stored.
LEMMA NormalizedFields ==
  ASSUME NEW item \in CellItemDto, NEW old \in CellConfig, NEW new, new = Normalized(item, old)
  PROVE  /\ new.type = IF item.type = UNSET THEN old.type ELSE item.type
         /\ new.required = IF item.required = UNSET THEN old.required ELSE item.required
         /\ new.formula = IF item.formula = UNSET THEN old.formula ELSE item.formula
         /\ new.formula = NULL => new.editable = IF item.readOnly = UNSET THEN old.editable ELSE ~item.readOnly
<1> DEFINE formula == IF item.formula # UNSET THEN item.formula ELSE old.formula
           type == IF item.type # UNSET THEN item.type ELSE old.type
           required == IF item.required # UNSET THEN item.required ELSE old.required
           editable == formula = NULL /\ IF item.readOnly # UNSET THEN ~item.readOnly ELSE old.editable
<1>1. new = [type |-> type, required |-> required, editable |-> editable, formula |-> formula]
  BY DEF Normalized
<1>2. /\ formula = IF item.formula = UNSET THEN old.formula ELSE item.formula
      /\ type = IF item.type = UNSET THEN old.type ELSE item.type
      /\ required = IF item.required = UNSET THEN old.required ELSE item.required
  BY Zenon
<1>3. formula = NULL => editable = IF item.readOnly = UNSET THEN old.editable ELSE ~item.readOnly
  <2>1. old.editable \in BOOLEAN
    BY DEF CellConfig
  <2> QED  BY <2>1, Zenon
<1> HIDE DEF formula, type, required, editable
<1>4. new.type = type /\ new.required = required /\ new.formula = formula /\ new.editable = editable
  BY <1>1
<1> QED  BY <1>2, <1>3, <1>4, Zenon

\* After a change of overrides a cell is configured as it was asked for.
LEMMA CellsStepAsAsked ==
  ASSUME IInv, [Next]_vars, NEW r \in Requests, pc[r] = "cells", pc'[r] = "idle", cells' # cells,
         NEW c \in DOMAIN work[r], nodes[c[1]].kind # "TITLE",
         NEW item, item = work[r][c], NEW old, old = EffectiveConfig(c), NEW new, new = EffectiveConfig(c)'
  PROVE  /\ new.type = IF item.type = UNSET THEN old.type ELSE item.type
         /\ new.required = IF item.required = UNSET THEN old.required ELSE item.required
         /\ new.formula = IF item.formula = UNSET THEN old.formula ELSE item.formula
         /\ new.formula # NULL => ~new.editable
         /\ new.formula = NULL => new.editable = IF item.readOnly = UNSET THEN old.editable
                                                 ELSE ~item.readOnly
<1>1. WriteCells(r)
  <2>1. Handle(r) \/ Crash(r)
    BY Stepped
  <2>2. ~Crash(r)
    BY DEF Crash, tables
  <2> QED  BY <2>1, <2>2, Executed
<1> PICK items : items = work[r]
  OBVIOUS
<1> DEFINE was == IF cells[c] = NULL THEN BaseConfig ELSE cells[c]
<1> PICK now : now = Normalized(item, was)
  OBVIOUS
<1>2. c \in Cells /\ item \in CellItemDto
  BY DEF IInv, RequestsOK, RequestOK, InHand, CellsInHand
<1>3. nodes' = nodes /\ cells'[c] = IF now = BaseConfig THEN NULL ELSE now
  <2>1. cells' = [d \in Cells |->
                    IF d \notin DOMAIN items THEN cells[d]
                    ELSE IF Normalized(items[d], IF cells[d] = NULL THEN BaseConfig ELSE cells[d]) = BaseConfig
                    THEN NULL
                    ELSE Normalized(items[d], IF cells[d] = NULL THEN BaseConfig ELSE cells[d])]
    BY <1>1 DEF WriteCells
  <2> QED  BY <1>1, <1>2, <2>1 DEF WriteCells
<1>4. BaseConfig \in CellConfig /\ BaseConfig.formula = NULL /\ NULL \notin CellConfig
  BY NullAssumption DEF BaseConfig, CellConfig
<1>5. was \in CellConfig /\ (was.formula # NULL => ~was.editable)
  BY <1>2, <1>4 DEF IInv, TypeOK, TableTypes, TablesOK, CellsOK
<1>6. now \in CellConfig /\ (now.formula # NULL => ~now.editable)
  BY <1>2, <1>5, NormalizedType
<1>7. old.type = was.type /\ old.required = was.required /\ old.formula = was.formula /\ old.editable = was.editable
  <2>1. CASE cells[c] = NULL
    BY <2>1 DEF EffectiveConfig
  <2>2. CASE cells[c] # NULL
    <3>1. old = [was EXCEPT !.editable = @ /\ was.formula = NULL]
      BY <2>2, Zenon DEF EffectiveConfig
    <3> HIDE DEF was
    <3> QED  BY <1>5, <3>1, ShownConfig
  <2> QED  BY <2>1, <2>2
<1>8. new.type = now.type /\ new.required = now.required /\ new.formula = now.formula /\ new.editable = now.editable
  <2>1. CASE now = BaseConfig
    BY <1>3, <2>1 DEF EffectiveConfig, BaseConfig
  <2>2. CASE now # BaseConfig
    <3>1. cells'[c] = now /\ now # NULL
      BY <1>3, <1>4, <1>6, <2>2
    <3>2. new = [now EXCEPT !.editable = @ /\ now.formula = NULL]
      BY <1>3, <3>1, Zenon DEF EffectiveConfig
    <3> QED  BY <1>6, <3>2, ShownConfig
  <2> QED  BY <2>1, <2>2
<1>9. /\ now.type = IF item.type = UNSET THEN was.type ELSE item.type
      /\ now.required = IF item.required = UNSET THEN was.required ELSE item.required
      /\ now.formula = IF item.formula = UNSET THEN was.formula ELSE item.formula
      /\ now.formula = NULL => now.editable = IF item.readOnly = UNSET THEN was.editable ELSE ~item.readOnly
  BY <1>2, <1>5, NormalizedFields
<1> HIDE DEF was
<1> QED  BY <1>6, <1>7, <1>8, <1>9, Zenon

\* upsertCellConfigs writes the overrides as it was asked to, closes the cells that have a
\* formula, and writes nothing for a row or a column that is gone.
THEOREM CellsAsAsked == Spec => CellAsAsked
<1>1. IInv /\ [Next]_vars =>
        [\A r \in Requests :
           pc[r] = "cells" /\ pc'[r] = "idle" /\ cells' # cells =>
             \A c \in DOMAIN work[r] :
               LET item == work[r][c]
                   old == EffectiveConfig(c)
                   new == EffectiveConfig(c)'
               IN  nodes[c[1]].kind # "TITLE" =>
                   /\ new.type = IF item.type = UNSET THEN old.type ELSE item.type
                   /\ new.required = IF item.required = UNSET THEN old.required ELSE item.required
                   /\ new.formula = IF item.formula = UNSET THEN old.formula ELSE item.formula
                   /\ new.formula # NULL => ~new.editable
                   /\ new.formula = NULL => new.editable = IF item.readOnly = UNSET THEN old.editable
                                                           ELSE ~item.readOnly]_vars
  BY CellsStepAsAsked
<1> QED  BY <1>1, TemplateInvariant, PTL DEF Spec, CellAsAsked

\* The rows of the new form are the copies, one for each row that was read.
LEMMA CopyStepMirrors ==
  ASSUME IInv, [Next]_vars, NEW r \in Requests, NEW f \in Forms,
         pc[r] = "copyTree", pc'[r] = "idle", forms[f] = NULL, forms'[f] # NULL,
         NEW S \in {Indicators, Attributes}
  PROVE  Mirrored([n \in DOMAIN work[r] \cap S |-> work[r][n]],
                  {n \in S : nodes'[n] # NULL /\ nodes'[n].form = f})
<1> PICK rows : rows = [n \in DOMAIN work[r] \cap S |-> work[r][n]]
  OBVIOUS
<1> PICK new : new = {n \in S : nodes'[n] # NULL /\ nodes'[n].form = f}
  OBVIOUS
<1>1. CopyTree(r)
  <2>1. Handle(r) \/ Crash(r)
    BY Stepped
  <2>2. ~Crash(r)
    BY DEF Crash, tables
  <2> QED  BY <2>1, <2>2, Executed
<1>2. PICK g, k : Copying(r, g, k)
  BY <1>1, CopyWritten
<1> PICK all : all = work[r]
  OBVIOUS
<1>3. /\ g \in Forms /\ forms[g] = NULL /\ forms' = [forms EXCEPT ![g] = copy[r]]
      /\ DOMAIN all \subseteq Nodes
      /\ \A x, y \in DOMAIN all : k[x] = k[y] => x = y
      /\ \A n \in Nodes \ {k[x] : x \in DOMAIN all} : nodes'[n] = nodes[n]
      /\ \A x \in DOMAIN all :
           /\ k[x] \in Nodes /\ Side(k[x]) = Side(x) /\ x \in Side(x) /\ k[x] \in Side(x)
           /\ nodes'[k[x]] # NULL /\ nodes'[k[x]].form = g
           /\ nodes'[k[x]].parent = IF all[x].parent = NULL THEN NULL ELSE k[all[x].parent]
           /\ nodes'[k[x]].code = all[x].code /\ nodes'[k[x]].sort = all[x].sort
           /\ all[x].parent # NULL => all[x].parent \in DOMAIN all \cap Side(x)
  BY <1>2 DEF Copying
<1>4. g = f
  BY <1>3 DEF IInv, TypeOK, TableTypes
<1>5. DOMAIN rows = DOMAIN all \cap S /\ \A x \in DOMAIN rows : rows[x] = all[x]
  OBVIOUS
<1>6. S \subseteq Nodes /\ \A n \in Nodes : n \in S <=> Side(n) = S
  BY Sides, IdsAssumption DEF Nodes, Side
<1> DEFINE m == [x \in DOMAIN rows |-> k[x]]
<1>7. \A n \in new : \E x \in DOMAIN rows : k[x] = n
  <2> SUFFICES ASSUME NEW n \in new PROVE \E x \in DOMAIN rows : k[x] = n
    OBVIOUS
  <2>1. n \in S /\ n \in Nodes /\ nodes'[n] # NULL /\ nodes'[n].form = f
    BY <1>6
  <2>2. nodes'[n] # nodes[n]
    BY <1>3, <1>4, <2>1, NothingOf
  <2>3. PICK x \in DOMAIN all : k[x] = n
    BY <1>3, <2>1, <2>2
  <2>4. x \in S
    BY <1>3, <1>6, <2>1, <2>3
  <2> QED  BY <1>5, <2>3, <2>4
<1>8. \A x \in DOMAIN rows : k[x] \in new
  BY <1>3, <1>4, <1>5, <1>6
<1>9. m \in [DOMAIN rows -> new] /\ \A x, y \in DOMAIN rows : m[x] = m[y] => x = y
  BY <1>3, <1>5, <1>8
<1>10. \A n \in DOMAIN rows :
         /\ nodes'[m[n]].code = rows[n].code
         /\ nodes'[m[n]].sort = rows[n].sort
         /\ nodes'[m[n]].parent = IF rows[n].parent = NULL THEN NULL ELSE m[rows[n].parent]
  <2> SUFFICES ASSUME NEW n \in DOMAIN rows
               PROVE  /\ nodes'[k[n]].code = rows[n].code
                      /\ nodes'[k[n]].sort = rows[n].sort
                      /\ nodes'[k[n]].parent = IF rows[n].parent = NULL THEN NULL ELSE m[rows[n].parent]
    OBVIOUS
  <2>1. n \in DOMAIN all /\ rows[n] = all[n] /\ Side(n) = S
    BY <1>3, <1>5, <1>6
  <2>2. rows[n].parent # NULL => rows[n].parent \in DOMAIN rows
    BY <1>3, <1>5, <2>1
  <2> QED  BY <1>3, <2>1, <2>2
<1>11. Cardinality(new) = Cardinality(DOMAIN rows)
  <2>1. \A t \in new : \E s \in DOMAIN rows : m[s] = t
    BY <1>7
  <2> HIDE DEF m
  <2>2. m \in Bijection(DOMAIN rows, new)
    BY <1>9, <2>1, Fun_IsBij
  <2>3. ExistsBijection(DOMAIN rows, new)
    BY <2>2 DEF ExistsBijection
  <2>4. IsFiniteSet(DOMAIN rows)
    BY <1>3, <1>5, FiniteRows
  <2> QED  BY <2>3, <2>4, FS_Bijection
<1> HIDE DEF m
<1>12. Mirrored(rows, new)
  BY <1>9, <1>10, <1>11 DEF Mirrored
<1> QED  BY <1>12, Zenon

\* copyForm gives the new form one row for each row it read, of the same code and number
\* and under the copy of the same parent.
THEOREM CopiesMirror == Spec => CopyMirrors
<1>1. IInv /\ [Next]_vars =>
        [\A r \in Requests, f \in Forms :
           pc[r] = "copyTree" /\ pc'[r] = "idle" /\ forms[f] = NULL /\ forms'[f] # NULL =>
             \A S \in {Indicators, Attributes} :
               Mirrored([n \in DOMAIN work[r] \cap S |-> work[r][n]],
                        {n \in S : nodes'[n] # NULL /\ nodes'[n].form = f})]_vars
  BY CopyStepMirrors
<1> QED  BY <1>1, TemplateInvariant, PTL DEF Spec, CopyMirrors

\* The parent an item of the list asks for.
LEMMA AskedParent ==
  ASSUME NEW rows, NEW items \in Seq(ReorderItemDto), Acceptable(rows, items), NEW i \in DOMAIN items
  PROVE  /\ items[i].id \in DOMAIN rows /\ Listed(items, items[i].id) /\ At(items, items[i].id) = i
         /\ Effective(rows, items, items[i].id) = IF items[i].parent = UNSET THEN rows[items[i].id].parent
                                                  ELSE items[i].parent
<1>1. items[i].id \in DOMAIN rows /\ Listed(items, items[i].id)
  BY DEF Acceptable, Listed
<1>2. At(items, items[i].id) = i
  <2>1. At(items, items[i].id) \in DOMAIN items /\ items[At(items, items[i].id)].id = items[i].id
    BY <1>1, ListedAt
  <2> QED  BY <2>1 DEF Acceptable
<1> QED  BY <1>1, <1>2 DEF Effective

\* A reorder of rows that are still as they were read numbers them as asked.
LEMMA ReorderAsAsked ==
  ASSUME IInv, NEW r \in Requests, ReorderWrite(r), nodes' # nodes,
         \A n \in DOMAIN work[r].rows : nodes[n] = work[r].rows[n]
  PROVE  Reordered(work[r].rows, work[r].items)
<1> PICK rows : rows = work[r].rows
  OBVIOUS
<1> PICK items : items = work[r].items
  OBVIOUS
<1>1. /\ DOMAIN rows \subseteq Nodes
      /\ \A n \in DOMAIN rows : rows[n] \in RowOf(n) /\ rows[n].parent \in DOMAIN rows \cup {NULL}
      /\ items \in Seq(ReorderItemDto) /\ Acceptable(rows, items)
  BY DEF ReorderWrite, IInv, RequestsOK, RequestOK, InHand, OrderInHand, Ids, Nodes
<1>2. \A n \in DOMAIN rows : n \in Nodes /\ nodes[n] = rows[n] /\ rows[n] # NULL /\ rows[n].sort \in Nat
  BY <1>1, Rows DEF RowOf
<1>3. \A n \in DOMAIN rows :
        /\ nodes'[n].parent = Effective(rows, items, n)
        /\ nodes'[n].sort = IF Effective(rows, items, n) \in Affected(rows, items) THEN NewSort(rows, items, n)
                            ELSE rows[n].sort
  <2> SUFFICES ASSUME NEW n \in DOMAIN rows
               PROVE  /\ nodes'[n].parent = Effective(rows, items, n)
                      /\ nodes'[n].sort = IF Effective(rows, items, n) \in Affected(rows, items)
                                          THEN NewSort(rows, items, n) ELSE rows[n].sort
    OBVIOUS
  <2> PICK p : p = Effective(rows, items, n)
    OBVIOUS
  <2>1. LET asked == Listed(items, n) /\ items[At(items, n)].parent # UNSET
        IN  /\ asked => nodes'[n].parent = p
            /\ ~asked => nodes'[n].parent = nodes[n].parent /\ p = rows[n].parent
            /\ nodes'[n].sort = IF p \in Affected(rows, items) THEN NewSort(rows, items, n) ELSE nodes[n].sort
    BY <1>2, OrderWritten
  <2> QED  BY <1>2, <2>1
<1>4. \A p : {n \in DOMAIN rows : nodes'[n].parent = p} = Children(rows, items, p)
  BY <1>3 DEF Children
<1>5. Affected(rows, items) = {rows[items[i].id].parent : i \in DOMAIN items}
                                \cup {nodes'[items[i].id].parent : i \in DOMAIN items}
  BY <1>1, <1>3, AskedParent DEF Affected
<1> PICK touched : touched = Affected(rows, items)
  OBVIOUS
<1>6. \A i \in DOMAIN items :
        /\ items[i].id \in DOMAIN rows /\ Listed(items, items[i].id) /\ At(items, items[i].id) = i
        /\ nodes'[items[i].id].parent = IF items[i].parent = UNSET THEN rows[items[i].id].parent
                                        ELSE items[i].parent
        /\ nodes'[items[i].id].parent \in touched
  BY <1>1, <1>3, <1>5, AskedParent
<1>7. \A n \in DOMAIN rows : ~Listed(items, n) => nodes'[n].parent = rows[n].parent
  BY <1>3 DEF Effective
<1>8. ASSUME NEW p \in touched
      PROVE  /\ {nodes'[n].sort : n \in Children(rows, items, p)} = 0..(Cardinality(Children(rows, items, p)) - 1)
             /\ \A m, n \in ListedOf(items, Children(rows, items, p)) :
                  At(items, m) < At(items, n) => nodes'[m].sort < nodes'[n].sort
             /\ \A m, n \in Children(rows, items, p) \ ListedOf(items, Children(rows, items, p)) :
                  Before(rows, m, n) => nodes'[m].sort < nodes'[n].sort
  <2> PICK S : S = Children(rows, items, p)
    OBVIOUS
  <2>1. /\ \A n \in S : NewSort(rows, items, n) \in 0..(Cardinality(S) - 1)
        /\ \A k \in 0..(Cardinality(S) - 1) : \E n \in S : NewSort(rows, items, n) = k
        /\ \A m, n \in ListedOf(items, S) : At(items, m) < At(items, n) => NewSort(rows, items, m) < NewSort(rows, items, n)
        /\ \A m, n \in S \ ListedOf(items, S) :
             Before(rows, m, n) => NewSort(rows, items, m) < NewSort(rows, items, n)
    BY <1>1, <1>2, NewSortFacts
  <2>2. \A n \in S : nodes'[n].sort = NewSort(rows, items, n)
    BY <1>3 DEF Children
  <2>3. ListedOf(items, S) \subseteq S
    BY DEF ListedOf
  <2>4. {nodes'[n].sort : n \in S} = 0..(Cardinality(S) - 1)
    BY <2>1, <2>2
  <2> QED  BY <2>1, <2>2, <2>3, <2>4
<1>9. ASSUME NEW i \in DOMAIN items, NEW j \in DOMAIN items, i < j,
             nodes'[items[i].id].parent = nodes'[items[j].id].parent
      PROVE  nodes'[items[i].id].sort < nodes'[items[j].id].sort
  <2> PICK p : p = nodes'[items[i].id].parent
    OBVIOUS
  <2>1. p \in touched /\ \A k \in {i, j} : items[k].id \in ListedOf(items, Children(rows, items, p))
    BY <1>3, <1>6, <1>9 DEF ListedOf, Children
  <2>2. At(items, items[i].id) = i /\ At(items, items[j].id) = j
    BY <1>6
  <2> QED  BY <1>8, <1>9, <2>1, <2>2
<1>10. ASSUME NEW p \in touched,
              NEW m \in {x \in Children(rows, items, p) : ~Listed(items, x)},
              NEW n \in {x \in Children(rows, items, p) : ~Listed(items, x)}, Before(rows, m, n)
       PROVE  nodes'[m].sort < nodes'[n].sort
  <2>1. \A x \in {m, n} : x \in Children(rows, items, p) \ ListedOf(items, Children(rows, items, p))
    BY DEF ListedOf
  <2> QED  BY <1>8, <1>10, <2>1
<1>11. \A n : Listed(items, n) <=> \E i \in DOMAIN items : items[i].id = n
  BY DEF Listed
<1> DEFINE siblings(p) == {n \in DOMAIN rows : nodes'[n].parent = p}
           listed(n) == \E i \in DOMAIN items : items[i].id = n
           places == {rows[items[i].id].parent : i \in DOMAIN items}
                       \cup {nodes'[items[i].id].parent : i \in DOMAIN items}
<1>12. \A n : listed(n) <=> Listed(items, n)
  BY <1>11
<1>13. \A p : siblings(p) = Children(rows, items, p)
  BY <1>4
<1>14. places = touched
  BY <1>5
<1> HIDE DEF siblings, listed, places
<1>15. \A p \in places : {nodes'[n].sort : n \in siblings(p)} = 0..(Cardinality(siblings(p)) - 1)
  BY <1>8, <1>13, <1>14
<1>16. \A p \in places : \A m, n \in {x \in siblings(p) : ~listed(x)} :
         Before(rows, m, n) => nodes'[m].sort < nodes'[n].sort
  BY <1>10, <1>12, <1>13, <1>14
<1>17. \A n \in DOMAIN rows : ~listed(n) => nodes'[n].parent = rows[n].parent
  BY <1>7, <1>12
<1>18. \A i, j \in DOMAIN items :
         LET m == items[i].id
             n == items[j].id
         IN  i < j /\ nodes'[m].parent = nodes'[n].parent => nodes'[m].sort < nodes'[n].sort
  BY <1>9
<1>19. \A i \in DOMAIN items :
         nodes'[items[i].id].parent = IF items[i].parent = UNSET THEN rows[items[i].id].parent
                                      ELSE items[i].parent
  BY <1>6
<1>20. Reordered(rows, items)
  BY <1>15, <1>16, <1>17, <1>18, <1>19, Zenon DEF Reordered, siblings, listed, places
<1> QED  BY <1>20, Zenon

\* A reorder leaves the rows it read in the order and under the parents that were asked for,
\* and keeps the order of the rows it was not asked to number.
THEOREM OrdersAsAsked == Spec => OrderAsAsked
<1>1. IInv /\ [Next]_vars =>
        [\A r \in Requests :
           pc[r] = "reorder" /\ pc'[r] = "idle" /\ nodes' # nodes
             /\ (\A n \in DOMAIN work[r].rows : nodes[n] = work[r].rows[n])
           => Reordered(work[r].rows, work[r].items)]_vars
  <2> SUFFICES ASSUME IInv, [Next]_vars, NEW r \in Requests,
                      pc[r] = "reorder", pc'[r] = "idle", nodes' # nodes,
                      \A n \in DOMAIN work[r].rows : nodes[n] = work[r].rows[n]
               PROVE  Reordered(work[r].rows, work[r].items)
    OBVIOUS
  <2>1. Handle(r) \/ Crash(r)
    BY Stepped
  <2>2. ~Crash(r)
    BY DEF Crash, tables
  <2>3. ReorderWrite(r)
    BY <2>1, <2>2, Executed
  <2> QED  BY <2>3, ReorderAsAsked
<1> QED  BY <1>1, TemplateInvariant, PTL DEF Spec, OrderAsAsked

\* The step writes nothing that a reader of form f is shown.
Untouched(f) ==
  /\ forms'[f] # NULL /\ forms'[f].type = forms[f].type /\ forms'[f].deleted = forms[f].deleted
  /\ \A n \in Nodes : nodes'[n] # nodes[n] =>
       \/ born[n] # f /\ born'[n] # f
       \/ /\ nodes[n] # NULL /\ nodes'[n] # NULL /\ nodes'[n].parent = nodes[n].parent
          /\ nodes'[n].sort = nodes[n].sort /\ nodes'[n].code = nodes[n].code
          /\ nodes'[n].kind = nodes[n].kind /\ nodes'[n].form = nodes[n].form
  /\ \A c \in Cells : cells'[c] # cells[c] => born[c[1]] # f
  /\ \A p \in Orgs \X Indicators : rules'[p] # rules[p] => born[p[2]] # f

\* A form that is not touched is shown as it was.
LEMMA UntouchedShown ==
  ASSUME TableTypes, TableTypes', NEW f \in Forms, forms[f] # NULL, Untouched(f)
  PROVE  FindOneForm(f)' = FindOneForm(f) /\ (Live(f)' <=> Live(f))
<1>1. ASSUME NEW n \in Nodes
      PROVE  /\ n \in Of(f, Nodes)' <=> n \in Of(f, Nodes)
             /\ n \in Of(f, Nodes) =>
                  /\ nodes'[n].parent = nodes[n].parent /\ nodes'[n].sort = nodes[n].sort
                  /\ nodes'[n].code = nodes[n].code /\ nodes'[n].kind = nodes[n].kind
  BY RowTable DEF Untouched, Of, TableTypes
<1>2. /\ Of(f, Indicators)' = Of(f, Indicators) /\ Of(f, Attributes)' = Of(f, Attributes)
      /\ Of(f, Indicators) \subseteq Of(f, Nodes) /\ Of(f, Attributes) \subseteq Of(f, Nodes)
      /\ Of(f, Nodes) \subseteq Nodes
  BY <1>1 DEF Of, Nodes
<1>3. \A n \in Of(f, Nodes) : born[n] = f
  BY RowTable DEF Of
<1>4. [n \in Of(f, Attributes)' |-> MapAttribute(n)'] = [n \in Of(f, Attributes) |-> MapAttribute(n)]
  <2>1. \A n \in Of(f, Attributes) : MapAttribute(n)' = MapAttribute(n)
    BY <1>1, <1>2 DEF MapAttribute
  <2> QED  BY <1>2, <2>1
<1>5. [n \in Of(f, Indicators)' |-> MapIndicator(n)'] = [n \in Of(f, Indicators) |-> MapIndicator(n)]
  <2>1. \A n \in Of(f, Indicators) : MapIndicator(n)' = MapIndicator(n)
    BY <1>1, <1>2 DEF MapIndicator
  <2> QED  BY <1>2, <2>1
<1> DEFINE D == {d \in Cells : cells[d] # NULL /\ d[1] \in Of(f, Indicators)}
<1>6. [c \in D' |-> MapCellConfig(c)'] = [c \in D |-> MapCellConfig(c)]
  <2>1. \A d \in Cells : d[1] \in Of(f, Indicators) => cells'[d] = cells[d]
    BY <1>2, <1>3 DEF Untouched
  <2>2. D' = D
    BY <1>2, <2>1
  <2>3. \A c \in D : MapCellConfig(c)' = MapCellConfig(c)
    BY <2>1 DEF MapCellConfig
  <2> QED  BY <2>2, <2>3
<1>7. TemplateScopes(f)' = TemplateScopes(f)
  <2>1. DOMAIN rules = Orgs \X Indicators /\ DOMAIN rules' = Orgs \X Indicators
    BY DEF TableTypes
  <2>2. \A p \in Orgs \X Indicators : p[2] \in Of(f, Indicators) => rules'[p] = rules[p]
    BY <1>2, <1>3 DEF Untouched
  <2>3. RuleAt(f)' = RuleAt(f) /\ \A p \in RuleAt(f) : rules'[p] = rules[p]
    BY <1>2, <2>1, <2>2 DEF RuleAt
  <2> QED  BY <2>3, Zenon DEF TemplateScopes
<1>8. forms'[f].type = forms[f].type /\ (Live(f)' <=> Live(f))
  BY DEF Untouched, Live
<1> QED  BY <1>4, <1>5, <1>6, <1>7, <1>8, Zenon DEF FindOneForm

\* A step that writes no table touches no form.
LEMMA QuietTouch ==
  ASSUME NEW f, forms[f] # NULL, UNCHANGED tables
  PROVE  Untouched(f)
BY DEF Untouched, tables

\* A request is taken without writing.
LEMMA RequestedReads ==
  ASSUME NEW r \in Requests, Requested(r)
  PROVE  UNCHANGED tables
<1>1. ASSUME NEW label, NEW op, NEW f, NEW n, Take(r, label, op, f, n)
      PROVE  UNCHANGED tables
  BY <1>1 DEF Take
<1>2. CASE FormsController(r)
  BY <1>1, <1>2 DEF FormsController, CreateForm, PatchForm, SetOther, MarkFormReady, ArchiveForm, RemoveForm, CopyForm
<1>3. CASE FormAttributesController(r)
  BY <1>1, <1>3 DEF FormAttributesController, CreateAttribute, PatchAttribute, Revise, RemoveAttribute,
                    ReorderAttributes, Reorder
<1>4. CASE FormIndicatorsController(r)
  BY <1>1, <1>4 DEF FormIndicatorsController, CreateIndicator, PatchIndicator, Revise, RemoveIndicator,
                    ReorderIndicators, Reorder
<1>5. CASE FormCellConfigsController(r) \/ TemplateScopeController(r) \/ ImportController(r)
  BY <1>1, <1>5 DEF FormCellConfigsController, UpsertCellConfigs, DeleteCellConfigs, TemplateScopeController,
                    UpsertTemplateScopes, DeleteTemplateScopes, ImportController, Import
<1>6. CASE IndicatorCatalogController(r) \/ FieldCategoriesController(r)
  BY <1>1, <1>6 DEF IndicatorCatalogController, FieldCategoriesController, CreateListEntry, PatchListEntry,
                    RemoveListEntry
<1> QED  BY <1>2, <1>3, <1>4, <1>5, <1>6 DEF Requested

\* A form that may not change any more: it has campaigns, and none came under an edit.
Closed(f) == f \in Forms /\ campaigns[f] # NULL /\ f \notin surprised

\* A statement on the structure is one on another form.
LEMMA EditsElsewhere ==
  ASSUME IInv, NEW f, Closed(f)
  PROVE  /\ forms[f] # NULL /\ forms[f] \in FormRow /\ ~forms[f].deleted
         /\ \A r \in Requests : pc[r] \notin WithoutForm \cup {"importRow", "importLink", "copyTree", "formLoad", "formWrite"}
              => job[r].form # f
BY DEF Closed, IInv, RequestsOK, RequestOK, Locked, WithoutForm, TablesOK, CampaignsOK, TypeOK, TableTypes

\* Statements on forms leave a closed form as it is shown.
LEMMA FormsUntouched ==
  ASSUME IInv, IInv', NEW r \in Requests, NEW f, Closed(f),
         NewForm(r) \/ CopyTree(r) \/ FormWrite(r) \/ DropForm(r) \/ ListDrop(r) \/ ListWrite(r)
  PROVE  Untouched(f)
<1>1. f \in Forms /\ forms[f] # NULL /\ forms[f] \in FormRow /\ ~forms[f].deleted
  BY EditsElsewhere DEF Closed
<1>2. TableTypes /\ TableTypes'
  BY DEF IInv, TypeOK
<1>3. CASE NewForm(r)
  <2>1. UNCHANGED <<cells, rules>>
    BY <1>3 DEF NewForm
  <2>2. CASE UNCHANGED <<forms, nodes, born>>
    BY <1>1, <2>1, <2>2 DEF Untouched
  <2>3. CASE ~UNCHANGED <<forms, nodes, born>>
    <3> DEFINE ids == Fresh(Attributes)
               row(g, n) == [form |-> g, parent |-> NULL, sort |-> n, code |-> NULL,
                             kind |-> "SYSTEM", entry |-> NULL]
    <3> PICK g : g = CHOOSE h \in Forms : forms[h] = NULL
      OBVIOUS
    <3> PICK a : a = CHOOSE n \in ids : TRUE
      OBVIOUS
    <3> PICK b : b = CHOOSE n \in ids \ {a} : TRUE
      OBVIOUS
    <3>1. /\ \E h \in Forms : forms[h] = NULL
          /\ forms' = [forms EXCEPT ![g] = copy[r]]
          /\ nodes' = [nodes EXCEPT ![a] = row(g, 0), ![b] = row(g, 1)]
          /\ born' = [born EXCEPT ![a] = g, ![b] = g]
      BY <1>3, <2>3 DEF NewForm
    <3>2. g \in Forms /\ g # f
      BY <1>1, <3>1
    <3>3. forms'[f] = forms[f]
      BY <1>1, <3>1, <3>2
    <3>4. ASSUME NEW n \in Nodes, nodes'[n] # nodes[n] PROVE born'[n] = g
      <4>1. n = a \/ n = b
        BY <1>2, <3>1, <3>4 DEF TableTypes
      <4>2. DOMAIN born = Nodes
        BY <1>2 DEF TableTypes
      <4> QED  BY <3>1, <4>1, <4>2
    <3>5. a \in ids /\ b \in ids
      <4>1. ids \in SUBSET Nodes
        BY DEF Fresh, Nodes
      <4>2. IsFiniteSet(ids) /\ Cardinality(ids) >= 2
        BY <1>3, <2>3, <4>1, FiniteRows DEF NewForm
      <4> HIDE DEF ids
      <4>3. ids # {}
        BY <4>2, FS_EmptySet
      <4>4. a \in ids
        BY <4>3
      <4>5. ids # {a}
        <5>1. Cardinality({a}) = 1
          BY FS_Singleton
        <5> QED  BY <4>2, <5>1
      <4> QED  BY <4>4, <4>5
    <3>6. ASSUME NEW n \in Nodes, nodes'[n] # nodes[n] PROVE born[n] # f
      <4>1. n = a \/ n = b
        BY <1>2, <3>1, <3>6 DEF TableTypes
      <4> QED  BY <1>1, <3>5, <4>1, NullAssumption DEF Fresh
    <3> QED  BY <1>1, <2>1, <3>2, <3>3, <3>4, <3>6 DEF Untouched
  <2> QED  BY <2>2, <2>3
<1>4. CASE CopyTree(r)
  <2>1. UNCHANGED <<cells, rules>>
    BY <1>4 DEF CopyTree
  <2>2. CASE UNCHANGED <<forms, nodes, born, crossed>>
    BY <1>1, <2>1, <2>2 DEF Untouched
  <2>3. CASE \E g, m : Copying(r, g, m)
    <3> PICK g, m : Copying(r, g, m)
      BY <2>3
    <3> PICK rows : rows = work[r]
      OBVIOUS
    <3>1. /\ g \in Forms /\ forms[g] = NULL /\ forms' = [forms EXCEPT ![g] = copy[r]]
          /\ \A n \in Nodes \ {m[x] : x \in DOMAIN rows} : nodes'[n] = nodes[n]
          /\ \A x \in DOMAIN rows : born[m[x]] = NULL /\ born'[m[x]] = g
      BY DEF Copying
    <3>2. g # f /\ forms'[f] = forms[f]
      BY <1>1, <1>2, <3>1 DEF TableTypes
    <3>3. ASSUME NEW n \in Nodes, nodes'[n] # nodes[n] PROVE born[n] # f /\ born'[n] # f
      <4>1. PICK x \in DOMAIN rows : n = m[x]
        BY <3>1, <3>3
      <4> QED  BY <1>1, <3>1, <3>2, <4>1, NullAssumption
    <3> QED  BY <1>1, <2>1, <3>2, <3>3 DEF Untouched
  <2> QED  BY <1>4, <2>2, <2>3, CopyWritten
<1>5. CASE FormWrite(r)
  <2> PICK g : g = job[r].form
    OBVIOUS
  <2> PICK row : row = Merge(forms[g], base[r], copy[r])
    OBVIOUS
  <2>1. /\ pc[r] = "formWrite" /\ UNCHANGED <<nodes, born, cells, rules>>
        /\ forms' = [forms EXCEPT ![g] = IF Named(Categories, row.category) THEN row ELSE @]
    BY <1>5 DEF FormWrite
  <2>2. CASE g # f
    BY <1>1, <1>2, <2>1, <2>2 DEF Untouched, TableTypes
  <2>3. CASE g = f
    <3>1. copy[r] \in FormRow /\ ~copy[r].deleted /\ copy[r].type = forms[f].type
      BY <2>1, <2>3 DEF Closed, IInv, RequestsOK, RequestOK, InHand, FormInHand, Locked
    <3>2. row \in FormRow /\ row.type = forms[f].type /\ ~row.deleted
      BY <1>1, <2>3, <3>1, MergeForm
    <3>3. row.deleted = forms[f].deleted
      BY <1>1, <3>2 DEF FormRow
    <3>4. forms'[f] \in {row, forms[f]}
      BY <1>1, <1>2, <2>1, <2>3 DEF TableTypes
    <3> QED  BY <1>1, <2>1, <3>2, <3>3, <3>4, Rows DEF Untouched
  <2> QED  BY <2>2, <2>3
<1>6. CASE DropForm(r)
  <2>1. job[r].form # f
    BY <1>6, EditsElsewhere DEF DropForm, WithoutForm
  <2> QED  BY <1>1, <1>2, <1>6, <2>1 DEF DropForm, Untouched, TableTypes
<1>7. CASE ListDrop(r)
  <2> PICK k : k = job[r].node
    OBVIOUS
  <2>1. Forget(k) /\ UNCHANGED <<born, cells, rules>>
    BY <1>7 DEF ListDrop
  <2>2. forms'[f] # NULL /\ forms'[f].type = forms[f].type /\ forms'[f].deleted = forms[f].deleted
    <3> DEFINE row == [forms[f] EXCEPT !.category = IF @ = k THEN NULL ELSE @]
    <3>1. forms'[f] = row
      BY <1>1, <2>1 DEF Forget
    <3>2. row \in FormRow /\ row.type = forms[f].type /\ row.deleted = forms[f].deleted
      <4>1. (IF forms[f].category = k THEN NULL ELSE forms[f].category) \in Categories \cup {NULL}
        BY <1>1 DEF FormRow
      <4> QED  BY <1>1, <4>1 DEF FormRow
    <3> HIDE DEF row
    <3> QED  BY <3>1, <3>2, Rows
  <2>3. ASSUME NEW n \in Nodes, nodes'[n] # nodes[n]
        PROVE  /\ nodes[n] # NULL /\ nodes'[n] # NULL /\ nodes'[n].parent = nodes[n].parent
               /\ nodes'[n].sort = nodes[n].sort /\ nodes'[n].code = nodes[n].code
               /\ nodes'[n].kind = nodes[n].kind /\ nodes'[n].form = nodes[n].form
    <3> DEFINE row == [nodes[n] EXCEPT !.entry = IF @ = k THEN NULL ELSE @]
    <3>1. nodes[n] # NULL /\ nodes'[n] = row
      BY <2>1, <2>3 DEF Forget
    <3>2. nodes[n] \in IndicatorRow \cup AttributeRow
      BY <1>2, <3>1, RowTable
    <3>3. /\ row \in IndicatorRow \cup AttributeRow
          /\ row.parent = nodes[n].parent /\ row.sort = nodes[n].sort /\ row.code = nodes[n].code
          /\ row.kind = nodes[n].kind /\ row.form = nodes[n].form
      BY <3>2 DEF IndicatorRow, AttributeRow
    <3> HIDE DEF row
    <3> QED  BY <3>1, <3>3, Rows
  <2> QED  BY <2>1, <2>2, <2>3 DEF Untouched
<1>8. CASE ListWrite(r)
  BY <1>1, <1>8 DEF ListWrite, Untouched
<1> QED  BY <1>3, <1>4, <1>5, <1>6, <1>7, <1>8

\* Statements on the trees, the overrides and the rules leave it as it is shown.
LEMMA StructureUntouched ==
  ASSUME IInv, IInv', NEW r \in Requests, NEW f, Closed(f),
         \/ Insert(r) \/ SaveWrite(r) \/ Delete(r) \/ ReorderWrite(r) \/ WriteCells(r) \/ EraseCells(r)
         \/ RulesOn(r) \/ EraseRules(r)
  PROVE  Untouched(f)
<1> PICK g : g = job[r].form
  OBVIOUS
<1>1. f \in Forms /\ forms[f] # NULL
  BY EditsElsewhere DEF Closed
<1>2. TableTypes /\ TableTypes' /\ InHand(r)
  BY DEF IInv, TypeOK, RequestsOK, RequestOK
<1>3. /\ pc[r] \in {"insert", "saveWrite", "delete", "reorder", "cells", "cellsOff", "rulesOn", "rulesErase"}
      /\ forms' = forms
  BY DEF Insert, SaveWrite, Delete, ReorderWrite, WriteCells, EraseCells, RulesOn, EraseRules
<1>4. g # f /\ g \in Forms
  BY <1>2, <1>3, EditsElsewhere DEF WithoutForm, InHand, FormInHand
<1>5. CASE Insert(r)
  <2> PICK ids : ids = Fresh(Target(r))
    OBVIOUS
  <2> PICK n : n = CHOOSE x \in ids : \A m \in ids : x <= m
    OBVIOUS
  <2> DEFINE done == ids # {} /\ Admissible(n, copy[r])
  <2>1. /\ pc[r] = "insert" /\ UNCHANGED <<cells, rules>>
        /\ nodes' = IF done THEN [nodes EXCEPT ![n] = copy[r]] ELSE nodes
        /\ born' = IF done THEN [born EXCEPT ![n] = copy[r].form] ELSE born
    BY <1>5 DEF Insert
  <2> HIDE DEF done
  <2>2. copy[r].form = g
    BY <1>2, <2>1 DEF InHand, RowInHand
  <2>3. ASSUME NEW m \in Nodes, nodes'[m] # nodes[m] PROVE born[m] # f /\ born'[m] # f
    <3>1. m = n /\ done /\ born'[m] = g
      BY <1>2, <2>1, <2>2, <2>3 DEF TableTypes
    <3>2. ids \in SUBSET Nat /\ ids # {} /\ \A x \in ids : born[x] = NULL
      BY <3>1, IdsAssumption DEF Fresh, Target, done
    <3>3. n \in ids
      BY <3>2, LeastNumber
    <3> QED  BY <1>1, <1>4, <3>1, <3>2, <3>3, NullAssumption
  <2> QED  BY <1>1, <1>3, <2>1, <2>3 DEF Untouched
<1>6. CASE SaveWrite(r)
  <2> PICK n : n = job[r].node
    OBVIOUS
  <2>1. /\ pc[r] = "saveWrite" /\ UNCHANGED <<cells, rules, born>>
        /\ \A m \in Nodes : m # n => nodes'[m] = nodes[m]
    BY <1>2, <1>6 DEF SaveWrite, TableTypes
  <2>2. born[n] = g
    BY <1>2, <2>1 DEF InHand, RowInHand, Ids
  <2> QED  BY <1>1, <1>3, <1>4, <2>1, <2>2 DEF Untouched
<1>7. CASE Delete(r)
  <2> PICK n : n = job[r].node
    OBVIOUS
  <2>1. pc[r] = "delete" /\ born' = born /\ (UNCHANGED <<nodes, cells, rules>> \/ Unlink(n))
    BY <1>7 DEF Delete
  <2>2. CASE UNCHANGED <<nodes, cells, rules>>
    BY <1>1, <1>3, <2>2 DEF Untouched
  <2>3. CASE Unlink(n)
    <3>1. n \in Nodes /\ born[n] = g
      BY <1>2, <2>1 DEF InHand, RowInHand, Ids
    <3>2. ASSUME NEW m \in Nodes, nodes'[m] # nodes[m] PROVE born[m] = g
      <4>1. CASE m = n
        BY <3>1, <4>1
      <4>2. CASE m # n
        <5>1. nodes[m] # NULL /\ nodes[m].parent = n
          <6>1. nodes[m] # NULL /\ nodes'[m] = [nodes[m] EXCEPT !.parent = IF @ = n THEN NULL ELSE @]
            BY <2>3, <3>2, <4>2 DEF Unlink
          <6>2. nodes[m] \in IndicatorRow \cup AttributeRow
            BY <1>2, <6>1, RowTable
          <6>3. nodes[m].parent # n => [nodes[m] EXCEPT !.parent = nodes[m].parent] = nodes[m]
            BY <6>2 DEF IndicatorRow, AttributeRow
          <6> QED  BY <3>2, <6>1, <6>3
        <5>2. n \in Of(nodes[m].form, Side(m)) \cup {NULL} /\ n # NULL
          BY <3>1, <5>1, Rows DEF IInv, TablesOK, RowsOK
        <5>3. nodes[n] # NULL /\ nodes[n].form = nodes[m].form
          BY <5>2 DEF Of
        <5> QED  BY <1>2, <3>1, <5>1, <5>3, RowTable
      <4> QED  BY <4>1, <4>2
    <3>3. ASSUME NEW c \in Cells, cells'[c] # cells[c] PROVE born[c[1]] = g
      <4>1. cells[c] # NULL /\ n \in {c[1], c[2]} /\ c[1] \in Nodes /\ c[2] \in Nodes
        BY <2>3, <3>3 DEF Unlink, Cells, Nodes
      <4>2. nodes[c[1]] # NULL /\ nodes[c[2]] # NULL /\ nodes[c[1]].form = nodes[c[2]].form
        BY <4>1 DEF IInv, TablesOK, CellsOK
      <4> QED  BY <1>2, <3>1, <4>1, <4>2, RowTable
    <3>4. ASSUME NEW p \in Orgs \X Indicators, rules'[p] # rules[p] PROVE born[p[2]] = g
      BY <1>2, <2>3, <3>1, <3>4 DEF Unlink, TableTypes
    <3> QED  BY <1>1, <1>3, <1>4, <2>1, <3>2, <3>3, <3>4 DEF Untouched
  <2> QED  BY <2>1, <2>2, <2>3
<1>8. CASE ReorderWrite(r)
  <2> PICK rows : rows = work[r].rows
    OBVIOUS
  <2> PICK items : items = work[r].items
    OBVIOUS
  <2>1. pc[r] = "reorder" /\ UNCHANGED <<born, cells, rules>>
    BY <1>8 DEF ReorderWrite
  <2>2. \A n \in DOMAIN rows : born[n] = g
    BY <1>2, <2>1 DEF InHand, OrderInHand, Ids
  <2>3. \A n \in Nodes \ DOMAIN rows : nodes'[n] = nodes[n]
    BY <1>8, OrderWritten
  <2> QED  BY <1>1, <1>3, <1>4, <2>1, <2>2, <2>3 DEF Untouched
<1>9. CASE WriteCells(r) \/ EraseCells(r)
  <2>1. UNCHANGED <<nodes, born, rules>>
    BY <1>9 DEF WriteCells, EraseCells
  <2>2. ASSUME NEW c \in Cells, cells'[c] # cells[c] PROVE born[c[1]] = g
    <3>1. CASE WriteCells(r)
      <4>1. c \in DOMAIN work[r]
        BY <2>2, <3>1 DEF WriteCells
      <4> QED  BY <1>2, <3>1, <4>1 DEF WriteCells, InHand, CellsInHand
    <3>2. CASE EraseCells(r)
      <4>1. c \in work[r]
        BY <2>2, <3>2 DEF EraseCells
      <4> QED  BY <1>2, <3>2, <4>1 DEF EraseCells, InHand, CellsInHand
    <3> QED  BY <1>9, <3>1, <3>2
  <2> QED  BY <1>1, <1>3, <1>4, <2>1, <2>2 DEF Untouched
<1>10. CASE RulesOn(r) \/ EraseRules(r)
  <2>1. UNCHANGED <<nodes, born, cells>>
    BY <1>10 DEF RulesOn, EraseRules
  <2>2. ASSUME NEW p \in Orgs \X Indicators, rules'[p] # rules[p] PROVE born[p[2]] = g
    <3>1. CASE RulesOn(r)
      <4>1. p \in work[r].items \cup work[r].seen
        BY <1>2, <2>2, <3>1 DEF RulesOn, TableTypes
      <4> QED  BY <1>2, <3>1, <4>1 DEF RulesOn, InHand, RulesInHand
    <3>2. CASE EraseRules(r)
      <4>1. p \in work[r]
        BY <1>2, <2>2, <3>2 DEF EraseRules, TableTypes
      <4> QED  BY <1>2, <3>2, <4>1 DEF EraseRules, InHand, RulesInHand
    <3> QED  BY <1>10, <3>1, <3>2
  <2> QED  BY <1>1, <1>3, <1>4, <2>1, <2>2 DEF Untouched
<1> QED  BY <1>5, <1>6, <1>7, <1>8, <1>9, <1>10

\* Every other step is one on a table's row of another form, or writes no table.
LEMMA StepUntouched ==
  ASSUME IInv, IInv', [Next]_vars, NEW f, Closed(f)
  PROVE  Untouched(f)
<1>1. f \in Forms /\ forms[f] # NULL /\ forms[f] \in FormRow
  BY EditsElsewhere DEF Closed
<1>2. ASSUME UNCHANGED tables PROVE Untouched(f)
  BY <1>1, <1>2, QuietTouch
<1>3. ASSUME NEW r \in Requests, Requested(r) \/ Crash(r) PROVE Untouched(f)
  BY <1>2, <1>3, RequestedReads DEF Crash
<1>4. ASSUME NEW r \in Requests, Handle(r) PROVE Untouched(f)
  <2>1. CASE NewForm(r) \/ CopyTree(r) \/ FormWrite(r) \/ DropForm(r) \/ ListDrop(r) \/ ListWrite(r)
    BY <2>1, FormsUntouched
  <2>2. CASE \/ Insert(r) \/ SaveWrite(r) \/ Delete(r) \/ ReorderWrite(r) \/ WriteCells(r) \/ EraseCells(r)
             \/ RulesOn(r) \/ EraseRules(r)
    BY <2>2, StructureUntouched
  <2>3. CASE FormLoad(r) \/ Walk(r) \/ SaveLoad(r) \/ RulesOff(r) \/ ListLoad(r)
    BY <1>2, <2>3 DEF FormLoad, Walk, SaveLoad, RulesOff, ListLoad
  <2>4. CASE \/ ImportIndicator(r) \/ ImportAttribute(r) \/ ImportLinks(r)
             \/ LinkIndicator(r) \/ LinkAttribute(r) \/ ImportNext(r)
    BY <1>2, <2>4 DEF ImportIndicator, ImportAttribute, ImportLinks, LinkIndicator, LinkAttribute, ImportNext,
                      ImportAs, LinkAs
  <2> QED  BY <1>4, <2>1, <2>2, <2>3, <2>4 DEF Handle
<1>5. ASSUME NEW g \in Forms, MakeCampaign(g) PROVE Untouched(f)
  <2>1. /\ UNCHANGED <<nodes, born, cells, rules>>
        /\ forms' = forms \/ forms' = [forms EXCEPT ![g].status = "IN_USE"]
    BY <1>5 DEF MakeCampaign
  <2> DEFINE row == [forms[f] EXCEPT !.status = "IN_USE"]
  <2>2. row \in FormRow /\ row.type = forms[f].type /\ row.deleted = forms[f].deleted
    BY <1>1 DEF FormRow
  <2>3. forms'[f] = forms[f] \/ forms'[f] = row
    BY <1>1, <2>1 DEF IInv, TypeOK, TableTypes
  <2> HIDE DEF row
  <2>4. forms'[f] # NULL /\ forms'[f].type = forms[f].type /\ forms'[f].deleted = forms[f].deleted
    BY <1>1, <2>2, <2>3, Rows
  <2> QED  BY <2>1, <2>4 DEF Untouched
<1>6. CASE UNCHANGED vars
  BY <1>2, <1>6 DEF vars
<1> QED  BY <1>3, <1>4, <1>5, <1>6 DEF Next

\* docs/canonical/rules.md:8: the structure of a template that has a campaign does not
\* change, as long as the first campaign did not come while an edit was past its check:
\* whoever still writes the form then has checked it before the campaign, and is counted.
THEOREM StructureStays == Spec => StructureLocked
<1>1. IInv /\ IInv' /\ [Next]_vars =>
        [\A f \in Forms : campaigns[f] # NULL /\ f \notin surprised =>
           /\ FindOneForm(f)' = FindOneForm(f)
           /\ Live(f)' <=> Live(f)]_vars
  <2> SUFFICES ASSUME IInv, IInv', [Next]_vars, NEW f \in Forms, campaigns[f] # NULL, f \notin surprised
               PROVE  FindOneForm(f)' = FindOneForm(f) /\ (Live(f)' <=> Live(f))
    OBVIOUS
  <2>1. Closed(f) /\ TableTypes /\ TableTypes'
    BY DEF Closed, IInv, TypeOK
  <2> QED  BY <2>1, EditsElsewhere, StepUntouched, UntouchedShown
<1> QED  BY <1>1, TemplateInvariant, PTL DEF Spec, StructureLocked

-----------------------------------------------------------------------------
(* An import that nobody disturbs.                                         *)

\* r has had the server to itself, and so far no row or link has failed.
Undisturbed(r) == Importing(r) /\ job[r].solo /\ ~work[r].failed

\* Who has had the server to himself is the only one at work.
SoloOK == \A r, q \in Requests : job[r].solo /\ pc[q] # "idle" => q = r

Sheet(w) == RowsOf(w.book, w.side)

\* Each key stands in the sheet once.
Distinct(sheet) == \A i, j \in DOMAIN sheet : sheet[i].key = sheet[j].key => i = j

\* What has been stored are the first rows of the sheet, each under an id of its own, and
\* what is to be linked are some of them.
StoredOK(sheet, ids, links) ==
  /\ Len(ids) <= Len(sheet)
  /\ \A i \in DOMAIN ids : ids[i][1] = sheet[i].key /\ nodes[ids[i][2]] # NULL
  /\ \A i, j \in DOMAIN ids : ids[i][2] = ids[j][2] => i = j
  /\ \A l \in DOMAIN links : links[l].parent # NULL /\ \E i \in DOMAIN ids : links[l] = sheet[i]

\* A row of the sheet waits for its link.
Pending(links, line) == \E l \in DOMAIN links : links[l] = line

\* p is the row stored for the parent that a row of the sheet names.
Under(sheet, ids, line, p) == \E j \in DOMAIN sheet : sheet[j].key = line.parent /\ p = ids[j][2]

\* The rows after the first k are still to come, and no row has a parent yet.
ToStore(sheet, ids, links, rows, k) ==
  /\ k + Len(rows) = Len(sheet)
  /\ \A i \in DOMAIN rows : rows[i] = sheet[k + i]
  /\ \A i \in DOMAIN ids : /\ nodes[ids[i][2]].parent = NULL
                           /\ sheet[i].parent # NULL => Pending(links, sheet[i])

\* Every row has its parent, waits for it, or is the one that is being moved.
Linked(sheet, ids, links, moved) ==
  \A i \in DOMAIN sheet :
    LET n == ids[i][2]
    IN  IF sheet[i].parent = NULL THEN nodes[n].parent = NULL
        ELSE \/ Under(sheet, ids, sheet[i], nodes[n].parent)
             \/ Pending(links, sheet[i])
             \/ n \in moved

\* Row n is being moved to where the sheet has it.
Moving(sheet, ids, n, p) ==
  \E i \in DOMAIN sheet : n = ids[i][2] /\ sheet[i].parent # NULL /\ Under(sheet, ids, sheet[i], p)

\* How far import r has got.
Progress(r) ==
  LET w == work[r]
      sheet == Sheet(w)
      n == job[r].node
      moving == pc[r] \in {"walk", "saveLoad", "saveWrite"}
  IN  /\ StoredOK(sheet, w.ids, w.links)
      /\ pc[r] = "importRow" => ToStore(sheet, w.ids, w.links, w.rows, Len(w.ids))
      /\ pc[r] = "insert" => /\ ToStore(sheet, w.ids, w.links, w.rows, Len(w.ids) + 1)
                             /\ w.head = sheet[Len(w.ids) + 1] /\ copy[r].parent = NULL
      /\ pc[r] = "importLink" \/ moving =>
           /\ Len(w.ids) = Len(sheet)
           /\ Distinct(sheet) =>
                /\ Linked(sheet, w.ids, w.links, IF moving THEN {n} ELSE {})
                /\ moving => Moving(sheet, w.ids, n, copy[r].parent)
                /\ pc[r] = "saveWrite" => base[r] = nodes[n]

ImportInv == SoloOK /\ \A r \in Requests : Undisturbed(r) => Progress(r)

-----------------------------------------------------------------------------
\* What the helpers change of the work of an import.
LEMMA ImportFields ==
  ASSUME NEW w \in ImportWork
  PROVE  /\ w.rows \in Seq(ExcelRow) /\ w.links \in Seq(ExcelRow) /\ w.ids \in Seq(Codes \X Nodes)
         /\ w.head \in ExcelRow \cup {NULL} /\ w.failed \in BOOLEAN /\ Sheet(w) \in Seq(ExcelRow)
         /\ w.head # NULL => \A n \in Nodes :
              LET v == Stored(w, n)
              IN  /\ Sheet(v) = Sheet(w) /\ v.rows = w.rows /\ v.failed = w.failed
                  /\ v.ids = Append(w.ids, <<w.head.key, n>>)
                  /\ v.links = IF w.head.parent = NULL THEN w.links ELSE Append(w.links, w.head)
         /\ w.rows # <<>> =>
              LET v == Fetched(w)
              IN  /\ Sheet(v) = Sheet(w) /\ v.rows = Tail(w.rows) /\ v.head = Head(w.rows)
                  /\ v.ids = w.ids /\ v.links = w.links /\ v.failed = w.failed
         /\ w.links # <<>> => \A p \in Nodes \cup {NULL} :
              LET v == Tried(w, p)
              IN  /\ Sheet(v) = Sheet(w) /\ v.ids = w.ids /\ v.links = Tail(w.links) /\ v.failed = w.failed
<1>1. /\ w.rows \in Seq(ExcelRow) /\ w.links \in Seq(ExcelRow) /\ w.ids \in Seq(Codes \X Nodes)
      /\ w.head \in ExcelRow \cup {NULL} /\ w.failed \in BOOLEAN
  BY DEF ImportWork
<1>2. Sheet(w) \in Seq(ExcelRow)
  BY InputsAssumption DEF ImportWork, Sheet, RowsOf
<1> DEFINE Alike(v, u) == v.book = u.book /\ v.side = u.side /\ v.failed = u.failed
<1>3. \A v, u : Alike(v, u) => Sheet(v) = Sheet(u)
  BY DEF Sheet
<1>4. \A v \in ImportWork, ids \in Seq(Codes \X Nodes) :
        LET u == [v EXCEPT !.ids = ids]
        IN  u \in ImportWork /\ Alike(u, v) /\ u.rows = v.rows /\ u.head = v.head /\ u.links = v.links /\ u.ids = ids
  BY DEF ImportWork
<1>5. \A v \in ImportWork, links \in Seq(ExcelRow) :
        LET u == [v EXCEPT !.links = links]
        IN  u \in ImportWork /\ Alike(u, v) /\ u.rows = v.rows /\ u.head = v.head /\ u.ids = v.ids /\ u.links = links
  BY DEF ImportWork
<1>6. \A v \in ImportWork, rows \in Seq(ExcelRow) :
        LET u == [v EXCEPT !.rows = rows]
        IN  u \in ImportWork /\ Alike(u, v) /\ u.ids = v.ids /\ u.head = v.head /\ u.links = v.links /\ u.rows = rows
  BY DEF ImportWork
<1>7. \A v \in ImportWork, head \in ExcelRow :
        LET u == [v EXCEPT !.head = head]
        IN  Alike(u, v) /\ u.ids = v.ids /\ u.rows = v.rows /\ u.links = v.links /\ u.head = head
  BY DEF ImportWork
<1>8. \A v \in ImportWork, p \in Nodes \cup {NULL} :
        LET u == [v EXCEPT !.cursor = p]
        IN  Alike(u, v) /\ u.ids = v.ids /\ u.rows = v.rows /\ u.links = v.links
  BY DEF ImportWork
<1>9. ASSUME w.head # NULL, NEW n \in Nodes
      PROVE  LET v == Stored(w, n)
             IN  /\ Sheet(v) = Sheet(w) /\ v.rows = w.rows /\ v.failed = w.failed
                 /\ v.ids = Append(w.ids, <<w.head.key, n>>)
                 /\ v.links = IF w.head.parent = NULL THEN w.links ELSE Append(w.links, w.head)
  <2> PICK ids : ids = Append(w.ids, <<w.head.key, n>>)
    OBVIOUS
  <2> PICK known : known = [w EXCEPT !.ids = ids]
    OBVIOUS
  <2> PICK links : links = Append(w.links, w.head)
    OBVIOUS
  <2>1. ids \in Seq(Codes \X Nodes)
    <3>1. <<w.head.key, n>> \in Codes \X Nodes
      BY <1>1, <1>9 DEF ExcelRow
    <3> QED  BY <1>1, <3>1
  <2>2. known \in ImportWork /\ Alike(known, w) /\ known.rows = w.rows /\ known.head = w.head
        /\ known.links = w.links /\ known.ids = ids
    BY <1>4, <2>1
  <2>3. links \in Seq(ExcelRow)
    BY <1>1, <1>9
  <2>4. Stored(w, n) = IF w.head.parent = NULL THEN known ELSE [known EXCEPT !.links = Append(@, w.head)]
    BY DEF Stored
  <2>5. [known EXCEPT !.links = Append(@, w.head)] = [known EXCEPT !.links = links]
    BY <2>2
  <2>6. LET u == [known EXCEPT !.links = links]
        IN  Alike(u, known) /\ u.rows = known.rows /\ u.ids = known.ids /\ u.links = links
    BY <1>5, <2>2, <2>3
  <2> HIDE DEF Alike
  <2>7. \A v, u, t : Alike(v, u) /\ Alike(u, t) => Alike(v, t)
    BY DEF Alike
  <2>8. \A v, u : Alike(v, u) => Sheet(v) = Sheet(u) /\ v.failed = u.failed
    BY <1>3 DEF Alike
  <2> QED  BY <2>2, <2>4, <2>5, <2>6, <2>7, <2>8
<1>10. ASSUME w.rows # <<>>
       PROVE  LET v == Fetched(w)
              IN  /\ Sheet(v) = Sheet(w) /\ v.rows = Tail(w.rows) /\ v.head = Head(w.rows)
                  /\ v.ids = w.ids /\ v.links = w.links /\ v.failed = w.failed
  <2> PICK rest : rest = [w EXCEPT !.rows = Tail(w.rows)]
    OBVIOUS
  <2>1. Tail(w.rows) \in Seq(ExcelRow) /\ Head(w.rows) \in ExcelRow
    BY <1>1, <1>10, HeadTailProperties
  <2>2. rest \in ImportWork /\ Alike(rest, w) /\ rest.ids = w.ids /\ rest.links = w.links /\ rest.rows = Tail(w.rows)
    BY <1>6, <2>1
  <2>3. Fetched(w) = [rest EXCEPT !.head = Head(w.rows)]
    BY DEF Fetched
  <2>4. LET u == [rest EXCEPT !.head = Head(w.rows)]
        IN  Alike(u, rest) /\ u.ids = rest.ids /\ u.rows = rest.rows /\ u.links = rest.links /\ u.head = Head(w.rows)
    BY <1>7, <2>1, <2>2
  <2> QED  BY <1>3, <2>2, <2>3, <2>4
<1>11. ASSUME w.links # <<>>, NEW p \in Nodes \cup {NULL}
       PROVE  LET v == Tried(w, p)
              IN  /\ Sheet(v) = Sheet(w) /\ v.ids = w.ids /\ v.links = Tail(w.links) /\ v.failed = w.failed
  <2> PICK rest : rest = [w EXCEPT !.links = Tail(w.links)]
    OBVIOUS
  <2>1. Tail(w.links) \in Seq(ExcelRow)
    BY <1>1, <1>11, HeadTailProperties
  <2>2. rest \in ImportWork /\ Alike(rest, w) /\ rest.ids = w.ids /\ rest.links = Tail(w.links)
    BY <1>5, <2>1
  <2>3. Tried(w, p) = [rest EXCEPT !.cursor = p]
    BY DEF Tried
  <2>4. LET u == [rest EXCEPT !.cursor = p]
        IN  Alike(u, rest) /\ u.ids = rest.ids /\ u.links = rest.links
    BY <1>8, <2>2
  <2> QED  BY <1>3, <2>2, <2>3, <2>4
<1> QED  BY <1>1, <1>2, <1>9, <1>10, <1>11

\* A failure is kept in mind.
LEMMA FailedNow ==
  ASSUME NEW w \in ImportWork
  PROVE  [w EXCEPT !.failed = TRUE].failed
BY DEF ImportWork

\* As many keys as rows: no key stands twice.
LEMMA DistinctKeys ==
  ASSUME NEW sheet \in Seq(ExcelRow), Cardinality({sheet[i].key : i \in DOMAIN sheet}) = Len(sheet)
  PROVE  Distinct(sheet)
<1> PICK S : S = 1..Len(sheet)
  OBVIOUS
<1> PICK T : T = {sheet[i].key : i \in DOMAIN sheet}
  OBVIOUS
<1> PICK g : g = [i \in S |-> sheet[i].key]
  OBVIOUS
<1>1. S = DOMAIN sheet /\ Len(sheet) \in Nat
  OBVIOUS
<1>2. IsFiniteSet(S) /\ Cardinality(S) = Len(sheet)
  <2> PICK n : n = Len(sheet)
    OBVIOUS
  <2>1. n \in Nat /\ S = 1..n /\ n \in Int /\ 1 \in Int
    BY <1>1
  <2>2. IsFiniteSet(1..n) /\ Cardinality(1..n) = IF 1 > n THEN 0 ELSE n - 1 + 1
    BY <2>1, FS_Interval, Zenon
  <2>3. (IF 1 > n THEN 0 ELSE n - 1 + 1) = n
    BY <2>1
  <2> QED  BY <2>1, <2>2, <2>3
<1>3. g \in Surjection(S, T)
  <2>1. g \in [S -> T] /\ \A t \in T : \E i \in S : g[i] = t
    BY <1>1
  <2> QED  BY <2>1, Fun_IsSurj
<1>4. g \in Injection(S, T)
  BY <1>2, <1>3, FS_Surjection
<1>5. \A i, j \in S : g[i] = g[j] => i = j
  BY <1>4 DEF Injection, IsInjective
<1> QED  BY <1>1, <1>5 DEF Distinct

\* A key that is there is found at its first row.
LEMMA FirstOfKey ==
  ASSUME NEW ids \in Seq(Codes \X Nodes), NEW key, Mapped(ids, key)
  PROVE  \E i \in DOMAIN ids : ids[i][1] = key /\ NodeOf(ids, key) = ids[i][2]
<1> PICK S : S = {i \in DOMAIN ids : ids[i][1] = key}
  OBVIOUS
<1>1. S \in SUBSET Nat /\ S # {}
  BY DEF Mapped
<1>2. PICK n \in S : \A m \in S : n <= m
  BY <1>1, LeastNumber
<1>3. n \in DOMAIN ids /\ ids[n][1] = key /\ \A j \in 1..(n - 1) : ids[j][1] # key
  BY <1>2
<1> PICK c : c = CHOOSE i \in DOMAIN ids : ids[i][1] = key /\ \A j \in 1..(i - 1) : ids[j][1] # key
  OBVIOUS
<1>4. c \in DOMAIN ids /\ ids[c][1] = key
  BY <1>3
<1> QED  BY <1>4 DEF NodeOf

\* What an import has in hand.
LEMMA Importer ==
  ASSUME IInv, NEW r \in Requests, Importing(r)
  PROVE  /\ work[r] \in ImportWork /\ DOMAIN work = Requests /\ DOMAIN copy = Requests /\ DOMAIN base = Requests
         /\ pc \in [Requests -> Statements] /\ job \in [Requests -> Job] /\ TableTypes /\ InHand(r)
         /\ pc[r] \in {"importRow", "insert", "importLink", "walk", "saveLoad", "saveWrite"}
BY DEF IInv, TypeOK, RequestTypes, RequestsOK, RequestOK, InHand, ImportInHand

\* A sequence with one more element.
LEMMA OneMore ==
  ASSUME NEW S, NEW s \in Seq(S), NEW e \in S
  PROVE  /\ Len(s) \in Nat /\ Len(Append(s, e)) = Len(s) + 1 /\ DOMAIN Append(s, e) = 1..(Len(s) + 1)
         /\ DOMAIN s = 1..Len(s) /\ Len(s) + 1 \in DOMAIN Append(s, e)
         /\ \A i \in 1..Len(s) : i \in DOMAIN Append(s, e) /\ Append(s, e)[i] = s[i]
         /\ \A i \in DOMAIN Append(s, e) : i \in 1..Len(s) \/ i = Len(s) + 1
         /\ Append(s, e)[Len(s) + 1] = e
OBVIOUS

\* A row that is stored is the next one of the sheet, under an id of its own.
Storing(sheet, ids, links, rows, line, n, ids2, links2) ==
  /\ sheet \in Seq(ExcelRow) /\ ids \in Seq(Codes \X Nodes) /\ links \in Seq(ExcelRow)
  /\ rows \in Seq(ExcelRow) /\ line \in ExcelRow /\ line = sheet[Len(ids) + 1]
  /\ StoredOK(sheet, ids, links) /\ ToStore(sheet, ids, links, rows, Len(ids) + 1)
  /\ n \in Nodes /\ nodes[n] = NULL /\ nodes'[n] # NULL /\ nodes'[n].parent = NULL
  /\ \A m \in Nodes \ {n} : nodes'[m] = nodes[m]
  /\ ids2 = Append(ids, <<line.key, n>>)
  /\ links2 = IF line.parent = NULL THEN links ELSE Append(links, line)

StoredNext(sheet, ids, links, rows) ==
  StoredOK(sheet, ids, links)' /\ ToStore(sheet, ids, links, rows, Len(ids))'

\* Then what is stored is again the first rows of the sheet.
LEMMA StoreLine ==
  ASSUME NEW sheet, NEW ids, NEW links, NEW rows, NEW line, NEW n, NEW ids2, NEW links2,
         Storing(sheet, ids, links, rows, line, n, ids2, links2)
  PROVE  StoredNext(sheet, ids2, links2, rows)
<1>0. /\ sheet \in Seq(ExcelRow) /\ ids \in Seq(Codes \X Nodes) /\ links \in Seq(ExcelRow)
      /\ rows \in Seq(ExcelRow) /\ line \in ExcelRow /\ line = sheet[Len(ids) + 1]
      /\ StoredOK(sheet, ids, links) /\ ToStore(sheet, ids, links, rows, Len(ids) + 1)
      /\ n \in Nodes /\ nodes[n] = NULL /\ nodes'[n] # NULL /\ nodes'[n].parent = NULL
      /\ \A m \in Nodes \ {n} : nodes'[m] = nodes[m]
      /\ ids2 = Append(ids, <<line.key, n>>)
      /\ links2 = IF line.parent = NULL THEN links ELSE Append(links, line)
  BY DEF Storing
<1> PICK k : k = Len(ids)
  OBVIOUS
<1>1. /\ k \in Nat /\ Len(rows) \in Nat /\ Len(sheet) \in Nat
      /\ DOMAIN rows = 1..Len(rows) /\ DOMAIN ids = 1..k /\ DOMAIN sheet = 1..Len(sheet)
      /\ DOMAIN links = 1..Len(links)
  BY <1>0
<1>2. /\ DOMAIN ids2 = 1..(k + 1) /\ Len(ids2) = k + 1
      /\ \A i \in 1..k : ids2[i] = ids[i]
      /\ ids2[k + 1] = <<line.key, n>>
  <2>1. <<line.key, n>> \in Codes \X Nodes
    BY <1>0 DEF ExcelRow
  <2> QED  BY <1>0, <1>1, <2>1, OneMore
<1>3. /\ \A l \in DOMAIN links2 : (l \in DOMAIN links /\ links2[l] = links[l])
                                   \/ (line.parent # NULL /\ links2[l] = line)
      /\ \A l \in DOMAIN links : l \in DOMAIN links2 /\ links2[l] = links[l]
      /\ line.parent # NULL => \E l \in DOMAIN links2 : links2[l] = line
  <2>1. CASE line.parent = NULL
    BY <1>0, <2>1
  <2>2. CASE line.parent # NULL
    <3>1. links2 = Append(links, line)
      BY <1>0, <2>2
    <3>2. /\ \A i \in DOMAIN links : i \in DOMAIN links2 /\ links2[i] = links[i]
          /\ Len(links) + 1 \in DOMAIN links2 /\ links2[Len(links) + 1] = line
          /\ \A i \in DOMAIN links2 : i \in DOMAIN links \/ i = Len(links) + 1
      BY <1>0, <1>1, <3>1, OneMore
    <3> QED  BY <2>2, <3>2
  <2> QED  BY <2>1, <2>2
\* The rows that were stored before.
<1>4. ASSUME NEW i \in 1..k
      PROVE  /\ ids[i][2] # n /\ nodes'[ids[i][2]] = nodes[ids[i][2]] /\ nodes[ids[i][2]] # NULL
             /\ ids2[i] = ids[i] /\ ids[i][1] = sheet[i].key
  <2>1. ids[i] \in Codes \X Nodes
    BY <1>0, <1>1
  <2>2. ids[i][2] \in Nodes
    BY <1>0, <2>1
  <2>3. nodes[ids[i][2]] # NULL /\ ids[i][1] = sheet[i].key
    BY <1>0, <1>1 DEF StoredOK
  <2>4. ids[i][2] # n
    BY <1>0, <2>3
  <2>5. nodes'[ids[i][2]] = nodes[ids[i][2]]
    BY <1>0, <2>2, <2>4
  <2> QED  BY <1>0, <1>2, <2>3, <2>4, <2>5
<1>5. /\ ids2[k + 1][1] = line.key /\ ids2[k + 1][2] = n
  BY <1>0, <1>2
<1>6. \A i \in 1..(k + 1) : i \in 1..k \/ i = k + 1
  BY <1>0, <1>1
<1>7. k + 1 \in 1..(k + 1) /\ \A i \in 1..k : i \in 1..(k + 1)
  BY <1>0, <1>1
<1>8. k + 1 + Len(rows) = Len(sheet) /\ line = sheet[k + 1]
  BY <1>0 DEF ToStore
<1>8Q. /\ ids2[k + 1][1] = sheet[k + 1].key /\ nodes'[ids2[k + 1][2]] # NULL
       /\ nodes'[ids2[k + 1][2]].parent = NULL
  <2>1. nodes'[ids2[k + 1][2]] = nodes'[n]
    BY <1>5, Zenon
  <2>2. nodes'[n] # NULL /\ nodes'[n].parent = NULL
    BY <1>0
  <2>3. ids2[k + 1][1] = sheet[k + 1].key
    BY <1>5, <1>8, Zenon
  <2> QED  BY <2>1, <2>2, <2>3, Zenon
<1>9Q. sheet[k + 1].parent # NULL => Pending(links2, sheet[k + 1])
  <2>1. line.parent # NULL => Pending(links2, line)
    BY <1>3, Zenon DEF Pending
  <2> QED  BY <1>8, <2>1, Zenon
<1>9. StoredOK(sheet, ids2, links2)'
  <2>1. Len(ids2) <= Len(sheet)
    BY <1>0, <1>1, <1>2, <1>8
  <2>2. ASSUME NEW i \in DOMAIN ids2 PROVE ids2[i][1] = sheet[i].key /\ nodes'[ids2[i][2]] # NULL
    <3>1. CASE i \in 1..k
      BY <1>4, <3>1, Zenon
    <3>2. CASE i = k + 1
      BY <1>8Q, <3>2, Zenon
    <3> QED  BY <1>0, <1>2, <1>6, <2>2, <3>1, <3>2
  <2>3. ASSUME NEW i \in DOMAIN ids2, NEW j \in DOMAIN ids2, ids2[i][2] = ids2[j][2] PROVE i = j
    <3>1. CASE i \in 1..k /\ j \in 1..k
      BY <1>0, <1>1, <1>4, <2>3, <3>1 DEF StoredOK
    <3>2. CASE i \in 1..k /\ j = k + 1
      BY <1>0, <1>4, <1>5, <2>3, <3>2
    <3>3. CASE i = k + 1 /\ j \in 1..k
      BY <1>0, <1>4, <1>5, <2>3, <3>3
    <3> QED  BY <1>0, <1>2, <1>6, <2>3, <3>1, <3>2, <3>3
  <2>4. ASSUME NEW l \in DOMAIN links2
        PROVE  links2[l].parent # NULL /\ \E i \in DOMAIN ids2 : links2[l] = sheet[i]
    <3>1. CASE l \in DOMAIN links /\ links2[l] = links[l]
      BY <1>0, <1>1, <1>2, <1>7, <3>1 DEF StoredOK
    <3>2. CASE line.parent # NULL /\ links2[l] = line
      BY <1>0, <1>2, <1>7, <1>8, <3>2
    <3> QED  BY <1>0, <1>3, <2>4, <3>1, <3>2
  <2> QED  BY <2>1, <2>2, <2>3, <2>4 DEF StoredOK
<1>10. ASSUME NEW i \in DOMAIN ids2
       PROVE  nodes'[ids2[i][2]].parent = NULL /\ (sheet[i].parent # NULL => Pending(links2, sheet[i]))
  <2>1. CASE i \in 1..k
    <3>1. nodes[ids[i][2]].parent = NULL /\ (sheet[i].parent # NULL => Pending(links, sheet[i]))
      BY <1>0, <1>1, <2>1 DEF ToStore
    <3>2. Pending(links, sheet[i]) => Pending(links2, sheet[i])
      BY <1>3, Zenon DEF Pending
    <3> QED  BY <1>4, <2>1, <3>1, <3>2, Zenon
  <2>2. CASE i = k + 1
    BY <1>8Q, <1>9Q, <2>2, Zenon
  <2> QED  BY <1>0, <1>2, <1>6, <1>10, <2>1, <2>2
<1>11. /\ Len(ids2) + Len(rows) = Len(sheet)
       /\ \A i \in DOMAIN rows : rows[i] = sheet[Len(ids2) + i]
  BY <1>0, <1>1, <1>2 DEF ToStore
<1>12. ToStore(sheet, ids2, links2, rows, Len(ids2))'
  BY <1>10, <1>11 DEF ToStore
<1> QED  BY <1>9, <1>12 DEF StoredNext

\* Insert gives the row at hand an id, or the import has failed.
LEMMA Inserted ==
  ASSUME IInv, NEW r \in Requests, Importing(r), Insert(r), ~work'[r].failed
  PROVE  \E n \in Nodes :
           /\ nodes[n] = NULL /\ pc'[r] = "importRow" /\ work'[r] = Stored(work[r], n)
           /\ \A m \in Nodes : nodes'[m] = IF m = n THEN copy[r] ELSE nodes[m]
<1> PICK w : w = work[r]
  OBVIOUS
<1> PICK row : row = copy[r]
  OBVIOUS
<1> PICK T : T = Target(r)
  OBVIOUS
<1> DEFINE free == Fresh(T)
<1> PICK n : n = CHOOSE x \in free : \A m \in free : x <= m
  OBVIOUS
<1> DEFINE done == free # {} /\ Admissible(n, row)
<1>1. /\ pc[r] = "insert" /\ Importing(r)
      /\ nodes' = IF done THEN [nodes EXCEPT ![n] = row] ELSE nodes
      /\ Goto(r, "importRow") /\ UNCHANGED <<job, copy, base>>
      /\ work' = [work EXCEPT ![r] = IF done THEN Stored(w, n) ELSE [w EXCEPT !.failed = TRUE]]
  BY DEF Insert
<1>2. /\ w \in ImportWork /\ DOMAIN work = Requests /\ pc \in [Requests -> Statements] /\ TableTypes /\ InHand(r)
  BY <1>1, Importer
<1>3. done
  <2> SUFFICES ASSUME ~done PROVE FALSE
    OBVIOUS
  <2> HIDE DEF done
  <2>1. work'[r] = [w EXCEPT !.failed = TRUE]
    BY <1>1, <1>2
  <2> QED  BY <1>2, <2>1, FailedNow
<1>4. n \in Nodes /\ nodes[n] = NULL
  <2>1. free \in SUBSET T /\ T \subseteq Nodes /\ T \subseteq Nat /\ \A m \in free : born[m] = NULL
    BY IdsAssumption DEF Target, Nodes, Fresh
  <2>2. free \in SUBSET Nat /\ free # {}
    BY <1>3, <2>1
  <2>3. n \in free
    <3> HIDE DEF free
    <3>1. \E x \in free : \A m \in free : x <= m
      BY <2>2, LeastNumber
    <3> QED  BY <3>1
  <2>4. n \in Nodes /\ born[n] = NULL
    BY <2>1, <2>3
  <2> QED  BY <1>2, <2>4, RowTable
<1> HIDE DEF done, free
<1>5. /\ pc'[r] = "importRow" /\ work'[r] = Stored(w, n)
      /\ \A m \in Nodes : nodes'[m] = IF m = n THEN row ELSE nodes[m]
  BY <1>1, <1>2, <1>3, <1>4 DEF Goto, TableTypes
<1> QED  BY <1>4, <1>5

\* Insert stores the row at hand, or the import has failed.
LEMMA InsertProgress ==
  ASSUME IInv, NEW r \in Requests, Undisturbed(r), Progress(r), Insert(r), ~work'[r].failed
  PROVE  Progress(r)'
<1> PICK w : w = work[r]
  OBVIOUS
<1> PICK row : row = copy[r]
  OBVIOUS
<1>1. pc[r] = "insert" /\ Importing(r)
  BY DEF Insert, Undisturbed
<1>2. w \in ImportWork /\ TableTypes /\ InHand(r)
  BY <1>1, Importer
<1>4. PICK n \in Nodes :
        /\ nodes[n] = NULL /\ pc'[r] = "importRow" /\ work'[r] = Stored(w, n)
        /\ \A m \in Nodes : nodes'[m] = IF m = n THEN row ELSE nodes[m]
  BY <1>1, Inserted
<1>6. /\ StoredOK(Sheet(w), w.ids, w.links) /\ ToStore(Sheet(w), w.ids, w.links, w.rows, Len(w.ids) + 1)
      /\ w.head = Sheet(w)[Len(w.ids) + 1] /\ row.parent = NULL
  BY <1>1 DEF Progress
<1>7. w.head \in ExcelRow /\ w.head # NULL /\ row # NULL
  <2>1. w.head \in ExcelRow /\ row \in IndicatorRow \cup AttributeRow
    BY <1>1, <1>2 DEF InHand, RowInHand, ImportInHand
  <2> QED  BY <2>1, NullAssumption
<1>8. StoredOK(Sheet(w), Stored(w, n).ids, Stored(w, n).links)'
      /\ ToStore(Sheet(w), Stored(w, n).ids, Stored(w, n).links, w.rows, Len(Stored(w, n).ids))'
  <2> PICK sheet : sheet = Sheet(w)
    OBVIOUS
  <2> PICK ids : ids = w.ids
    OBVIOUS
  <2> PICK links : links = w.links
    OBVIOUS
  <2> PICK rows : rows = w.rows
    OBVIOUS
  <2> PICK line : line = w.head
    OBVIOUS
  <2> PICK ids2 : ids2 = Append(ids, <<line.key, n>>)
    OBVIOUS
  <2> PICK links2 : links2 = IF line.parent = NULL THEN links ELSE Append(links, line)
    OBVIOUS
  <2>1. /\ rows \in Seq(ExcelRow) /\ links \in Seq(ExcelRow) /\ ids \in Seq(Codes \X Nodes)
        /\ sheet \in Seq(ExcelRow) /\ Stored(w, n).ids = ids2 /\ Stored(w, n).links = links2
    <3>1. /\ w.rows \in Seq(ExcelRow) /\ w.links \in Seq(ExcelRow) /\ w.ids \in Seq(Codes \X Nodes)
          /\ Sheet(w) \in Seq(ExcelRow)
          /\ Stored(w, n).ids = Append(w.ids, <<w.head.key, n>>)
          /\ Stored(w, n).links = IF w.head.parent = NULL THEN w.links ELSE Append(w.links, w.head)
      BY <1>2, <1>4, <1>7, ImportFields
    <3> QED  BY <3>1, Zenon
  <2>2. /\ StoredOK(sheet, ids, links) /\ ToStore(sheet, ids, links, rows, Len(ids) + 1)
        /\ line \in ExcelRow /\ line = sheet[Len(ids) + 1]
    BY <1>6, <1>7, Zenon
  <2>3. Storing(sheet, ids, links, rows, line, n, ids2, links2)
    BY <1>4, <1>6, <1>7, <2>1, <2>2 DEF Storing
  <2>4. StoredOK(sheet, ids2, links2)' /\ ToStore(sheet, ids2, links2, rows, Len(ids2))'
    <3>1. StoredNext(sheet, ids2, links2, rows)
      BY <2>3, StoreLine, Zenon
    <3> QED  BY <3>1 DEF StoredNext
  <2> QED  BY <2>1, <2>4, Zenon
<1>9. Sheet(Stored(w, n)) = Sheet(w) /\ Stored(w, n).rows = w.rows
  BY <1>2, <1>4, <1>7, ImportFields
<1> QED  BY <1>4, <1>8, <1>9 DEF Progress

\* The next row of the sheet is fetched.
LEMMA FetchLine ==
  ASSUME NEW sheet \in Seq(ExcelRow), NEW ids \in Seq(Codes \X Nodes), NEW links, NEW rows \in Seq(ExcelRow),
         rows # <<>>, ToStore(sheet, ids, links, rows, Len(ids))
  PROVE  ToStore(sheet, ids, links, Tail(rows), Len(ids) + 1) /\ Head(rows) = sheet[Len(ids) + 1]
<1> PICK k : k = Len(ids)
  OBVIOUS
<1>1. k \in Nat /\ Len(rows) \in Nat /\ Len(rows) > 0 /\ Len(sheet) \in Nat
  OBVIOUS
<1>2. /\ Tail(rows) \in Seq(ExcelRow) /\ Len(Tail(rows)) = Len(rows) - 1
      /\ \A i \in DOMAIN Tail(rows) : i + 1 \in DOMAIN rows /\ Tail(rows)[i] = rows[i + 1] /\ i \in Nat
      /\ Head(rows) = rows[1] /\ 1 \in DOMAIN rows
  OBVIOUS
<1>3. k + Len(rows) = Len(sheet) /\ \A i \in DOMAIN rows : rows[i] = sheet[k + i]
  BY DEF ToStore
<1>4. k + 1 + Len(Tail(rows)) = Len(sheet)
  BY <1>1, <1>2, <1>3
<1>5. ASSUME NEW i \in DOMAIN Tail(rows) PROVE Tail(rows)[i] = sheet[k + 1 + i]
  <2>1. i \in Nat /\ k \in Nat
    BY <1>1, <1>2
  <2>2. k + (i + 1) = k + 1 + i
    BY <2>1
  <2> QED  BY <1>2, <1>3, <2>2
<1>6. Head(rows) = sheet[k + 1]
  BY <1>2, <1>3
<1> QED  BY <1>4, <1>5, <1>6 DEF ToStore

\* When no row is to come, every row of the sheet is stored and waits for its parent, if
\* it has one.
LEMMA AllStored ==
  ASSUME NEW sheet \in Seq(ExcelRow), NEW ids \in Seq(Codes \X Nodes), NEW links,
         ToStore(sheet, ids, links, <<>>, Len(ids))
  PROVE  Len(ids) = Len(sheet) /\ Linked(sheet, ids, links, {})
<1>1. Len(ids) = Len(sheet)
  BY DEF ToStore
<1>2. DOMAIN sheet = DOMAIN ids
  BY <1>1
<1> QED  BY <1>1, <1>2 DEF ToStore, Linked

\* Nothing is stored yet of a sheet that has just been opened.
LEMMA NothingStored ==
  ASSUME NEW sheet \in Seq(ExcelRow)
  PROVE  StoredOK(sheet, <<>>, <<>>) /\ ToStore(sheet, <<>>, <<>>, sheet, Len(<<>>))
<1>1. Len(sheet) \in Nat /\ Len(<<>>) = 0 /\ DOMAIN <<>> = {}
  OBVIOUS
<1>2. \A i \in DOMAIN sheet : 0 + i = i
  OBVIOUS
<1> QED  BY <1>1, <1>2 DEF StoredOK, ToStore

\* The next link names a row of the sheet that waits, and the row of its parent.
LEMMA NextLink ==
  ASSUME NEW sheet \in Seq(ExcelRow), NEW ids \in Seq(Codes \X Nodes), NEW links \in Seq(ExcelRow),
         links # <<>>, Mapped(ids, Head(links).parent), Len(ids) = Len(sheet), Distinct(sheet),
         StoredOK(sheet, ids, links), Linked(sheet, ids, links, {})
  PROVE  /\ Linked(sheet, ids, Tail(links), {NodeOf(ids, Head(links).key)})
         /\ Moving(sheet, ids, NodeOf(ids, Head(links).key), NodeOf(ids, Head(links).parent))
<1> PICK link : link = Head(links)
  OBVIOUS
<1> PICK child : child = NodeOf(ids, link.key)
  OBVIOUS
<1> PICK parent : parent = NodeOf(ids, link.parent)
  OBVIOUS
<1>1. DOMAIN sheet = DOMAIN ids /\ DOMAIN ids = 1..Len(ids)
  OBVIOUS
<1>2. /\ link = links[1] /\ 1 \in DOMAIN links
      /\ \A l \in DOMAIN links : l = 1 \/ (l - 1 \in DOMAIN Tail(links) /\ Tail(links)[l - 1] = links[l])
  OBVIOUS
<1>3. PICK i \in DOMAIN ids : link = sheet[i]
  BY <1>2 DEF StoredOK
<1>4. link.parent # NULL /\ \A j \in DOMAIN ids : ids[j][1] = sheet[j].key
  BY <1>2 DEF StoredOK
<1>5. child = ids[i][2]
  <2>1. Mapped(ids, link.key)
    BY <1>3, <1>4 DEF Mapped
  <2>2. PICK c \in DOMAIN ids : ids[c][1] = link.key /\ child = ids[c][2]
    BY <2>1, FirstOfKey
  <2>3. sheet[c].key = sheet[i].key
    BY <1>3, <1>4, <2>2
  <2>4. c = i
    BY <1>1, <2>3 DEF Distinct
  <2> QED  BY <2>2, <2>4
<1>6. PICK p \in DOMAIN ids : ids[p][1] = link.parent /\ parent = ids[p][2]
  BY FirstOfKey
<1>7. Under(sheet, ids, link, parent)
  BY <1>1, <1>4, <1>6 DEF Under
<1>8. Moving(sheet, ids, child, parent)
  BY <1>1, <1>3, <1>4, <1>5, <1>7 DEF Moving
<1>9. ASSUME NEW j \in DOMAIN sheet, Pending(links, sheet[j]) PROVE Pending(Tail(links), sheet[j]) \/ ids[j][2] \in {child}
  <2>1. PICK l \in DOMAIN links : links[l] = sheet[j]
    BY <1>9 DEF Pending
  <2>2. CASE l = 1
    <3>1. sheet[j].key = sheet[i].key
      BY <1>2, <1>3, <2>1, <2>2
    <3>2. j = i
      BY <1>1, <3>1 DEF Distinct
    <3> QED  BY <1>5, <3>2
  <2>3. CASE l # 1
    BY <1>2, <2>1, <2>3 DEF Pending
  <2> QED  BY <2>2, <2>3
<1>10. Linked(sheet, ids, Tail(links), {child})
  BY <1>9 DEF Linked
<1> QED  BY <1>8, <1>10, Zenon

\* What is left to link is among what was.
LEMMA FewerLinks ==
  ASSUME NEW sheet, NEW ids, NEW links \in Seq(ExcelRow), links # <<>>, StoredOK(sheet, ids, links)
  PROVE  StoredOK(sheet, ids, Tail(links))
<1>1. \A l \in DOMAIN Tail(links) : l + 1 \in DOMAIN links /\ Tail(links)[l] = links[l + 1]
  OBVIOUS
<1> QED  BY <1>1 DEF StoredOK

\* The row that was being moved has been saved under the parent the sheet names.
MovedTo(sheet, ids, links, n, p) ==
  /\ sheet \in Seq(ExcelRow) /\ ids \in Seq(Codes \X Nodes) /\ links \in Seq(ExcelRow)
  /\ Len(ids) = Len(sheet) /\ StoredOK(sheet, ids, links)
  /\ Linked(sheet, ids, links, {n}) /\ Moving(sheet, ids, n, p)
  /\ n \in Nodes /\ nodes'[n].parent = p /\ \A m \in Nodes \ {n} : nodes'[m] = nodes[m]

LinkedNext(sheet, ids, links) == Linked(sheet, ids, links, {})'

\* Then it has its parent, and the others have what they had.
LEMMA MoveLine ==
  ASSUME NEW sheet, NEW ids, NEW links, NEW n, NEW p, MovedTo(sheet, ids, links, n, p)
  PROVE  LinkedNext(sheet, ids, links)
<1>0. /\ sheet \in Seq(ExcelRow) /\ ids \in Seq(Codes \X Nodes) /\ Len(ids) = Len(sheet)
      /\ StoredOK(sheet, ids, links)
      /\ Linked(sheet, ids, links, {n}) /\ Moving(sheet, ids, n, p)
      /\ n \in Nodes /\ nodes'[n].parent = p /\ \A m \in Nodes \ {n} : nodes'[m] = nodes[m]
  BY DEF MovedTo
<1>1. DOMAIN sheet = DOMAIN ids /\ \A i \in DOMAIN ids : ids[i][2] \in Nodes
  BY <1>0
<1>2. PICK i \in DOMAIN sheet : n = ids[i][2] /\ sheet[i].parent # NULL /\ Under(sheet, ids, sheet[i], p)
  BY <1>0 DEF Moving
<1>3. ASSUME NEW j \in DOMAIN sheet
      PROVE  IF sheet[j].parent = NULL THEN nodes'[ids[j][2]].parent = NULL
             ELSE Under(sheet, ids, sheet[j], nodes'[ids[j][2]].parent) \/ Pending(links, sheet[j])
  <2>1. CASE ids[j][2] = n
    <3>1. j = i
      BY <1>0, <1>1, <1>2, <2>1 DEF StoredOK
    <3> QED  BY <1>0, <1>2, <3>1, Zenon
  <2>2. CASE ids[j][2] # n
    <3>1. nodes'[ids[j][2]] = nodes[ids[j][2]]
      BY <1>0, <1>1, <2>2
    <3>2. IF sheet[j].parent = NULL THEN nodes[ids[j][2]].parent = NULL
          ELSE Under(sheet, ids, sheet[j], nodes[ids[j][2]].parent) \/ Pending(links, sheet[j])
      BY <1>0, <2>2 DEF Linked
    <3> QED  BY <3>1, <3>2, Zenon
  <2> QED  BY <2>1, <2>2
<1> QED  BY <1>3, Zenon DEF LinkedNext, Linked

\* Rows that are there stay stored.
LEMMA StoredStay ==
  ASSUME NEW sheet, NEW ids \in Seq(Codes \X Nodes), NEW links, StoredOK(sheet, ids, links),
         \A m \in Nodes : nodes[m] # NULL => nodes'[m] # NULL
  PROVE  StoredOK(sheet, ids, links)'
<1>1. \A i \in DOMAIN ids : ids[i][2] \in Nodes
  OBVIOUS
<1> QED  BY <1>1 DEF StoredOK

\* What is said of the import while the rows are not touched.
LEMMA SameRows ==
  ASSUME nodes' = nodes, NEW sheet, NEW ids, NEW links, NEW rows, NEW k, NEW moved
  PROVE  /\ StoredOK(sheet, ids, links) => StoredOK(sheet, ids, links)'
         /\ ToStore(sheet, ids, links, rows, k) => ToStore(sheet, ids, links, rows, k)'
         /\ Linked(sheet, ids, links, moved) => Linked(sheet, ids, links, moved)'
BY DEF StoredOK, ToStore, Linked

\* Fields of what an import keeps that its other statements write.
LEMMA KeptFields ==
  ASSUME NEW w \in ImportWork
  PROVE  /\ \A p : LET v == [w EXCEPT !.cursor = p]
                   IN  /\ Sheet(v) = Sheet(w) /\ v.rows = w.rows /\ v.ids = w.ids /\ v.links = w.links
                       /\ v.failed = w.failed
         /\ \A b \in BOOLEAN : LET v == [w EXCEPT !.failed = b]
                   IN  /\ Sheet(v) = Sheet(w) /\ v.rows = w.rows /\ v.ids = w.ids /\ v.links = w.links
                       /\ v.failed = b
BY DEF ImportWork, Sheet

\* The next row goes to its insert, or the import has failed.
LEMMA FetchProgress ==
  ASSUME IInv, NEW r \in Requests, Undisturbed(r), Progress(r), ImportIndicator(r) \/ ImportAttribute(r),
         ~work'[r].failed
  PROVE  Progress(r)'
<1> PICK w : w = work[r]
  OBVIOUS
<1>1. /\ pc[r] = "importRow" /\ Importing(r) /\ w.rows # <<>>
      /\ \E good, row : ImportAs(r, good, row) /\ row.parent = NULL
  BY DEF ImportIndicator, ImportAttribute, Undisturbed
<1>2. w \in ImportWork /\ DOMAIN work = Requests /\ DOMAIN copy = Requests /\ pc \in [Requests -> Statements]
  BY <1>1, Importer
<1>3. PICK good, row : ImportAs(r, good, row) /\ row.parent = NULL
  BY <1>1
<1>4. Fetched(w) \in ImportWork
  BY <1>1, <1>2, ImportKeeps
<1>5. CASE ~good
  <2>1. work'[r] = [Fetched(w) EXCEPT !.failed = TRUE]
    BY <1>2, <1>3, <1>5 DEF ImportAs
  <2> QED  BY <1>4, <2>1, FailedNow
<1>6. CASE good
  <2>1. pc'[r] = "insert" /\ work'[r] = Fetched(w) /\ copy'[r] = row /\ nodes' = nodes
    BY <1>2, <1>3, <1>6 DEF ImportAs, Goto, tables
  <2> PICK sheet : sheet = Sheet(w)
    OBVIOUS
  <2> PICK ids : ids = w.ids
    OBVIOUS
  <2> PICK links : links = w.links
    OBVIOUS
  <2>2. /\ Sheet(Fetched(w)) = sheet /\ Fetched(w).rows = Tail(w.rows) /\ Fetched(w).head = Head(w.rows)
        /\ Fetched(w).ids = ids /\ Fetched(w).links = links
        /\ sheet \in Seq(ExcelRow) /\ ids \in Seq(Codes \X Nodes) /\ w.rows \in Seq(ExcelRow)
    BY <1>1, <1>2, ImportFields
  <2>3. StoredOK(sheet, ids, links) /\ ToStore(sheet, ids, links, w.rows, Len(ids))
    BY <1>1 DEF Progress
  <2>4. ToStore(sheet, ids, links, Tail(w.rows), Len(ids) + 1) /\ Head(w.rows) = sheet[Len(ids) + 1]
    BY <1>1, <2>2, <2>3, FetchLine
  <2> PICK rows : rows = Tail(w.rows)
    OBVIOUS
  <2> PICK k : k = Len(ids) + 1
    OBVIOUS
  <2>5. StoredOK(sheet, ids, links)' /\ ToStore(sheet, ids, links, rows, k)'
    BY <2>1, <2>3, <2>4, SameRows
  <2>6. /\ work'[r].ids = ids /\ work'[r].links = links /\ work'[r].rows = rows /\ Sheet(work'[r]) = sheet
        /\ work'[r].head = sheet[k] /\ copy'[r].parent = NULL
    BY <1>3, <2>1, <2>2, <2>4
  <2> QED  BY <2>1, <2>5, <2>6 DEF Progress
<1> QED  BY <1>5, <1>6

\* After the last row the links are made.
LEMMA LinksProgress ==
  ASSUME IInv, NEW r \in Requests, Undisturbed(r), Progress(r), ImportLinks(r)
  PROVE  Progress(r)'
<1> PICK w : w = work[r]
  OBVIOUS
<1> PICK sheet : sheet = Sheet(w)
  OBVIOUS
<1> PICK ids : ids = w.ids
  OBVIOUS
<1> PICK links : links = w.links
  OBVIOUS
<1>1. /\ pc[r] = "importRow" /\ Importing(r) /\ w.rows = <<>>
      /\ pc' = [pc EXCEPT ![r] = "importLink"] /\ work' = work /\ nodes' = nodes
  BY DEF ImportLinks, Undisturbed, Goto, tables, memory
<1>2. w \in ImportWork /\ pc \in [Requests -> Statements]
  BY <1>1, Importer
<1>3. sheet \in Seq(ExcelRow) /\ ids \in Seq(Codes \X Nodes)
  BY <1>2, ImportFields
<1>4. StoredOK(sheet, ids, links) /\ ToStore(sheet, ids, links, <<>>, Len(ids))
  BY <1>1 DEF Progress
<1>5. Len(ids) = Len(sheet) /\ Linked(sheet, ids, links, {})
  BY <1>3, <1>4, AllStored
<1>6. StoredOK(sheet, ids, links)' /\ Linked(sheet, ids, links, {})'
  BY <1>1, <1>4, <1>5, SameRows
<1>7. pc'[r] = "importLink" /\ work'[r] = w
  BY <1>1, <1>2
<1> QED  BY <1>5, <1>6, <1>7 DEF Progress

\* The other sheet is opened.
LEMMA NextProgress ==
  ASSUME IInv, NEW r \in Requests, pc'[r] = "importRow", NEW book \in Sheets, NEW S \in {Indicators, Attributes},
         NEW b \in BOOLEAN, work'[r] = Opened(book, S, b)
  PROVE  Progress(r)'
<1> PICK v : v = Opened(book, S, b)
  OBVIOUS
<1>1. v \in ImportWork /\ v.ids = <<>> /\ v.links = <<>> /\ v.rows = Sheet(v)
  BY OpenedType DEF Opened, Sheet
<1> PICK sheet : sheet = Sheet(v)
  OBVIOUS
<1>2. sheet \in Seq(ExcelRow)
  BY <1>1, ImportFields
<1>3. \A i \in DOMAIN <<>> : FALSE
  OBVIOUS
<1>4. Len(<<>>) = 0 /\ 0 + Len(sheet) = Len(sheet) /\ 0 <= Len(sheet) /\ \A i \in DOMAIN sheet : 0 + i = i
  BY <1>2
<1>5. StoredOK(sheet, <<>>, <<>>)' /\ ToStore(sheet, <<>>, <<>>, sheet, Len(<<>>))'
  BY <1>3, <1>4 DEF StoredOK, ToStore
<1> QED  BY <1>1, <1>5 DEF Progress

\* A link that is made takes its row to the walk, or the import has failed.
LEMMA LinkMade ==
  ASSUME IInv, NEW r \in Requests, Importing(r), work[r].links # <<>>, NEW link, LinkAs(r, link), ~work'[r].failed
  PROVE  LET ids == work[r].ids
             parent == NodeOf(ids, link.parent)
             child == NodeOf(ids, link.key)
         IN  /\ nodes' = nodes /\ pc'[r] = "walk" /\ Mapped(ids, link.parent) /\ parent \in Nodes
             /\ work'[r] = Tried(work[r], parent) /\ job'[r].node = child /\ copy'[r].parent = parent
<1> PICK w : w = work[r]
  OBVIOUS
<1> PICK ids : ids = w.ids
  OBVIOUS
<1> PICK parent : parent = NodeOf(ids, link.parent)
  OBVIOUS
<1> PICK child : child = NodeOf(ids, link.key)
  OBVIOUS
<1> DEFINE good == /\ Mapped(ids, link.parent) /\ parent # child
                   /\ {child, parent} \subseteq Of(job[r].form, SideOf(r)) /\ Editable(job[r].form)
           made == /\ pc' = [pc EXCEPT ![r] = "walk"]
                   /\ job' = [job EXCEPT ![r].node = child]
                   /\ copy' = [copy EXCEPT ![r] = [nodes[child] EXCEPT !.parent = parent]]
<1>1. /\ work' = [work EXCEPT ![r] = IF good THEN Tried(w, parent)
                                     ELSE [Tried(w, NULL) EXCEPT !.failed = TRUE]]
      /\ good => made
      /\ nodes' = nodes
  BY DEF LinkAs, Goto, tables
<1>2. /\ w \in ImportWork /\ DOMAIN work = Requests /\ DOMAIN copy = Requests /\ pc \in [Requests -> Statements]
      /\ job \in [Requests -> Job] /\ TableTypes
  BY Importer
<1>3. good
  <2> SUFFICES ASSUME ~good PROVE FALSE
    OBVIOUS
  <2> HIDE DEF good, made
  <2>1. work'[r] = [Tried(w, NULL) EXCEPT !.failed = TRUE]
    BY <1>1, <1>2
  <2>2. Tried(w, NULL) \in ImportWork
    BY <1>2, ImportKeeps
  <2> QED  BY <2>1, <2>2, FailedNow
<1>4. /\ Mapped(ids, link.parent) /\ child \in Nodes /\ parent \in Nodes /\ nodes[child] # NULL
  <2>1. w.side \in {Indicators, Attributes}
    BY <1>2 DEF ImportWork
  <2> QED  BY <1>3, <2>1 DEF Of, SideOf, Nodes
<1>5. made
  BY <1>1, <1>3
<1> HIDE DEF good
<1>6. work'[r] = Tried(w, parent) /\ nodes' = nodes
  BY <1>1, <1>2, <1>3
<1>7. pc'[r] = "walk" /\ job'[r].node = child /\ copy'[r] = [nodes[child] EXCEPT !.parent = parent]
  BY <1>2, <1>5 DEF Job
<1>8. [nodes[child] EXCEPT !.parent = parent].parent = parent
  <2>1. nodes[child] \in IndicatorRow \cup AttributeRow
    BY <1>2, <1>4, RowTable
  <2> QED  BY <2>1 DEF IndicatorRow, AttributeRow
<1>9. copy'[r].parent = parent
  BY <1>7, <1>8
<1> QED  BY <1>4, <1>6, <1>7, <1>9

\* The row of the next link is about to be moved to where the sheet has it.
LEMMA LinkProgress ==
  ASSUME IInv, NEW r \in Requests, Undisturbed(r), Progress(r), LinkIndicator(r) \/ LinkAttribute(r),
         ~work'[r].failed
  PROVE  Progress(r)'
<1> PICK w : w = work[r]
  OBVIOUS
<1> PICK sheet : sheet = Sheet(w)
  OBVIOUS
<1> PICK ids : ids = w.ids
  OBVIOUS
<1> PICK links : links = w.links
  OBVIOUS
<1> PICK link : link = Head(links)
  OBVIOUS
<1> PICK parent : parent = NodeOf(ids, link.parent)
  OBVIOUS
<1> PICK child : child = NodeOf(ids, link.key)
  OBVIOUS
<1>1. pc[r] = "importLink" /\ Importing(r) /\ links # <<>> /\ LinkAs(r, link)
  BY DEF LinkIndicator, LinkAttribute, Undisturbed
<1>2. w \in ImportWork
  BY <1>1, Importer
<1>3. /\ nodes' = nodes /\ pc'[r] = "walk" /\ Mapped(ids, link.parent) /\ parent \in Nodes
      /\ work'[r] = Tried(w, parent) /\ job'[r].node = child /\ copy'[r].parent = parent
  BY <1>1, LinkMade
<1> PICK rest : rest = Tail(links)
  OBVIOUS
<1>4. /\ sheet \in Seq(ExcelRow) /\ ids \in Seq(Codes \X Nodes) /\ links \in Seq(ExcelRow)
      /\ Sheet(Tried(w, parent)) = sheet /\ Tried(w, parent).ids = ids /\ Tried(w, parent).links = rest
  BY <1>1, <1>2, <1>3, ImportFields
<1>5. /\ StoredOK(sheet, ids, links) /\ Len(ids) = Len(sheet)
      /\ Distinct(sheet) => Linked(sheet, ids, links, {})
  BY <1>1 DEF Progress
<1>6. StoredOK(sheet, ids, rest)
  BY <1>1, <1>4, <1>5, FewerLinks
<1>7. Distinct(sheet) => Linked(sheet, ids, rest, {child}) /\ Moving(sheet, ids, child, parent)
  BY <1>1, <1>3, <1>4, <1>5, NextLink
<1>8. /\ StoredOK(sheet, ids, rest)'
      /\ Distinct(sheet) => Linked(sheet, ids, rest, {child})'
  BY <1>3, <1>6, <1>7, SameRows
<1>9. /\ work'[r].ids = ids /\ work'[r].links = rest /\ Sheet(work'[r]) = sheet
  BY <1>3, <1>4
<1> QED  BY <1>3, <1>5, <1>7, <1>8, <1>9 DEF Progress

\* The walk goes up, or is over, or the import has failed; the row is loaded.
LEMMA WalkProgress ==
  ASSUME IInv, NEW r \in Requests, Undisturbed(r), Progress(r), Walk(r) \/ SaveLoad(r), ~work'[r].failed
  PROVE  Progress(r)'
<1> PICK w : w = work[r]
  OBVIOUS
<1> PICK sheet : sheet = Sheet(w)
  OBVIOUS
<1> PICK ids : ids = w.ids
  OBVIOUS
<1> PICK links : links = w.links
  OBVIOUS
<1> PICK n : n = job[r].node
  OBVIOUS
<1>1. pc[r] \in {"walk", "saveLoad"} /\ Importing(r)
  BY DEF Walk, SaveLoad, Undisturbed
<1>2. /\ w \in ImportWork /\ DOMAIN work = Requests /\ DOMAIN base = Requests /\ pc \in [Requests -> Statements]
  BY <1>1, Importer
<1>3. /\ nodes' = nodes /\ job' = job /\ copy' = copy
      /\ pc'[r] \in {"walk", "saveLoad", "saveWrite"}
      /\ pc'[r] = "saveWrite" => base'[r] = nodes[n]
      /\ work'[r] = w \/ \E p : work'[r] = [w EXCEPT !.cursor = p]
  <2>1. CASE SaveLoad(r)
    BY <1>2, <2>1 DEF SaveLoad, Goto, tables
  <2>2. CASE Walk(r)
    <3>1. CASE work[r].cursor = n
      <4>1. work' = [work EXCEPT ![r].failed = @ \/ TRUE]
        BY <1>1, <2>2, <3>1 DEF Walk, Answer
      <4>2. work'[r] = [w EXCEPT !.failed = TRUE]
        BY <1>2, <4>1 DEF ImportWork
      <4> QED  BY <1>2, <4>2, FailedNow
    <3>2. CASE work[r].cursor # n
      BY <1>1, <1>2, <2>2, <3>2 DEF Walk, Goto, tables, memory
    <3> QED  BY <3>1, <3>2
  <2> QED  BY <2>1, <2>2
<1>4. work'[r].ids = ids /\ work'[r].links = links /\ Sheet(work'[r]) = sheet
  <2>1. CASE work'[r] = w
    BY <2>1, Zenon
  <2>2. ASSUME NEW p, work'[r] = [w EXCEPT !.cursor = p]
        PROVE  work'[r].ids = ids /\ work'[r].links = links /\ Sheet(work'[r]) = sheet
    <3> PICK v : v = [w EXCEPT !.cursor = p]
      OBVIOUS
    <3>1. v.ids = ids /\ v.links = links /\ Sheet(v) = sheet
      BY <1>2, KeptFields
    <3> QED  BY <2>2, <3>1, Zenon
  <2> QED  BY <1>3, <2>1, <2>2
<1>5. /\ StoredOK(sheet, ids, links) /\ Len(ids) = Len(sheet)
      /\ Distinct(sheet) => Linked(sheet, ids, links, {n}) /\ Moving(sheet, ids, n, copy[r].parent)
  BY <1>1 DEF Progress
<1>6. /\ StoredOK(sheet, ids, links)'
      /\ Distinct(sheet) => Linked(sheet, ids, links, {n})'
  BY <1>3, <1>5, SameRows
<1> QED  BY <1>3, <1>4, <1>5, <1>6 DEF Progress

\* A row that nobody has written since it was loaded gets all the columns of the copy.
LEMMA MergeAll ==
  ASSUME NEW n \in Nodes, NEW row \in RowOf(n), NEW new \in RowOf(n)
  PROVE  Merge(row, row, new).parent = new.parent
<1>1. "parent" \in DOMAIN row
  BY DEF RowOf, IndicatorRow, AttributeRow
<1>2. Merge(row, row, new)["parent"] = IF new["parent"] # row["parent"] THEN new["parent"] ELSE row["parent"]
  BY <1>1 DEF Merge
<1> QED  BY <1>2

\* What a save of an import writes.
LEMMA SavedRow ==
  ASSUME IInv, NEW r \in Requests, Importing(r), SaveWrite(r), ~work'[r].failed
  PROVE  LET n == job[r].node
         IN  /\ n \in Nodes /\ pc'[r] = "importLink" /\ work'[r] = work[r]
             /\ \A m \in Nodes \ {n} : nodes'[m] = nodes[m]
             /\ nodes[n] # NULL => nodes'[n] # NULL
             /\ nodes[n] # NULL /\ base[r] = nodes[n] => nodes'[n].parent = copy[r].parent
<1> PICK w : w = work[r]
  OBVIOUS
<1> PICK n : n = job[r].node
  OBVIOUS
<1> PICK old : old = base[r]
  OBVIOUS
<1> PICK new : new = copy[r]
  OBVIOUS
<1> PICK row : row = IF old = NULL THEN new ELSE Merge(nodes[n], old, new)
  OBVIOUS
<1> DEFINE done == (old = NULL <=> nodes[n] = NULL) /\ Admissible(n, row)
           lost == ~done /\ (nodes[n] = NULL => old = NULL)
<1>1. /\ pc[r] = "saveWrite"
      /\ nodes' = IF done THEN [nodes EXCEPT ![n] = row] ELSE nodes
      /\ pc' = [pc EXCEPT ![r] = "importLink"]
      /\ work' = [work EXCEPT ![r].failed = @ \/ lost]
  BY DEF SaveWrite, Answer, Goto
<1>2. /\ w \in ImportWork /\ DOMAIN work = Requests /\ pc \in [Requests -> Statements] /\ TableTypes /\ InHand(r)
  BY Importer
<1>3. n \in Nodes /\ new \in RowOf(n) /\ NULL \notin RowOf(n)
  <2>1. n \in Nodes /\ new \in RowOf(n)
    BY <1>1, <1>2 DEF InHand, RowInHand, Ids
  <2> QED  BY <2>1, Rows DEF RowOf
<1>4. ~lost /\ work'[r] = w
  <2> HIDE DEF lost
  <2>1. work'[r] = [w EXCEPT !.failed = w.failed \/ lost]
    BY <1>1, <1>2
  <2>2. w.failed \in BOOLEAN
    BY <1>2 DEF ImportWork
  <2>3. (w.failed \/ lost) \in BOOLEAN
    OBVIOUS
  <2>4. (w.failed \/ lost) = FALSE
    <3>1. CASE w.failed \/ lost
      <4>1. (w.failed \/ lost) = TRUE
        BY <3>1
      <4>2. work'[r] = [w EXCEPT !.failed = TRUE]
        BY <2>1, <4>1
      <4> QED  BY <1>2, <4>2, FailedNow
    <3>2. CASE ~(w.failed \/ lost)
      BY <3>2
    <3> QED  BY <3>1, <3>2
  <2>5. work'[r] = [w EXCEPT !.failed = FALSE] /\ w.failed = FALSE
    BY <2>1, <2>2, <2>4
  <2>6. [w EXCEPT !.failed = FALSE] = w
    BY <1>2, <2>5 DEF ImportWork
  <2> QED  BY <2>4, <2>5, <2>6
<1>5. done => row # NULL /\ row \in RowOf(n)
  <2>1. CASE old = NULL
    BY <1>3, <2>1
  <2>2. CASE old # NULL /\ nodes[n] # NULL
    <3>1. nodes[n] \in RowOf(n)
      BY <1>2, <1>3, <2>2, RowTable
    <3>2. Merge(nodes[n], old, new) \in RowOf(n)
      BY <1>3, <3>1, MergeRow
    <3> QED  BY <1>3, <2>2, <3>2
  <2> QED  BY <2>1, <2>2
<1>6. /\ \A m \in Nodes \ {n} : nodes'[m] = nodes[m]
      /\ done => nodes'[n] = row
      /\ ~done => nodes'[n] = nodes[n]
  <2> HIDE DEF done
  <2> QED  BY <1>1, <1>2, <1>3 DEF TableTypes
<1>7. nodes[n] # NULL => nodes'[n] # NULL
  BY <1>5, <1>6
<1>8. nodes[n] # NULL /\ old = nodes[n] => nodes'[n].parent = new.parent
  <2> SUFFICES ASSUME nodes[n] # NULL, old = nodes[n] PROVE nodes'[n].parent = new.parent
    OBVIOUS
  <2>1. done
    BY <1>4
  <2>2. nodes'[n] = Merge(nodes[n], nodes[n], new)
    BY <1>6, <2>1
  <2>3. nodes[n] \in RowOf(n)
    BY <1>2, <1>3, RowTable
  <2> QED  BY <1>3, <2>2, <2>3, MergeAll
<1>9. pc'[r] = "importLink"
  BY <1>1, <1>2
<1> QED  BY <1>3, <1>4, <1>6, <1>7, <1>8, <1>9, Zenon

\* The row has the parent the sheet names, or the import has failed.
LEMMA WriteProgress ==
  ASSUME IInv, NEW r \in Requests, Undisturbed(r), Progress(r), SaveWrite(r), ~work'[r].failed
  PROVE  Progress(r)'
<1> PICK w : w = work[r]
  OBVIOUS
<1> PICK sheet : sheet = Sheet(w)
  OBVIOUS
<1> PICK ids : ids = w.ids
  OBVIOUS
<1> PICK links : links = w.links
  OBVIOUS
<1> PICK n : n = job[r].node
  OBVIOUS
<1> PICK p : p = copy[r].parent
  OBVIOUS
<1>1. pc[r] = "saveWrite" /\ Importing(r)
  BY DEF SaveWrite, Undisturbed
<1>2. w \in ImportWork
  BY <1>1, Importer
<1>3. /\ n \in Nodes /\ pc'[r] = "importLink" /\ work'[r] = w
      /\ \A m \in Nodes \ {n} : nodes'[m] = nodes[m]
      /\ nodes[n] # NULL => nodes'[n] # NULL
      /\ nodes[n] # NULL /\ base[r] = nodes[n] => nodes'[n].parent = p
  BY <1>1, SavedRow
<1>4. /\ sheet \in Seq(ExcelRow) /\ ids \in Seq(Codes \X Nodes) /\ links \in Seq(ExcelRow)
  BY <1>2, ImportFields
<1>5. /\ StoredOK(sheet, ids, links) /\ Len(ids) = Len(sheet)
      /\ Distinct(sheet) => /\ Linked(sheet, ids, links, {n}) /\ Moving(sheet, ids, n, p)
                            /\ base[r] = nodes[n]
  BY <1>1 DEF Progress
<1>6. StoredOK(sheet, ids, links)'
  <2>1. \A m \in Nodes : nodes[m] # NULL => nodes'[m] # NULL
    BY <1>3
  <2> QED  BY <1>4, <1>5, <2>1, StoredStay
<1>7. ASSUME Distinct(sheet) PROVE LinkedNext(sheet, ids, links)
  <2>1. nodes[n] # NULL
    <3>1. PICK i \in DOMAIN sheet : n = ids[i][2]
      BY <1>5, <1>7 DEF Moving
    <3>2. i \in DOMAIN ids
      BY <1>4, <1>5
    <3> QED  BY <1>5, <3>1, <3>2 DEF StoredOK
  <2>2. MovedTo(sheet, ids, links, n, p)
    BY <1>3, <1>4, <1>5, <1>7, <2>1 DEF MovedTo
  <2> QED  BY <2>2, MoveLine, Zenon
<1>8. Distinct(sheet) => Linked(sheet, ids, links, {})'
  BY <1>7 DEF LinkedNext
<1> QED  BY <1>3, <1>5, <1>6, <1>8 DEF Progress

\* A statement of x leaves the others alone, turns no request into an import, and gives
\* nobody the server to himself.
Local(x) ==
  /\ pc[x] # "idle"
  /\ \A q \in Requests \ {x} : pc'[q] = pc[q] /\ job'[q] = job[q]
  /\ job'[x].solo => job[x].solo
  /\ job'[x].op \in {"none", job[x].op}

\* The shapes of a statement: the request ends, or goes on.
LEMMA LocalEnd ==
  ASSUME IInv, NEW x \in Requests, pc[x] # "idle", End(x)
  PROVE  Local(x)
<1>1. pc \in [Requests -> Statements] /\ job \in [Requests -> Job]
  BY DEF IInv, TypeOK, RequestTypes
<1> QED  BY <1>1 DEF End, Goto, NoJob, Local

\* A request that goes on, with the same job or another row of it.
LEMMA LocalStep ==
  ASSUME IInv, NEW x \in Requests, pc[x] # "idle", pc' = pc \/ \E label : Goto(x, label),
         job' = job \/ \E n : job' = [job EXCEPT ![x].node = n]
  PROVE  Local(x)
<1>1. pc \in [Requests -> Statements] /\ job \in [Requests -> Job]
  BY DEF IInv, TypeOK, RequestTypes
<1>2. \A q \in Requests \ {x} : pc'[q] = pc[q]
  BY <1>1 DEF Goto
<1>3. /\ \A q \in Requests \ {x} : job'[q] = job[q]
      /\ job'[x].op = job[x].op /\ job'[x].solo = job[x].solo
  BY <1>1 DEF Job
<1> QED  BY <1>2, <1>3 DEF Local

\* Every statement has one of them.
LEMMA HandleLocal ==
  ASSUME IInv, NEW x \in Requests, Handle(x)
  PROVE  Local(x)
<1>1. CASE \/ NewForm(x) \/ CopyTree(x) \/ FormWrite(x) \/ DropForm(x) \/ Delete(x) \/ ReorderWrite(x)
           \/ WriteCells(x) \/ EraseCells(x) \/ RulesOn(x) \/ EraseRules(x) \/ ListWrite(x) \/ ListDrop(x)
  <2>1. pc[x] # "idle" /\ End(x)
    BY <1>1 DEF NewForm, CopyTree, FormWrite, DropForm, Delete, ReorderWrite, WriteCells, EraseCells, RulesOn,
                EraseRules, ListWrite, ListDrop
  <2> QED  BY <2>1, LocalEnd
<1>2. CASE FormLoad(x) \/ RulesOff(x) \/ ListLoad(x) \/ SaveLoad(x) \/ ImportLinks(x)
  <2>1. pc[x] # "idle" /\ (\E label : Goto(x, label)) /\ job' = job
    BY <1>2 DEF FormLoad, RulesOff, ListLoad, SaveLoad, ImportLinks, memory
  <2> QED  BY <2>1, LocalStep
<1>3. CASE Insert(x) \/ Walk(x) \/ SaveWrite(x) \/ ImportNext(x)
  <2>1. pc[x] # "idle" /\ (End(x) \/ (job' = job /\ (pc' = pc \/ \E label : Goto(x, label))))
    BY <1>3 DEF Insert, Walk, SaveWrite, ImportNext, Answer, memory
  <2> QED  BY <2>1, LocalStep, LocalEnd
<1>4. CASE ImportIndicator(x) \/ ImportAttribute(x)
  <2>1. pc[x] # "idle" /\ (pc' = pc \/ \E label : Goto(x, label)) /\ job' = job
    BY <1>4 DEF ImportIndicator, ImportAttribute, ImportAs
  <2> QED  BY <2>1, LocalStep
<1>5. CASE LinkIndicator(x) \/ LinkAttribute(x)
  <2>1. /\ pc[x] # "idle" /\ (pc' = pc \/ \E label : Goto(x, label))
        /\ job' = job \/ \E n : job' = [job EXCEPT ![x].node = n]
    BY <1>5 DEF LinkIndicator, LinkAttribute, LinkAs
  <2> QED  BY <2>1, LocalStep
<1> QED  BY <1>1, <1>2, <1>3, <1>4, <1>5 DEF Handle

\* Only an import arrives as one.
Taken(r) ==
  \E label, op, f, n : /\ Take(r, label, op, f, n)
                       /\ op = "import" => \E book \in Sheets : Import(r, f, book)

\* What arrives is taken, as an import only when it is one.
LEMMA RequestedTaken ==
  ASSUME NEW r \in Requests, Requested(r)
  PROVE  Taken(r)
<1>1. ASSUME NEW label, NEW op, op # "import", NEW f, NEW n, Take(r, label, op, f, n)
      PROVE  Taken(r)
  BY <1>1 DEF Taken
<1>2. CASE FormsController(r)
  BY <1>1, <1>2 DEF FormsController, CreateForm, PatchForm, SetOther, MarkFormReady, ArchiveForm, RemoveForm, CopyForm
<1>3. CASE FormAttributesController(r)
  BY <1>1, <1>3 DEF FormAttributesController, CreateAttribute, PatchAttribute, Revise, RemoveAttribute,
                    ReorderAttributes, Reorder
<1>4. CASE FormIndicatorsController(r)
  BY <1>1, <1>4 DEF FormIndicatorsController, CreateIndicator, PatchIndicator, Revise, RemoveIndicator,
                    ReorderIndicators, Reorder
<1>5. CASE FormCellConfigsController(r) \/ TemplateScopeController(r)
  BY <1>1, <1>5 DEF FormCellConfigsController, UpsertCellConfigs, DeleteCellConfigs, TemplateScopeController,
                    UpsertTemplateScopes, DeleteTemplateScopes
<1>6. CASE ImportController(r)
  <2>1. PICK f \in Forms, book \in Sheets : Import(r, f, book)
    BY <1>6 DEF ImportController
  <2>2. Take(r, "importRow", "import", f, NULL)
    BY <2>1 DEF Import
  <2> QED  BY <2>1, <2>2 DEF Taken
<1>7. CASE IndicatorCatalogController(r) \/ FieldCategoriesController(r)
  BY <1>1, <1>7 DEF IndicatorCatalogController, FieldCategoriesController, CreateListEntry, PatchListEntry,
                    RemoveListEntry
<1> QED  BY <1>2, <1>3, <1>4, <1>5, <1>6, <1>7 DEF Requested

\* Who has had the server to himself is alone, also after the next step.
LEMMA SoloNext ==
  ASSUME IInv, SoloOK, [Next]_vars
  PROVE  SoloOK'
<1>1. pc \in [Requests -> Statements] /\ job \in [Requests -> Job]
  BY DEF IInv, TypeOK, RequestTypes
<1>2. ASSUME NEW x \in Requests, Requested(x) PROVE SoloOK'
  <2>1. PICK label, op, f, n : Take(x, label, op, f, n)
    BY <1>2, RequestedTaken DEF Taken
  <2>2. \A q \in Requests \ {x} : pc'[q] = pc[q]
    BY <1>1, <2>1 DEF Take, Goto
  <2>3. \A r \in Requests \ {x} : ~job'[r].solo
    BY <1>1, <2>1 DEF Take, Job
  <2>4. job'[x].solo => \A p \in Requests : pc[p] = "idle"
    BY <1>1, <2>1 DEF Take
  <2> QED  BY <2>2, <2>3, <2>4 DEF SoloOK
<1>3. ASSUME NEW x \in Requests, Handle(x) \/ Crash(x) PROVE SoloOK'
  <2>1. Local(x)
    BY <1>3, HandleLocal, LocalEnd DEF Crash
  <2> QED  BY <2>1 DEF Local, SoloOK
<1>4. ASSUME NEW f \in Forms, MakeCampaign(f) PROVE SoloOK'
  BY <1>4 DEF MakeCampaign, memory, SoloOK
<1>5. CASE UNCHANGED vars
  BY <1>5 DEF vars, memory, SoloOK
<1> QED  BY <1>2, <1>3, <1>4, <1>5 DEF Next

ImportStatement(r) ==
  \/ Insert(r) \/ Walk(r) \/ SaveLoad(r) \/ SaveWrite(r) \/ ImportIndicator(r) \/ ImportAttribute(r)
  \/ ImportLinks(r) \/ LinkIndicator(r) \/ LinkAttribute(r) \/ ImportNext(r)

\* The statements an import can be at.
LEMMA ImportHandle ==
  ASSUME IInv, NEW r \in Requests, Importing(r), Handle(r)
  PROVE  ImportStatement(r)
<1>1. pc[r] \in {"importRow", "insert", "importLink", "walk", "saveLoad", "saveWrite"}
  BY Importer
<1>2. ~(\/ NewForm(r) \/ CopyTree(r) \/ FormLoad(r) \/ FormWrite(r) \/ DropForm(r) \/ Delete(r) \/ ReorderWrite(r)
        \/ WriteCells(r) \/ EraseCells(r) \/ RulesOff(r) \/ RulesOn(r) \/ EraseRules(r)
        \/ ListLoad(r) \/ ListWrite(r) \/ ListDrop(r))
  BY <1>1 DEF NewForm, CopyTree, FormLoad, FormWrite, DropForm, Delete, ReorderWrite, WriteCells, EraseCells,
              RulesOff, RulesOn, EraseRules, ListLoad, ListWrite, ListDrop
<1> QED  BY <1>2 DEF Handle, ImportStatement

\* An import that goes on with the other sheet.
LEMMA Reopened ==
  ASSUME IInv, NEW r \in Requests, Importing(r), ImportNext(r), Importing(r)'
  PROVE  /\ pc'[r] = "importRow" /\ work'[r] = Opened(work[r].book, Attributes, work[r].failed)
         /\ work'[r].failed = work[r].failed /\ work[r].book \in Sheets /\ work[r].failed \in BOOLEAN
<1>1. work[r] \in ImportWork /\ DOMAIN work = Requests /\ pc \in [Requests -> Statements] /\ job \in [Requests -> Job]
  BY Importer
<1>2. ~End(r)
  BY <1>1 DEF End, NoJob, Importing
<1>3. /\ pc' = [pc EXCEPT ![r] = "importRow"]
      /\ work' = [work EXCEPT ![r] = Opened(work[r].book, Attributes, work[r].failed)]
  BY <1>2 DEF ImportNext, Goto
<1>4. pc'[r] = "importRow" /\ work'[r] = Opened(work[r].book, Attributes, work[r].failed)
  BY <1>1, <1>3
<1>5. work[r].book \in Sheets /\ work[r].failed \in BOOLEAN
  BY <1>1 DEF ImportWork
<1> QED  BY <1>4, <1>5 DEF Opened

\* A failure that has been noted is not forgotten.
LEMMA FailedStays ==
  ASSUME IInv, NEW r \in Requests, Importing(r), Handle(r), Importing(r)', ~work'[r].failed
  PROVE  ~work[r].failed
<1> PICK w : w = work[r]
  OBVIOUS
<1>1. /\ w \in ImportWork /\ DOMAIN work = Requests /\ InHand(r)
  BY Importer
<1>2. CASE Insert(r)
  <2>1. pc[r] = "insert" /\ w.head \in ExcelRow /\ w.head # NULL
    BY <1>1, <1>2, NullAssumption DEF Insert, InHand, ImportInHand
  <2>2. PICK n \in Nodes : work'[r] = Stored(w, n)
    BY <1>2, Inserted
  <2>3. Stored(w, n).failed = w.failed
    BY <1>1, <2>1, ImportFields
  <2> QED  BY <2>2, <2>3
<1>3. CASE Walk(r) \/ SaveLoad(r)
  <2>1. \/ work' = work
        \/ \E p : work' = [work EXCEPT ![r].cursor = p]
        \/ work' = [work EXCEPT ![r].failed = @ \/ TRUE]
    BY <1>3 DEF Walk, SaveLoad, Answer, memory
  <2>2. CASE work' = work
    BY <2>2
  <2>3. CASE \E p : work' = [work EXCEPT ![r].cursor = p]
    <3> PICK p : work' = [work EXCEPT ![r].cursor = p]
      BY <2>3
    <3> PICK v : v = [w EXCEPT !.cursor = p]
      OBVIOUS
    <3>1. v.failed = w.failed
      BY <1>1, KeptFields
    <3>2. work'[r] = v
      BY <1>1
    <3> QED  BY <3>1, <3>2
  <2>4. CASE work' = [work EXCEPT ![r].failed = @ \/ TRUE]
    <3>1. work'[r] = [w EXCEPT !.failed = TRUE]
      BY <1>1, <2>4
    <3> QED  BY <1>1, <3>1, FailedNow
  <2> QED  BY <2>1, <2>2, <2>3, <2>4
<1>4. CASE SaveWrite(r)
  BY <1>4, SavedRow
<1>5. CASE ImportIndicator(r) \/ ImportAttribute(r)
  <2>1. w.rows # <<>> /\ \E good, row : ImportAs(r, good, row)
    BY <1>5 DEF ImportIndicator, ImportAttribute
  <2>2. PICK good, row : ImportAs(r, good, row)
    BY <2>1
  <2>3. Fetched(w) \in ImportWork /\ Fetched(w).failed = w.failed
    BY <1>1, <2>1, ImportKeeps, ImportFields
  <2>4. CASE good
    <3>1. work'[r] = Fetched(w)
      BY <1>1, <2>2, <2>4 DEF ImportAs
    <3> QED  BY <2>3, <3>1
  <2>5. CASE ~good
    <3>1. work'[r] = [Fetched(w) EXCEPT !.failed = TRUE]
      BY <1>1, <2>2, <2>5 DEF ImportAs
    <3> QED  BY <2>3, <3>1, FailedNow
  <2> QED  BY <2>4, <2>5
<1>6. CASE ImportLinks(r)
  BY <1>6 DEF ImportLinks, memory
<1>7. CASE LinkIndicator(r) \/ LinkAttribute(r)
  <2> PICK link : link = Head(w.links)
    OBVIOUS
  <2>1. w.links # <<>> /\ LinkAs(r, link)
    BY <1>7 DEF LinkIndicator, LinkAttribute
  <2>2. \E p \in Nodes : work'[r] = Tried(w, p)
    BY <2>1, LinkMade
  <2>3. \A p \in Nodes : Tried(w, p).failed = w.failed
    BY <1>1, <2>1, ImportFields
  <2> QED  BY <2>2, <2>3
<1>8. CASE ImportNext(r)
  BY <1>8, Reopened
<1> QED  BY <1>2, <1>3, <1>4, <1>5, <1>6, <1>7, <1>8, ImportHandle DEF ImportStatement

\* Its own statements.
LEMMA OwnProgress ==
  ASSUME IInv, NEW r \in Requests, Undisturbed(r) => Progress(r), Handle(r), Undisturbed(r)'
  PROVE  Progress(r)'
<1>1. job'[r].solo /\ Importing(r)' /\ ~work'[r].failed
  BY DEF Undisturbed
<1>2. Importing(r) /\ job[r].solo
  BY <1>1, HandleLocal DEF Local, Importing
<1>3. ~work[r].failed
  BY <1>1, <1>2, FailedStays
<1>4. Undisturbed(r) /\ Progress(r)
  BY <1>2, <1>3 DEF Undisturbed
<1>5. CASE ImportNext(r)
  <2> PICK book : book = work[r].book
    OBVIOUS
  <2> PICK b : b = work[r].failed
    OBVIOUS
  <2>1. pc'[r] = "importRow" /\ work'[r] = Opened(book, Attributes, b) /\ book \in Sheets /\ b \in BOOLEAN
    BY <1>1, <1>2, <1>5, Reopened
  <2> QED  BY <2>1, NextProgress
<1> QED  BY <1>1, <1>2, <1>4, <1>5, ImportHandle, InsertProgress, FetchProgress, LinksProgress, LinkProgress,
            WalkProgress, WriteProgress DEF ImportStatement

\* Every step: who is undisturbed has only his own.
LEMMA ImportStep ==
  ASSUME IInv, IInv', ImportInv, [Next]_vars
  PROVE  ImportInv'
<1>1. SoloOK'
  BY SoloNext DEF ImportInv
<1> SUFFICES ASSUME NEW r \in Requests, Undisturbed(r)' PROVE Progress(r)'
  BY <1>1 DEF ImportInv
<1>2. /\ pc \in [Requests -> Statements] /\ job \in [Requests -> Job]
      /\ DOMAIN work = Requests /\ DOMAIN copy = Requests /\ DOMAIN base = Requests
      /\ pc[r] = "idle" <=> job[r].op = "none"
  BY DEF IInv, TypeOK, RequestTypes
<1>3. job'[r].solo /\ Importing(r)' /\ ~work'[r].failed
  BY DEF Undisturbed
<1>4. Undisturbed(r) => Progress(r)
  BY DEF ImportInv
<1>5. CASE UNCHANGED <<nodes, pc, job, copy, base, work>>
  <2>1. Undisturbed(r)
    BY <1>5 DEF Undisturbed, Importing
  <2>2. Progress(r)
    BY <1>4, <2>1
  <2> QED  BY <1>5, <2>2 DEF Progress, StoredOK, ToStore, Linked
<1>6. ASSUME NEW x \in Requests, Requested(x) PROVE Progress(r)'
  <2>1. PICK label, op, f, n : /\ Take(x, label, op, f, n)
                               /\ op = "import" => \E book \in Sheets : Import(x, f, book)
    BY <1>6, RequestedTaken DEF Taken
  <2>2. x = r
    BY <1>2, <1>3, <2>1 DEF Take, Job
  <2>3. op = "import"
    BY <1>2, <1>3, <2>1, <2>2 DEF Take, Importing
  <2>4. PICK book \in Sheets : Import(r, f, book)
    BY <2>1, <2>2, <2>3
  <2>5. pc'[r] = "importRow" /\ work'[r] = Opened(book, Indicators, FALSE)
    BY <1>2, <2>4 DEF Import, Take, Goto, Hold
  <2> QED  BY <2>5, NextProgress
<1>7. ASSUME NEW x \in Requests, Handle(x) \/ Crash(x) PROVE Progress(r)'
  <2>1. Local(x)
    BY <1>7, HandleLocal, LocalEnd DEF Crash
  <2>2. job[r].solo
    BY <1>3, <2>1 DEF Local
  <2>3. x = r
    BY <2>1, <2>2 DEF Local, ImportInv, SoloOK
  <2>4. ~Crash(r)
    BY <1>2, <1>3 DEF Crash, End, NoJob, Importing
  <2> QED  BY <1>4, <1>7, <2>3, <2>4, OwnProgress
<1>8. ASSUME NEW f \in Forms, MakeCampaign(f) PROVE Progress(r)'
  BY <1>5, <1>8 DEF MakeCampaign, memory
<1>9. CASE UNCHANGED vars
  BY <1>5, <1>9 DEF vars, tables, memory
<1> QED  BY <1>6, <1>7, <1>8, <1>9 DEF Next

\* importIndicatorsFromExcel stores the sheet when nobody disturbs it and no row fails:
\* all rows in their order, and each under the row that its parent's key names, because
\* the links are made when every row of the sheet has its id.
THEOREM ImportsStored == Spec => []ImportAsSheet
<1>1. Init => ImportInv
  <2> SUFFICES ASSUME Init PROVE ImportInv
    OBVIOUS
  <2>1. \A r \in Requests : pc[r] = "idle" /\ ~job[r].solo
    BY DEF Init, NoJob
  <2> QED  BY <2>1 DEF ImportInv, SoloOK, Undisturbed
<1>2. IInv /\ IInv' /\ ImportInv /\ [Next]_vars => ImportInv'
  BY ImportStep
<1>3. IInv /\ ImportInv => ImportAsSheet
  <2> SUFFICES ASSUME IInv, ImportInv, NEW r \in Requests,
                      pc[r] = "importLink", work[r].links = <<>>, ~work[r].failed, job[r].solo
               PROVE  LET sheet == RowsOf(work[r].book, SideOf(r))
                          ids == work[r].ids
                          keys == {sheet[i].key : i \in DOMAIN sheet}
                      IN  /\ Len(ids) = Len(sheet)
                          /\ Cardinality(keys) = Len(sheet) =>
                               \A i \in DOMAIN sheet :
                                 LET row == nodes[ids[i][2]]
                                 IN  IF sheet[i].parent = NULL THEN row.parent = NULL
                                     ELSE \E j \in DOMAIN sheet : /\ sheet[j].key = sheet[i].parent
                                                                  /\ row.parent = ids[j][2]
    BY DEF ImportAsSheet
  <2> PICK sheet : sheet = RowsOf(work[r].book, SideOf(r))
    OBVIOUS
  <2> PICK ids : ids = work[r].ids
    OBVIOUS
  <2>1. Importing(r)
    BY DEF IInv, RequestsOK, RequestOK, InHand, ImportInHand
  <2>2. sheet = Sheet(work[r]) /\ sheet \in Seq(ExcelRow)
    BY <2>1, Importer, ImportFields DEF Sheet, SideOf
  <2>3. Progress(r)
    BY <2>1 DEF ImportInv, Undisturbed
  <2>4. Len(ids) = Len(sheet) /\ (Distinct(sheet) => Linked(sheet, ids, <<>>, {}))
    BY <2>2, <2>3 DEF Progress
  <2>5. ASSUME Cardinality({sheet[i].key : i \in DOMAIN sheet}) = Len(sheet), NEW i \in DOMAIN sheet
        PROVE  IF sheet[i].parent = NULL THEN nodes[ids[i][2]].parent = NULL
               ELSE \E j \in DOMAIN sheet : sheet[j].key = sheet[i].parent /\ nodes[ids[i][2]].parent = ids[j][2]
    <3>1. Distinct(sheet)
      BY <2>2, <2>5, DistinctKeys
    <3>2. ~Pending(<<>>, sheet[i])
      BY DEF Pending
    <3>3. Linked(sheet, ids, <<>>, {})
      BY <2>4, <3>1
    <3> QED  BY <3>2, <3>3 DEF Linked, Under
  <2> QED  BY <2>4, <2>5
<1> QED  BY <1>1, <1>2, <1>3, TemplateInvariant, PTL DEF Spec

=============================================================================
