----------------------- MODULE SubmissionSerialProofs -----------------------
(***************************************************************************)
(* What holds of a report while the requests on it take turns: any number  *)
(* of requests may be in hand, and each may die between two statements, as *)
(* long as no two of them are on the same assignment (Apart; the instance of*)
(* the run SubmissionSerial has one request at a time, and is apart).  Then*)
(* the properties that overlapping requests break hold, and the handlers   *)
(* implement ReportWorkflow.                                               *)
(***************************************************************************)
EXTENDS SubmissionProofs

\* The requests on an assignment take turns.
Apart ==
  \A r, q \in Requests :
    pc[r] # "idle" /\ pc[q] # "idle" /\ job[r].assignment = job[q].assignment => r = q

-----------------------------------------------------------------------------
(* What a request that is alone on its assignment knows of the tables.     *)

\* r has its report: it is past making one, if it makes one.
Opened(r) == pc[r] \notin {"idle", "code", "insert"}

\* r has cells of report s half-written.
Patching(r, s) ==
  /\ pc[r] \in {"cell", "cellWrite", "saveLoad", "saveWrite"}
  /\ job[r].op = "patchCells" /\ job[r].sub = s

\* r has moved report s on and has not logged it.
Logging(r, s) == pc[r] \in {"logCells", "logRow", "logWrite"} /\ job[r].sub = s

\* The status a move starts from goes with the one the entry before it ended in.
Follows(from, to) == from = to \/ (to = "PENDING_DEPARTMENT" /\ from = "DRAFT")

LastEntry(s) == logs[s][Len(logs[s])]

\* A request that is to make a report makes the first one.
Opening(r) ==
  pc[r] \in {"code", "insert"} =>
    \A s \in Submissions : Exists(s) => rows[s].assignment # job[r].assignment

OwnRow(r) == Opened(r) => rows[job[r].sub].assignment = job[r].assignment

CopyTrue(r) ==
  /\ pc[r] \in {"view", "cell", "cellWrite"} \cup LogLabels => mem[r] = rows[job[r].sub]
  /\ pc[r] = "saveWrite" => base[r] = rows[job[r].sub]

\* The copy r is about to save is the row there is, with what r changes in it.
PatchMade(r, row) ==
  mem[r] = [row EXCEPT !.completionPct =
                           Completion(row.assignment, Cardinality(Filled(job[r].sub))),
                       !.version = @ + 1]

MoveMade(r, row) ==
  /\ mem[r].assignment = row.assignment /\ mem[r].completionPct = row.completionPct
  /\ job[r].op \in LoggedOps =>
       <<job[r].op, row.status, mem[r].status>> \in Moves /\ job[r].from = row.status
  /\ job[r].op \notin LoggedOps =>
       row.status = "PENDING_DEPARTMENT" /\ mem[r].status = "DRAFT"
  /\ mem[r].version = IF job[r].op = "submit" THEN row.version + 1 ELSE row.version

ChangeTrue(r) ==
  pc[r] \in {"saveLoad", "saveWrite"} =>
    IF job[r].op = "patchCells" THEN PatchMade(r, rows[job[r].sub])
                                ELSE MoveMade(r, rows[job[r].sub])

PatchTrue(r) ==
  \A s \in Submissions : Patching(r, s) =>
    /\ rows[s].status \in Editable
    /\ job[r].user \in Reporters
    /\ view[job[r].user].sub = s => view[job[r].user].version = rows[s].version
    /\ \A c \in edit[r].saved : cells[s][c] = edit[r].val
    /\ pc[r] = "cellWrite" => edit[r].old = cells[s][edit[r].cur]

\* What r is about to log goes on from the last entry there is.
LogTrue(r) ==
  \A s \in Submissions : Logging(r, s) =>
    /\ Len(logs[s]) > 0 /\ s \notin died =>
         /\ Follows(job[r].from, LastEntry(s).to)
         /\ EventOf[job[r].op] # "SUBMIT" =>
              LastEntry(s).cells = cells[s] /\ LastEntry(s).version = rows[s].version
    /\ pc[r] \in {"logRow", "logWrite"} => snap[r].cells = cells[s]
    /\ pc[r] = "logWrite" => snap[r].version = rows[s].version

Knows(r) ==
  /\ Opening(r) /\ OwnRow(r) /\ CopyTrue(r)
  /\ ChangeTrue(r) /\ PatchTrue(r) /\ LogTrue(r)

-----------------------------------------------------------------------------
(* What is true of a report, also while a request is at work on it.        *)

\* Under a free code there is nothing.
FreeIsEmpty(s) == ~Exists(s) => cells[s] = NoCells /\ logs[s] = << >>

DeskTrue(s) == Exists(s) /\ rows[s].status \notin Editable => cells[s] = content[s]

\* No screen is ahead of the row.
Behind(s) ==
  \A u \in Reporters :
    view[u].sub = s => Exists(s) /\ view[u].version <= rows[s].version

\* A screen with the row's version shows every cell no patch has yet got at.
ScreensTrue(s) ==
  \A u \in Reporters : view[u].sub = s /\ view[u].version = rows[s].version =>
    \A c \in Cells : (\A r \in Requests : Patching(r, s) => c \notin edit[r].saved) =>
      view[u].cells[c] = cells[s][c]

CountTrue(s) ==
  Exists(s) /\ Filled(s) # {} /\ (\A r \in Requests : ~Patching(r, s)) =>
    rows[s].completionPct = Completion(rows[s].assignment, Cardinality(Filled(s)))

\* Entry n may come after entry e.
Chained(e, n) ==
  /\ Follows(n.from, e.to)
  /\ n.event # "SUBMIT" => n.cells = e.cells /\ n.version = e.version

ChainTrue(s) == \A i \in 1 .. Len(logs[s]) - 1 : Chained(logs[s][i], logs[s][i + 1])

LastEntryTrue(s) ==
  Len(logs[s]) > 0 /\ (\A r \in Requests : ~Logging(r, s)) =>
    /\ Follows(rows[s].status, LastEntry(s).to)
    /\ rows[s].status \notin Editable =>
         LastEntry(s).cells = cells[s] /\ LastEntry(s).version = rows[s].version

\* Where no request died; a death may leave a patch uncounted or a move unlogged.
WholeTrue(s) == ScreensTrue(s) /\ CountTrue(s) /\ ChainTrue(s) /\ LastEntryTrue(s)

ReportTrue(s) ==
  FreeIsEmpty(s) /\ DeskTrue(s) /\ Behind(s) /\ (s \notin died => WholeTrue(s))

SerialInv ==
  /\ \A r \in Requests : Knows(r)
  /\ \A s \in Submissions : ReportTrue(s)
  /\ OneSubmissionPerAssignment

-----------------------------------------------------------------------------
(* A step of one request on one report.                                    *)

\* A step of r writes nothing but report s and what r itself has in hand.
Elsewhere(r, s) ==
  /\ OthersUntouched(r)
  /\ \A q \in Requests \ {r} : base'[q] = base[q]
  /\ died \subseteq died'
  /\ \A t \in Submissions \ {s} :
       /\ rows'[t] = rows[t] /\ cells'[t] = cells[t]
       /\ logs'[t] = logs[t] /\ content'[t] = content[t]
  /\ \A u \in Reporters : view'[u] = view[u] \/ view'[u].sub = s

On(r, s) == Opened(r) => job[r].sub = s

\* Two requests that are alone on their assignments are on two reports.
LEMMA ApartOnReports ==
  ASSUME Apart, SerialInv, NEW r \in Requests, NEW q \in Requests, q # r,
         Opened(r), Opened(q)
  PROVE  job[q].sub # job[r].sub
BY DEF Apart, SerialInv, Knows, OwnRow, Opened

\* What another request knows stays true.
LEMMA OtherKnows ==
  ASSUME TypeInv, NEW r \in Requests, NEW s, Elsewhere(r, s),
         NEW q \in Requests, q # r, Knows(q), Opened(q) => job[q].sub # s, Opening(q)'
  PROVE  Knows(q)'
<1>1. /\ pc'[q] = pc[q] /\ job'[q] = job[q] /\ mem'[q] = mem[q] /\ base'[q] = base[q]
      /\ edit'[q] = edit[q] /\ snap'[q] = snap[q]
  BY DEF Elsewhere, OthersUntouched
<1>2. CASE ~Opened(q)
  BY <1>1, <1>2 DEF Knows, Opened, OwnRow, CopyTrue, ChangeTrue, PatchTrue, LogTrue,
     Patching, Logging, LogLabels
<1>3. CASE Opened(q)
  <2>1. PICK t \in Submissions : t = job[q].sub /\ t # s
    BY <1>3 DEF Opened, TypeInv, InHandOK, InHand
  <2>2. rows'[t] = rows[t] /\ cells'[t] = cells[t] /\ logs'[t] = logs[t]
    BY <2>1 DEF Elsewhere
  <2>3. OwnRow(q)' /\ CopyTrue(q)'
    BY <1>1, <2>1, <2>2 DEF Knows, OwnRow, CopyTrue, Opened
  <2>4. ChangeTrue(q)'
    <3>1. Filled(t)' = Filled(t)
      BY <2>2 DEF Filled
    <3> QED  BY <1>1, <2>1, <2>2, <3>1 DEF Knows, ChangeTrue, PatchMade, MoveMade
  <2>5. PatchTrue(q)'
    <3> SUFFICES ASSUME Patching(q, t)
        PROVE  /\ rows'[t].status \in Editable
               /\ job[q].user \in Reporters
               /\ view'[job[q].user].sub = t => view'[job[q].user].version = rows'[t].version
               /\ \A c \in edit[q].saved : cells'[t][c] = edit[q].val
               /\ pc[q] = "cellWrite" => edit[q].old = cells'[t][edit[q].cur]
      BY <1>1, <2>1 DEF PatchTrue, Patching
    <3>1. PatchTrue(q)
      BY DEF Knows
    <3>2. view'[job[q].user].sub = t => view'[job[q].user] = view[job[q].user]
      BY <2>1, <3>1 DEF Elsewhere, PatchTrue
    <3> QED  BY <2>2, <3>1, <3>2 DEF PatchTrue
  <2>6. LogTrue(q)'
    <3>1. t \notin died' => t \notin died
      BY DEF Elsewhere
    <3> QED  BY <1>1, <2>1, <2>2, <3>1 DEF Knows, LogTrue, Logging, LastEntry
  <2> QED  BY <2>3, <2>4, <2>5, <2>6 DEF Knows
<1> QED  BY <1>2, <1>3

\* What is true of another report stays true.
LEMMA OtherReport ==
  ASSUME NEW r \in Requests, NEW s, Elsewhere(r, s), On(r, s), On(r, s)',
         NEW t \in Submissions, t # s, ReportTrue(t)
  PROVE  ReportTrue(t)'
<1>1. /\ rows'[t] = rows[t] /\ cells'[t] = cells[t]
      /\ logs'[t] = logs[t] /\ content'[t] = content[t]
      /\ t \notin died' => t \notin died
  BY DEF Elsewhere
<1>2. Filled(t)' = Filled(t) /\ Exists(t)' = Exists(t) /\ LastEntry(t)' = LastEntry(t)
  BY <1>1 DEF Filled, Exists, LastEntry
<1>3. \A q \in Requests : /\ Patching(q, t)' <=> Patching(q, t)
                          /\ Logging(q, t)' <=> Logging(q, t)
                          /\ Patching(q, t) => edit'[q].saved = edit[q].saved
  <2>1. /\ ~Patching(r, t) /\ ~Patching(r, t)'
        /\ ~Logging(r, t) /\ ~Logging(r, t)'
    BY DEF On, Opened, Patching, Logging
  <2>2. \A q \in Requests \ {r} :
          pc'[q] = pc[q] /\ job'[q] = job[q] /\ edit'[q] = edit[q]
    BY DEF Elsewhere, OthersUntouched
  <2> QED  BY <2>1, <2>2 DEF Patching, Logging
<1>4. \A u \in Reporters : view'[u].sub = t => view'[u] = view[u]
  BY DEF Elsewhere
<1>5. FreeIsEmpty(t)' /\ DeskTrue(t)' /\ Behind(t)'
  BY <1>1, <1>2, <1>4 DEF ReportTrue, FreeIsEmpty, DeskTrue, Behind
<1>6. ASSUME t \notin died' PROVE WholeTrue(t)'
  <2>1. WholeTrue(t)
    BY <1>1, <1>6 DEF ReportTrue
  <2>2. ScreensTrue(t)'
    BY <1>1, <1>3, <1>4, <2>1 DEF WholeTrue, ScreensTrue
  <2>3. CountTrue(t)'
    BY <1>1, <1>2, <1>3, <2>1 DEF WholeTrue, CountTrue
  <2>4. ChainTrue(t)' /\ LastEntryTrue(t)'
    BY <1>1, <1>2, <1>3, <2>1 DEF WholeTrue, ChainTrue, LastEntryTrue
  <2> QED  BY <2>2, <2>3, <2>4 DEF WholeTrue
<1> QED  BY <1>5, <1>6 DEF ReportTrue

\* A step of r on report s keeps the invariant when no other request is on s and
\* what r knows and what is true of s are true after it.
LEMMA StepKeepsSerial ==
  ASSUME TypeInv, SerialInv, NEW r \in Requests, NEW s \in Submissions \cup {NULL},
         Elsewhere(r, s), On(r, s), On(r, s)',
         \A q \in Requests \ {r} : Opened(q) => job[q].sub # s,
         \A q \in Requests \ {r} : Opening(q)',
         Knows(r)', s \in Submissions => ReportTrue(s)', OneSubmissionPerAssignment'
  PROVE  SerialInv'
<1>1. \A q \in Requests : Knows(q)'
  BY OtherKnows DEF SerialInv
<1>2. \A t \in Submissions : ReportTrue(t)'
  BY OtherReport DEF SerialInv
<1> QED  BY <1>1, <1>2 DEF SerialInv

\* No report is made or given to another assignment.
LEMMA SameReports ==
  ASSUME SerialInv, \A t \in Submissions : Exists(t)' => Exists(t),
         \A t \in Submissions : Exists(t) => rows'[t].assignment = rows[t].assignment
  PROVE  /\ OneSubmissionPerAssignment'
         /\ \A q \in Requests : pc'[q] = pc[q] /\ job'[q] = job[q] => Opening(q)'
<1>1. OneSubmissionPerAssignment'
  BY DEF SerialInv, OneSubmissionPerAssignment
<1>2. ASSUME NEW q \in Requests, pc'[q] = pc[q] /\ job'[q] = job[q] PROVE Opening(q)'
  BY <1>2 DEF SerialInv, Knows, Opening
<1> QED  BY <1>1, <1>2

-----------------------------------------------------------------------------
(* Steps that write nothing but a request's memory.                        *)

\* A request in hand has its report, unless it is to make it.
LEMMA OnReport ==
  ASSUME TypeInv, NEW r \in Requests
  PROVE  /\ Opened(r) => job[r].sub \in Submissions /\ Exists(job[r].sub) /\ mem[r] \in Row
         /\ job[r].sub = NULL => On(r, NULL)
BY DEF TypeInv, InHandOK, InHand, Opened, On

\* What is true of a report stays so when r only reads, or dies with it.
LEMMA ReadReport ==
  ASSUME NEW r \in Requests, NEW s \in Submissions, ReportTrue(s),
         OthersUntouched(r), UNCHANGED <<rows, cells, logs, content, view>>,
         died \subseteq died',
         \/ s \in died'
         \/ /\ Patching(r, s) => Patching(r, s)' /\ edit'[r].saved = edit[r].saved
            /\ Logging(r, s) => Logging(r, s)'
  PROVE  ReportTrue(s)'
<1>1. FreeIsEmpty(s)' /\ DeskTrue(s)' /\ Behind(s)'
  BY DEF ReportTrue, FreeIsEmpty, DeskTrue, Behind, Exists
<1>2. ASSUME s \notin died' PROVE WholeTrue(s)'
  <2>1. WholeTrue(s)
    BY <1>2 DEF ReportTrue
  <2>2. \A q \in Requests : /\ Patching(q, s) => Patching(q, s)' /\ edit'[q].saved = edit[q].saved
                            /\ Logging(q, s) => Logging(q, s)'
    BY <1>2 DEF OthersUntouched, Patching, Logging
  <2>3. ScreensTrue(s)'
    BY <2>1, <2>2 DEF WholeTrue, ScreensTrue
  <2>4. CountTrue(s)'
    BY <2>1, <2>2 DEF WholeTrue, CountTrue, Filled, Exists
  <2>5. ChainTrue(s)' /\ LastEntryTrue(s)'
    BY <2>1, <2>2 DEF WholeTrue, ChainTrue, LastEntryTrue, LastEntry
  <2> QED  BY <2>3, <2>4, <2>5 DEF WholeTrue
<1> QED  BY <1>1, <1>2 DEF ReportTrue

\* A step of r on report s, or on none, that writes no table.
LEMMA ReadKeepsSerial ==
  ASSUME TypeInv, SerialInv, NEW r \in Requests, NEW s \in Submissions \cup {NULL},
         OthersUntouched(r), \A q \in Requests \ {r} : base'[q] = base[q],
         UNCHANGED <<rows, cells, logs, content, view>>, died \subseteq died',
         On(r, s), On(r, s)', \A q \in Requests \ {r} : Opened(q) => job[q].sub # s,
         \/ s \in died'
         \/ /\ Patching(r, s) => Patching(r, s)' /\ edit'[r].saved = edit[r].saved
            /\ Logging(r, s) => Logging(r, s)',
         Knows(r)'
  PROVE  SerialInv'
<1>1. Elsewhere(r, s)
  BY DEF Elsewhere
<1>2. /\ OneSubmissionPerAssignment'
      /\ \A q \in Requests \ {r} : Opening(q)'
  BY SameReports DEF Exists, OthersUntouched
<1>3. s \in Submissions => ReportTrue(s)'
  BY ReadReport DEF SerialInv
<1> QED  BY <1>1, <1>2, <1>3, StepKeepsSerial

\* A request that is over knows nothing.
LEMMA OverKnows ==
  ASSUME RequestsOK, NEW r \in Requests, End(r)
  PROVE  /\ Knows(r)' /\ OthersUntouched(r) /\ ~Opened(r)'
         /\ \A q \in Requests \ {r} : base'[q] = base[q]
<1>1. pc'[r] = "idle"
  BY DEF End, RequestsOK
<1>2. Knows(r)' /\ ~Opened(r)'
  BY <1>1 DEF Knows, Opening, OwnRow, Opened, CopyTrue, ChangeTrue, PatchTrue, LogTrue,
     Patching, Logging, LogLabels
<1> QED  BY <1>2 DEF End, RequestsOK, OthersUntouched

-----------------------------------------------------------------------------
(* A request is taken up.                                                  *)

\* A report is to be made: the assignment has none.
LEMMA OpenAbsentSerial ==
  ASSUME TypeInv, SerialInv, NEW r \in Requests, NEW u \in Reporters,
         NEW a \in Assignments, NEW op, OpenAbsent(r, u, a, op)
  PROVE  SerialInv'
<1>1. /\ pc[r] = "idle" /\ pc'[r] = "code"
      /\ job'[r] = [NoJob EXCEPT !.op = op, !.user = u, !.assignment = a]
      /\ OthersUntouched(r)
  BY DEF OpenAbsent, Take, OthersUntouched, TypeInv, TypeOK, RequestsOK
<1>2. job'[r].assignment = a
  BY <1>1 DEF NoJob
<1>3. UNCHANGED <<rows, cells, logs, content, view, died, base>>
  BY DEF OpenAbsent, tables, history
<1>4. Knows(r)'
  <2>1. Opening(r)'
    BY <1>2, <1>3 DEF OpenAbsent, Opening, Exists
  <2> QED  BY <1>1, <2>1 DEF Knows, OwnRow, Opened, CopyTrue, ChangeTrue, PatchTrue,
              LogTrue, Patching, Logging, LogLabels
<1>5. On(r, NULL) /\ On(r, NULL)' /\ \A q \in Requests : Opened(q) => job[q].sub # NULL
  BY <1>1, OnReport, NullAssumption DEF On, Opened
<1>6. ~Patching(r, NULL) /\ ~Logging(r, NULL)
  BY <1>1 DEF Patching, Logging
<1> QED  BY <1>1, <1>3, <1>4, <1>5, <1>6, ReadKeepsSerial

\* A report there is: r is the only request on it.
LEMMA AskSerial ==
  ASSUME TypeInv, SerialInv, Apart', NEW r \in Requests, NEW s \in Submissions, Exists(s),
         NEW label \in {"view", "cell", "saveLoad"}, NEW op, NEW u, NEW from, NEW copy,
         Take(r, label, Ask(op, u, s, from), copy),
         UNCHANGED <<tables, history, view, base, snap>>,
         \A q \in Requests \ {r} : edit'[q] = edit[q],
         CopyTrue(r)', ChangeTrue(r)', PatchTrue(r)'
  PROVE  SerialInv'
<1>1. /\ pc[r] = "idle" /\ pc'[r] = label
      /\ job'[r] = Ask(op, u, s, from)
      /\ OthersUntouched(r)
  BY DEF Take, OthersUntouched, TypeInv, TypeOK, RequestsOK
<1>2. job'[r].sub = s /\ job'[r].assignment = rows[s].assignment
  BY <1>1 DEF Ask
<1>3. UNCHANGED <<rows, cells, logs, content, view, died, base>>
  BY DEF tables, history
<1>4. ASSUME NEW q \in Requests, q # r, Opened(q) PROVE job[q].sub # s
  <2>1. job[q].sub = s => job'[q].assignment = job'[r].assignment
    BY <1>1, <1>2, <1>4 DEF SerialInv, Knows, OwnRow, OthersUntouched
  <2>2. pc'[q] # "idle" /\ pc'[r] # "idle"
    BY <1>1, <1>4 DEF Opened, OthersUntouched
  <2> QED  BY <1>4, <2>1, <2>2 DEF Apart
<1>5. Knows(r)'
  <2>1. OwnRow(r)' /\ Opening(r)' /\ LogTrue(r)'
    BY <1>1, <1>2, <1>3 DEF OwnRow, Opening, LogTrue, Logging
  <2> QED  BY <2>1 DEF Knows
<1>6. On(r, s) /\ On(r, s)'
  BY <1>1, <1>2 DEF On, Opened
<1>7. ~Patching(r, s) /\ ~Logging(r, s)
  BY <1>1 DEF Patching, Logging
<1> QED  BY <1>1, <1>3, <1>4, <1>5, <1>6, <1>7, ReadKeepsSerial

\* A report is opened for its screen.
LEMMA ViewTakenSerial ==
  ASSUME TypeInv, SerialInv, Apart', NEW r \in Requests, NEW u, NEW s \in Submissions,
         NEW op, Exists(s), Take(r, "view", Ask(op, u, s, NULL), rows[s]),
         UNCHANGED <<tables, history, view, base, edit, snap>>
  PROVE  SerialInv'
<1>1. pc'[r] = "view" /\ mem'[r] = rows[s] /\ job'[r].sub = s
  BY DEF Take, Ask, TypeInv, TypeOK, RequestsOK
<1>2. CopyTrue(r)' /\ ChangeTrue(r)' /\ PatchTrue(r)'
  BY <1>1 DEF CopyTrue, ChangeTrue, PatchTrue, Patching, tables
<1> QED  BY <1>2, AskSerial

\* A patch is taken up by the only request on the report.
LEMMA PatchCellsSerial ==
  ASSUME TypeInv, SerialInv, Apart', NEW r \in Requests, NEW u \in Reporters,
         NEW s \in Submissions, NEW changes \in SUBSET Cells, NEW val \in Values,
         PatchCells(r, u, s, changes, val)
  PROVE  SerialInv'
<1>1. /\ pc'[r] = "cell" /\ mem'[r] = rows[s]
      /\ job'[r].sub = s /\ job'[r].user = u
  BY DEF PatchCells, Take, Ask, TypeInv, TypeOK, RequestsOK
<1>2. edit'[r].saved = {} /\ \A q \in Requests \ {r} : edit'[q] = edit[q]
  BY DEF PatchCells, NoEdit, TypeInv, TypeOK, RequestsOK
<1>3. CopyTrue(r)' /\ ChangeTrue(r)'
  BY <1>1 DEF CopyTrue, ChangeTrue, PatchCells, tables
<1>4. PatchTrue(r)'
  BY <1>1, <1>2 DEF PatchTrue, Patching, PatchCells, tables
<1> QED  BY <1>2, <1>3, <1>4, AskSerial DEF PatchCells

\* The operations that move a report on.
LEMMA ChangeSerial ==
  ASSUME TypeInv, SerialInv, Apart', NEW r \in Requests, NEW u, NEW s \in Submissions,
         NEW op \in LoggedOps \cup {"cancelSubmit"}, NEW copy, Exists(s), Change(r, op, u, s, copy),
         copy.assignment = rows[s].assignment, copy.completionPct = rows[s].completionPct,
         op \in LoggedOps => <<op, rows[s].status, copy.status>> \in Moves,
         op \notin LoggedOps => rows[s].status = "PENDING_DEPARTMENT" /\ copy.status = "DRAFT",
         copy.version = IF op = "submit" THEN rows[s].version + 1 ELSE rows[s].version
  PROVE  SerialInv'
<1>1. /\ pc'[r] = "saveLoad" /\ mem'[r] = copy
      /\ job'[r].op = op /\ job'[r].sub = s /\ job'[r].from = rows[s].status
  BY DEF Change, Take, Ask, TypeInv, TypeOK, RequestsOK
<1>2. op # "patchCells"
  BY DEF LoggedOps, EventOf
<1>3. CopyTrue(r)' /\ PatchTrue(r)'
  BY <1>1, <1>2 DEF CopyTrue, PatchTrue, Patching, LogLabels
<1>4. ChangeTrue(r)'
  BY <1>1, <1>2 DEF ChangeTrue, MoveMade, Change, tables
<1> QED  BY <1>3, <1>4, AskSerial DEF Change

\* The requests that arrive, one by one.
LEMMA ArriveSerial ==
  ASSUME TypeInv, SerialInv, Apart', NEW r \in Requests, Arrive(r)
  PROVE  SerialInv'
<1>1. ASSUME NEW u \in Reporters, NEW a \in Assignments, Create(r, u, a)
      PROVE  SerialInv'
  BY <1>1, OpenAbsentSerial DEF Create
<1>2. ASSUME NEW u \in Reporters, NEW a \in Assignments, GetByAssignment(r, u, a)
      PROVE  SerialInv'
  BY <1>2, OpenAbsentSerial, ViewTakenSerial DEF GetByAssignment
<1>3. ASSUME NEW u \in Reporters, NEW s \in Submissions, GetOne(r, u, s)
      PROVE  SerialInv'
  BY <1>3, ViewTakenSerial DEF GetOne
<1>4. ASSUME NEW u \in Reporters, NEW s \in Submissions, NEW changes \in SUBSET Cells,
             NEW val \in Values, PatchCells(r, u, s, changes, val)
      PROVE  SerialInv'
  BY <1>4, PatchCellsSerial
<1>5. ASSUME NEW s \in Submissions, Exists(s) PROVE rows[s] \in Row
  BY <1>5 DEF TypeInv, TypeOK, TablesOK, Exists
<1>6. ASSUME NEW u \in Reporters, NEW s \in Submissions, Submit(r, u, s) PROVE SerialInv'
  <2> DEFINE copy == [rows[s] EXCEPT !.status = "PENDING_DEPARTMENT", !.submittedBy = u,
                                     !.version = @ + 1]
  <2>1. Exists(s) /\ rows[s].status \in Editable /\ Change(r, "submit", u, s, copy)
    BY <1>6 DEF Submit
  <2>2. /\ copy.assignment = rows[s].assignment /\ copy.completionPct = rows[s].completionPct
        /\ copy.status = "PENDING_DEPARTMENT" /\ copy.version = rows[s].version + 1
    BY <1>5, <2>1 DEF Row
  <2>3. "submit" \in LoggedOps
    BY DEF LoggedOps, EventOf
  <2> HIDE DEF copy
  <2>4. <<"submit", rows[s].status, copy.status>> \in Moves
    BY <2>1, <2>2 DEF Moves
  <2> QED  BY <2>1, <2>2, <2>3, <2>4, ChangeSerial
<1>7. ASSUME NEW u \in Reporters, NEW s \in Submissions, CancelSubmit(r, u, s)
      PROVE  SerialInv'
  <2> DEFINE copy == [rows[s] EXCEPT !.status = "DRAFT", !.submittedBy = NULL]
  <2>1. /\ Exists(s) /\ rows[s].status = "PENDING_DEPARTMENT"
        /\ Change(r, "cancelSubmit", u, s, copy)
    BY <1>7 DEF CancelSubmit
  <2>2. /\ copy.assignment = rows[s].assignment /\ copy.completionPct = rows[s].completionPct
        /\ copy.status = "DRAFT" /\ copy.version = rows[s].version
    BY <1>5, <2>1 DEF Row
  <2>3. "cancelSubmit" \notin LoggedOps
    BY DEF LoggedOps, EventOf
  <2> HIDE DEF copy
  <2> QED  BY <2>1, <2>2, <2>3, ChangeSerial
<1>8. ASSUME NEW u \in Users, NEW s \in Submissions, ApproveDepartment(r, u, s)
      PROVE  SerialInv'
  <2> DEFINE copy == [rows[s] EXCEPT !.status = "DEPARTMENT_APPROVED", !.departmentApprovedBy = u]
  <2>1. /\ Exists(s) /\ rows[s].status = "PENDING_DEPARTMENT"
        /\ Change(r, "approveDepartment", u, s, copy)
    BY <1>8 DEF ApproveDepartment
  <2>2. /\ copy.assignment = rows[s].assignment /\ copy.completionPct = rows[s].completionPct
        /\ copy.status = "DEPARTMENT_APPROVED" /\ copy.version = rows[s].version
    BY <1>5, <2>1 DEF Row
  <2>3. "approveDepartment" \in LoggedOps
    BY DEF LoggedOps, EventOf
  <2> HIDE DEF copy
  <2>4. <<"approveDepartment", rows[s].status, copy.status>> \in Moves
    BY <2>1, <2>2 DEF Moves
  <2> QED  BY <2>1, <2>2, <2>3, <2>4, ChangeSerial
<1>9. ASSUME NEW u \in Users, NEW s \in Submissions, RejectDepartment(r, u, s)
      PROVE  SerialInv'
  <2> DEFINE copy == [rows[s] EXCEPT !.status = "REJECTED_DEPARTMENT", !.departmentApprovedBy = NULL]
  <2>1. /\ Exists(s) /\ rows[s].status = "PENDING_DEPARTMENT"
        /\ Change(r, "rejectDepartment", u, s, copy)
    BY <1>9 DEF RejectDepartment
  <2>2. /\ copy.assignment = rows[s].assignment /\ copy.completionPct = rows[s].completionPct
        /\ copy.status = "REJECTED_DEPARTMENT" /\ copy.version = rows[s].version
    BY <1>5, <2>1 DEF Row
  <2>3. "rejectDepartment" \in LoggedOps
    BY DEF LoggedOps, EventOf
  <2> HIDE DEF copy
  <2>4. <<"rejectDepartment", rows[s].status, copy.status>> \in Moves
    BY <2>1, <2>2 DEF Moves
  <2> QED  BY <2>1, <2>2, <2>3, <2>4, ChangeSerial
<1>10. ASSUME NEW u \in Users, NEW s \in Submissions, ApproveDistrict(r, u, s)
      PROVE  SerialInv'
  <2> DEFINE copy == [rows[s] EXCEPT !.status = "DISTRICT_APPROVED", !.districtApprovedBy = u]
  <2>1. /\ Exists(s) /\ rows[s].status = "DEPARTMENT_APPROVED"
        /\ Change(r, "approveDistrict", u, s, copy)
    BY <1>10 DEF ApproveDistrict
  <2>2. /\ copy.assignment = rows[s].assignment /\ copy.completionPct = rows[s].completionPct
        /\ copy.status = "DISTRICT_APPROVED" /\ copy.version = rows[s].version
    BY <1>5, <2>1 DEF Row
  <2>3. "approveDistrict" \in LoggedOps
    BY DEF LoggedOps, EventOf
  <2> HIDE DEF copy
  <2>4. <<"approveDistrict", rows[s].status, copy.status>> \in Moves
    BY <2>1, <2>2 DEF Moves
  <2> QED  BY <2>1, <2>2, <2>3, <2>4, ChangeSerial
<1>11. ASSUME NEW u \in Users, NEW s \in Submissions, RejectDistrict(r, u, s)
      PROVE  SerialInv'
  <2> DEFINE copy == [rows[s] EXCEPT !.status = "REJECTED_DISTRICT", !.districtApprovedBy = NULL]
  <2>1. /\ Exists(s) /\ rows[s].status = "DEPARTMENT_APPROVED"
        /\ Change(r, "rejectDistrict", u, s, copy)
    BY <1>11 DEF RejectDistrict
  <2>2. /\ copy.assignment = rows[s].assignment /\ copy.completionPct = rows[s].completionPct
        /\ copy.status = "REJECTED_DISTRICT" /\ copy.version = rows[s].version
    BY <1>5, <2>1 DEF Row
  <2>3. "rejectDistrict" \in LoggedOps
    BY DEF LoggedOps, EventOf
  <2> HIDE DEF copy
  <2>4. <<"rejectDistrict", rows[s].status, copy.status>> \in Moves
    BY <2>1, <2>2 DEF Moves
  <2> QED  BY <2>1, <2>2, <2>3, <2>4, ChangeSerial
<1> QED  BY <1>1, <1>2, <1>3, <1>4, <1>6, <1>7, <1>8, <1>9, <1>10, <1>11 DEF Arrive

-----------------------------------------------------------------------------
(* Statements that read, and the end of a request.                         *)

\* No other request is on the report of one that has it.
LEMMA AloneOn ==
  ASSUME TypeInv, SerialInv, Apart, NEW r \in Requests, Opened(r)
  PROVE  /\ job[r].sub \in Submissions /\ On(r, job[r].sub)
         /\ \A q \in Requests \ {r} : Opened(q) => job[q].sub # job[r].sub
BY OnReport, ApartOnReports DEF On

\* A request ends, or dies and leaves what it has written.
LEMMA EndSerial ==
  ASSUME TypeInv, SerialInv, Apart, NEW r \in Requests, pc[r] # "idle", End(r),
         UNCHANGED <<rows, cells, logs, content, view>>, died \subseteq died',
         job[r].sub \in died' \/ pc[r] \in {"code", "insert", "notify"}
  PROVE  SerialInv'
<1>1. /\ Knows(r)' /\ OthersUntouched(r) /\ ~Opened(r)'
      /\ \A q \in Requests \ {r} : base'[q] = base[q]
  BY OverKnows DEF TypeInv, TypeOK
<1>2. CASE Opened(r)
  <2>1. PICK s \in Submissions : s = job[r].sub
    BY <1>2, AloneOn
  <2>2. On(r, s)' /\ On(r, s) /\ \A q \in Requests \ {r} : Opened(q) => job[q].sub # s
    BY <1>1, <1>2, <2>1, AloneOn DEF On
  <2>3. s \in died' \/ (~Patching(r, s) /\ ~Logging(r, s))
    BY <1>2, <2>1 DEF Patching, Logging, Opened
  <2> QED  BY <1>1, <2>2, <2>3, ReadKeepsSerial
<1>3. CASE ~Opened(r)
  <2>1. On(r, NULL)' /\ On(r, NULL) /\ \A q \in Requests \ {r} : Opened(q) => job[q].sub # NULL
    BY <1>1, <1>3, OnReport, NullAssumption DEF On
  <2>2. ~Patching(r, NULL) /\ ~Logging(r, NULL)
    BY <1>3 DEF Patching, Logging, Opened
  <2> QED  BY <1>1, <2>1, <2>2, ReadKeepsSerial
<1> QED  BY <1>2, <1>3

\* A death leaves the report half-written, and says so.
LEMMA DieSerial ==
  ASSUME TypeInv, SerialInv, Apart, NEW r \in Requests, pc[r] # "idle", Die(r),
         UNCHANGED <<rows, cells, logs, view>>
  PROVE  SerialInv'
<1>1. Opened(r) => job[r].sub \in died'
  BY OnReport DEF Die
<1>2. CASE Opened(r)
  BY <1>1, <1>2, EndSerial DEF Die
<1>3. CASE ~Opened(r)
  BY <1>3, EndSerial DEF Die, Opened
<1> QED  BY <1>2, <1>3

\* The code of the report to be made is of no report.
LEMMA PickCodeSerial ==
  ASSUME TypeInv, SerialInv, Apart, NEW r \in Requests, PickCode(r)
  PROVE  SerialInv'
<1>1. pc[r] = "code" /\ UNCHANGED <<rows, cells, logs, content, view, died>>
  BY DEF PickCode, tables, history
<1>2. ASSUME NEW s \in Submissions, ~Exists(s), job' = [job EXCEPT ![r].sub = s],
             Goto(r, "insert"), UNCHANGED <<mem, base, edit, snap>>
      PROVE  SerialInv'
  <2>1. pc'[r] = "insert" /\ job'[r].assignment = job[r].assignment /\ OthersUntouched(r)
    BY <1>2 DEF Goto, OthersUntouched, TypeInv, TypeOK, RequestsOK, Job
  <2>2. Knows(r)'
    <3>1. Opening(r)'
      BY <1>1, <2>1 DEF SerialInv, Knows, Opening, Exists
    <3> QED  BY <2>1, <3>1 DEF Knows, OwnRow, Opened, CopyTrue, ChangeTrue, PatchTrue,
                LogTrue, Patching, Logging, LogLabels
  <2>3. /\ On(r, NULL) /\ On(r, NULL)' /\ ~Patching(r, NULL) /\ ~Logging(r, NULL)
        /\ \A q \in Requests : Opened(q) => job[q].sub # NULL
    BY <1>1, <2>1, OnReport, NullAssumption DEF On, Opened, Patching, Logging
  <2> QED  BY <1>1, <1>2, <2>1, <2>2, <2>3, ReadKeepsSerial
<1>3. CASE End(r)
  BY <1>1, <1>3, EndSerial
<1> QED  BY <1>2, <1>3 DEF PickCode

\* The next statement is one of the same save, or of the same flow log.
Goes(r, label) ==
  \/ /\ pc[r] \in {"cell", "cellWrite", "saveLoad"}
     /\ label \in {"cell", "cellWrite", "saveLoad", "saveWrite"}
  \/ pc[r] \in {"logCells", "logRow"} /\ label \in LogLabels

\* A statement of r's that only reads what is true of its report.
LEMMA StatementSerial ==
  ASSUME TypeInv, SerialInv, Apart, NEW r \in Requests, Opened(r), NEW label, Goes(r, label),
         Goto(r, label), UNCHANGED <<rows, cells, logs, content, view, died, job>>,
         OthersUntouched(r), \A q \in Requests \ {r} : base'[q] = base[q],
         edit'[r].saved = edit[r].saved,
         CopyTrue(r)', ChangeTrue(r)', PatchTrue(r)', LogTrue(r)'
  PROVE  SerialInv'
<1>1. PICK s \in Submissions : s = job[r].sub
  BY AloneOn
<1>2. On(r, s) /\ On(r, s)' /\ \A q \in Requests \ {r} : Opened(q) => job[q].sub # s
  BY <1>1, AloneOn DEF On
<1>3. pc'[r] = label
  BY DEF Goto, TypeInv, TypeOK, RequestsOK
<1>4. (Patching(r, s) => Patching(r, s)') /\ (Logging(r, s) => Logging(r, s)')
  BY <1>3 DEF Patching, Logging, LogLabels, Goes
<1>5. Opening(r)' /\ OwnRow(r)'
  BY <1>3 DEF Goes, SerialInv, Knows, OwnRow, Opening, LogLabels
<1> QED  BY <1>2, <1>4, <1>5, ReadKeepsSerial DEF Knows

\* A cell is read.
LEMMA CellReadSerial ==
  ASSUME TypeInv, SerialInv, Apart, NEW r \in Requests, CellRead(r)
  PROVE  SerialInv'
<1>1. PICK c \in edit[r].todo :
        edit' = [edit EXCEPT ![r].cur = c, ![r].old = cells[job[r].sub][c]]
  BY DEF CellRead
<1>2. /\ pc[r] = "cell" /\ Goto(r, "cellWrite") /\ pc'[r] = "cellWrite" /\ Opened(r)
      /\ UNCHANGED <<rows, cells, logs, content, view, died, job, mem, base, snap>>
  BY DEF CellRead, Goto, TypeInv, TypeOK, RequestsOK, tables, history, Opened
<1>3. /\ edit'[r].saved = edit[r].saved /\ edit'[r].val = edit[r].val
      /\ edit'[r].cur = c /\ edit'[r].old = cells[job[r].sub][c]
  BY <1>1 DEF TypeInv, TypeOK, RequestsOK, Edit
<1>4. OthersUntouched(r)
  BY <1>1, <1>2 DEF OthersUntouched, Goto, TypeInv, TypeOK, RequestsOK
<1>5. Knows(r)
  BY DEF SerialInv
<1>6. CopyTrue(r)' /\ ChangeTrue(r)' /\ LogTrue(r)'
  BY <1>2, <1>5 DEF Knows, CopyTrue, ChangeTrue, LogTrue, Logging, LogLabels
<1>7. PatchTrue(r)'
  BY <1>2, <1>3, <1>5 DEF Knows, PatchTrue, Patching
<1>8. Goes(r, "cellWrite")
  BY <1>2 DEF Goes
<1> QED  BY <1>2, <1>3, <1>4, <1>6, <1>7, <1>8, StatementSerial

\* The cells are counted: the copy to be saved is made.
LEMMA CountSerial ==
  ASSUME TypeInv, SerialInv, Apart, NEW r \in Requests, Count(r)
  PROVE  SerialInv'
<1>1. PICK pct : pct = Completion(job[r].assignment, Cardinality(Filled(job[r].sub)))
  OBVIOUS
<1>2. mem' = [mem EXCEPT ![r].completionPct = pct, ![r].version = @ + 1]
  BY <1>1 DEF Count
<1>3. /\ pc[r] = "cell" /\ Goto(r, "saveLoad") /\ pc'[r] = "saveLoad" /\ Opened(r)
      /\ UNCHANGED <<rows, cells, logs, content, view, died, job, base, edit, snap>>
  BY DEF Count, Goto, TypeInv, TypeOK, RequestsOK, tables, history, Opened
<1>4. OthersUntouched(r)
  BY <1>2, <1>3 DEF OthersUntouched, Goto, TypeInv, TypeOK, RequestsOK
<1>5. Knows(r) /\ InHand(r)
  BY DEF SerialInv, TypeInv, InHandOK
<1>6. PICK s \in Submissions : s = job[r].sub /\ rows[s] \in Row
  BY <1>3, <1>5, AloneOn DEF Knows, InHand, CopyTrue
<1>7. mem'[r] = [mem[r] EXCEPT !.completionPct = pct, !.version = @ + 1]
  BY <1>2 DEF TypeInv, TypeOK, RequestsOK
<1>8. mem[r] = rows[s] /\ job[r].assignment = rows[s].assignment /\ job[r].op = "patchCells"
  BY <1>3, <1>5, <1>6 DEF Knows, CopyTrue, OwnRow, InHand
<1>9. ChangeTrue(r)'
  <2>1. Filled(s)' = Filled(s)
    BY <1>3 DEF Filled
  <2>2. pct = Completion(rows'[s].assignment, Cardinality(Filled(s)'))
    BY <1>1, <1>3, <1>6, <1>8, <2>1
  <2>3. mem'[r] = [rows'[s] EXCEPT !.completionPct = pct, !.version = @ + 1]
    BY <1>3, <1>7, <1>8
  <2>4. PatchMade(r, rows[s])'
    BY <1>3, <1>6, <2>2, <2>3 DEF PatchMade
  <2> QED  BY <1>3, <1>6, <1>8, <2>4 DEF ChangeTrue
<1>10. CopyTrue(r)' /\ LogTrue(r)'
  BY <1>3 DEF CopyTrue, LogTrue, Logging, LogLabels
<1>11. PatchTrue(r)'
  BY <1>3, <1>5 DEF Knows, PatchTrue, Patching
<1>12. Goes(r, "saveLoad")
  BY <1>3 DEF Goes
<1> QED  BY <1>3, <1>4, <1>9, <1>10, <1>11, <1>12, StatementSerial

\* save selects the row the copy was made from.
LEMMA SaveLoadSerial ==
  ASSUME TypeInv, SerialInv, Apart, NEW r \in Requests, SaveLoad(r)
  PROVE  SerialInv'
<1>1. /\ pc[r] = "saveLoad" /\ Goto(r, "saveWrite") /\ pc'[r] = "saveWrite" /\ Opened(r)
      /\ UNCHANGED <<rows, cells, logs, content, view, died, job, mem, edit, snap>>
      /\ base'[r] = rows[job[r].sub] /\ \A q \in Requests \ {r} : base'[q] = base[q]
  BY DEF SaveLoad, Goto, TypeInv, TypeOK, RequestsOK, tables, history, Opened
<1>2. OthersUntouched(r)
  BY <1>1 DEF OthersUntouched, Goto, TypeInv, TypeOK, RequestsOK
<1>3. Knows(r)
  BY DEF SerialInv
<1>4. CopyTrue(r)' /\ LogTrue(r)'
  BY <1>1 DEF CopyTrue, LogTrue, Logging, LogLabels
<1>5. ChangeTrue(r)'
  BY <1>1, <1>3 DEF Knows, ChangeTrue, PatchMade, MoveMade, Filled
<1>6. PatchTrue(r)'
  BY <1>1, <1>3 DEF Knows, PatchTrue, Patching
<1>7. Goes(r, "saveWrite")
  BY <1>1 DEF Goes
<1> QED  BY <1>1, <1>2, <1>4, <1>5, <1>6, <1>7, StatementSerial

\* What is to be logged is read.
LEMMA LogReadSerial ==
  ASSUME TypeInv, SerialInv, Apart, NEW r \in Requests, LogCells(r) \/ LogRow(r)
  PROVE  SerialInv'
<1>1. PICK label \in {"logRow", "logWrite"} :
        /\ Goto(r, label) /\ pc'[r] = label
        /\ pc[r] = IF label = "logRow" THEN "logCells" ELSE "logRow"
        /\ label = "logRow" => snap' = [snap EXCEPT ![r].cells = cells[job[r].sub]]
        /\ label = "logWrite" => snap' = [snap EXCEPT ![r].version = rows[job[r].sub].version]
  BY DEF LogCells, LogRow, Goto, TypeInv, TypeOK, RequestsOK
<1>2. /\ Opened(r)
      /\ UNCHANGED <<rows, cells, logs, content, view, died, job, mem, base, edit>>
  BY DEF LogCells, LogRow, tables, history, Opened
<1>3. OthersUntouched(r)
  BY <1>1, <1>2 DEF OthersUntouched, Goto, TypeInv, TypeOK, RequestsOK
<1>4. Knows(r)
  BY DEF SerialInv
<1>5. /\ label = "logRow" => snap'[r].cells = cells[job[r].sub]
      /\ label = "logWrite" => /\ snap'[r].cells = snap[r].cells
                               /\ snap'[r].version = rows[job[r].sub].version
  BY <1>1 DEF TypeInv, TypeOK, RequestsOK
<1>6. CopyTrue(r)' /\ ChangeTrue(r)' /\ PatchTrue(r)'
  BY <1>1, <1>2, <1>4 DEF Knows, CopyTrue, ChangeTrue, PatchTrue, Patching, LogLabels
<1>7. LogTrue(r)'
  <2> SUFFICES ASSUME NEW s \in Submissions, Logging(r, s)'
      PROVE  /\ Len(logs[s]) > 0 /\ s \notin died =>
                  /\ Follows(job[r].from, LastEntry(s).to)
                  /\ EventOf[job[r].op] # "SUBMIT" =>
                       LastEntry(s).cells = cells[s] /\ LastEntry(s).version = rows[s].version
             /\ label \in {"logRow", "logWrite"} => snap'[r].cells = cells[s]
             /\ label = "logWrite" => snap'[r].version = rows[s].version
    BY <1>1, <1>2 DEF LogTrue, LastEntry
  <2>1. Logging(r, s) /\ s = job[r].sub
    BY <1>1, <1>2 DEF Logging
  <2> QED  BY <1>1, <1>4, <1>5, <2>1 DEF Knows, LogTrue
<1>8. Goes(r, label)
  BY <1>1 DEF Goes, LogLabels
<1> QED  BY <1>1, <1>2, <1>3, <1>6, <1>7, <1>8, StatementSerial

\* The approvers are told, and the request is over.
LEMMA NotifySerial ==
  ASSUME TypeInv, SerialInv, Apart, NEW r \in Requests, Notify(r)
  PROVE  SerialInv'
BY EndSerial DEF Notify, history

\* The answer a screen gets is what the tables say.
LEMMA ViewSerial ==
  ASSUME TypeInv, SerialInv, Apart, NEW r \in Requests, View(r)
  PROVE  SerialInv'
<1>1. pc[r] = "view" /\ Opened(r) /\ Knows(r)
  BY DEF View, Opened, SerialInv
<1>2. PICK s \in Submissions : s = job[r].sub /\ Exists(s) /\ rows[s] \in Row
  BY <1>1, OnReport DEF Knows, CopyTrue
<1>3. /\ UNCHANGED <<rows, cells, logs, content, died>>
      /\ \A u \in Reporters :
           \/ view'[u] = view[u]
           \/ view'[u] = [sub |-> s, version |-> rows[s].version, cells |-> cells[s]]
  BY <1>1, <1>2 DEF View, tables, history, TypeInv, TypeOK, ScreensOK, Knows, CopyTrue
<1>4. /\ Knows(r)' /\ OthersUntouched(r) /\ ~Opened(r)'
      /\ \A q \in Requests \ {r} : base'[q] = base[q]
  BY OverKnows DEF View, TypeInv, TypeOK
<1>5. Elsewhere(r, s)
  BY <1>3, <1>4 DEF Elsewhere
<1>6. /\ On(r, s) /\ On(r, s)' /\ \A q \in Requests \ {r} : Opened(q) => job[q].sub # s
  BY <1>1, <1>2, <1>4, AloneOn DEF On
<1>7. /\ OneSubmissionPerAssignment'
      /\ \A q \in Requests \ {r} : Opening(q)'
  BY <1>3, <1>4, SameReports DEF Exists, OthersUntouched
<1>8. ReportTrue(s)'
  <2>1. ReportTrue(s)
    BY DEF SerialInv
  <2>2. FreeIsEmpty(s)' /\ DeskTrue(s)'
    BY <1>3, <2>1 DEF ReportTrue, FreeIsEmpty, DeskTrue, Exists
  <2>3. Behind(s)'
    BY <1>2, <1>3, <2>1 DEF ReportTrue, Behind, Exists, Row, Version
  <2>4. \A q \in Requests : /\ Patching(q, s) => Patching(q, s)' /\ edit'[q].saved = edit[q].saved
                            /\ Logging(q, s) => Logging(q, s)'
    BY <1>1, <1>4 DEF OthersUntouched, Patching, Logging
  <2>5. ASSUME s \notin died' PROVE WholeTrue(s)'
    <3>1. WholeTrue(s)
      BY <1>3, <2>1, <2>5 DEF ReportTrue
    <3>2. ScreensTrue(s)'
      BY <1>3, <2>4, <3>1 DEF WholeTrue, ScreensTrue
    <3>3. CountTrue(s)' /\ ChainTrue(s)' /\ LastEntryTrue(s)'
      BY <1>3, <2>4, <3>1 DEF WholeTrue, CountTrue, ChainTrue, LastEntryTrue, LastEntry,
         Filled, Exists
    <3> QED  BY <3>2, <3>3 DEF WholeTrue
  <2> QED  BY <2>2, <2>3, <2>5 DEF ReportTrue
<1> QED  BY <1>4, <1>5, <1>6, <1>7, <1>8, StepKeepsSerial

-----------------------------------------------------------------------------
(* Statements that write.                                                  *)

\* The report that is made is the first of its assignment.
LEMMA InsertSerial ==
  ASSUME TypeInv, SafetyInv, SerialInv, Apart, NEW r \in Requests, InsertSubmission(r)
  PROVE  SerialInv'
<1>1. /\ pc[r] = "insert" /\ Knows(r)
      /\ UNCHANGED <<cells, logs, content, view, died>>
  BY DEF InsertSubmission, history, SerialInv
<1>2. PICK s \in Submissions, a \in Assignments : s = job[r].sub /\ a = job[r].assignment
  BY <1>1 DEF TypeInv, InHandOK, InHand
<1>3. CASE Exists(s)
  BY <1>1, <1>2, <1>3, EndSerial DEF InsertSubmission
<1>4. CASE ~Exists(s)
  <2>1. PICK row \in Row : row = NewRow(a)
    BY EmptyShapes
  <2>2. /\ rows' = [rows EXCEPT ![s] = row]
        /\ \/ End(r)
           \/ /\ mem' = [mem EXCEPT ![r] = row]
              /\ Goto(r, "view")
              /\ UNCHANGED <<job, base, edit, snap>>
    BY <1>2, <1>4, <2>1 DEF InsertSubmission
  <2>3. /\ rows'[s] = row /\ \A t \in Submissions \ {s} : rows'[t] = rows[t]
        /\ row.assignment = a /\ row.status \in Editable
    BY <2>1, <2>2 DEF TypeInv, TypeOK, TablesOK, NewRow, Editable
  <2>4. OthersUntouched(r) /\ \A q \in Requests \ {r} : base'[q] = base[q]
    BY <2>2, OverKnows DEF Goto, OthersUntouched, TypeInv, TypeOK, RequestsOK
  <2>5. Elsewhere(r, s)
    BY <1>1, <2>3, <2>4 DEF Elsewhere
  <2>6. /\ On(r, s) /\ On(r, s)' /\ ~Logging(r, s) /\ ~Patching(r, s)
        /\ \A q \in Requests \ {r} : Opened(q) => job[q].sub # s
    <3>1. On(r, s)'
      BY <1>2, <2>2, OverKnows DEF On, TypeInv, TypeOK
    <3> QED  BY <1>1, <1>4, <3>1, OnReport DEF On, Opened, Logging, Patching
  <2>7. \A t \in Submissions : Exists(t) => rows[t].assignment # a
    BY <1>1, <1>2 DEF Knows, Opening
  <2>8. OneSubmissionPerAssignment'
    BY <2>3, <2>7 DEF SerialInv, OneSubmissionPerAssignment, Exists
  <2>9. ASSUME NEW q \in Requests \ {r} PROVE Opening(q)'
    <3> SUFFICES ASSUME pc'[q] \in {"code", "insert"}, NEW t \in Submissions, Exists(t)'
                 PROVE  rows'[t].assignment # job'[q].assignment
      BY DEF Opening
    <3>1. pc[q] \in {"code", "insert"} /\ job'[q] = job[q]
      BY <2>4 DEF OthersUntouched
    <3>2. CASE t = s
      BY <1>1, <1>2, <2>3, <3>1, <3>2 DEF Apart
    <3>3. CASE t # s
      BY <2>3, <3>1, <3>3 DEF SerialInv, Knows, Opening, Exists
    <3> QED  BY <3>2, <3>3
  <2>10. Knows(r)'
    <3>1. CASE End(r)
      BY <3>1, OverKnows DEF TypeInv, TypeOK
    <3>2. CASE mem' = [mem EXCEPT ![r] = row] /\ Goto(r, "view") /\ UNCHANGED job
      <4>1. pc'[r] = "view" /\ mem'[r] = row
        BY <3>2 DEF Goto, TypeInv, TypeOK, RequestsOK
      <4> QED  BY <1>2, <2>3, <3>2, <4>1 DEF Knows, Opening, OwnRow, CopyTrue, ChangeTrue,
                  PatchTrue, LogTrue, Patching, Logging, LogLabels
    <3> QED  BY <2>2, <3>1, <3>2
  <2>11. ReportTrue(s)'
    <3>1. /\ cells[s] = NoCells /\ logs[s] = << >>
          /\ \A u \in Reporters : view[u].sub # s
      BY <1>4 DEF SerialInv, ReportTrue, FreeIsEmpty, Behind
    <3>2. FreeIsEmpty(s)' /\ DeskTrue(s)' /\ Behind(s)' /\ ScreensTrue(s)'
      BY <1>1, <2>3, <3>1 DEF FreeIsEmpty, DeskTrue, Behind, ScreensTrue
    <3>3. CountTrue(s)'
      BY <1>1, <3>1 DEF CountTrue, Filled, NoCells
    <3>4. ChainTrue(s)' /\ LastEntryTrue(s)'
      BY <1>1, <3>1 DEF ChainTrue, LastEntryTrue
    <3> QED  BY <3>2, <3>3, <3>4 DEF ReportTrue, WholeTrue
  <2> QED  BY <2>5, <2>6, <2>8, <2>9, <2>10, <2>11, StepKeepsSerial
<1> QED  BY <1>3, <1>4

\* A cell is written as it was read.
LEMMA CellWriteSerial ==
  ASSUME TypeInv, SerialInv, Apart, NEW r \in Requests, CellWrite(r)
  PROVE  SerialInv'
<1>1. pc[r] = "cellWrite" /\ Opened(r) /\ Knows(r) /\ InHand(r)
  BY DEF CellWrite, Opened, SerialInv, TypeInv, InHandOK
<1>2. PICK s \in Submissions, c \in Cells, val \in Values :
        /\ s = job[r].sub /\ c = edit[r].cur /\ val = edit[r].val
        /\ Exists(s) /\ job[r].op = "patchCells"
  BY <1>1 DEF InHand
<1>3. /\ Patching(r, s) /\ rows[s].status \in Editable
      /\ edit[r].old = cells[s][c]
  BY <1>1, <1>2 DEF Knows, PatchTrue, Patching
<1>4. CASE Die(r) /\ UNCHANGED cells
  BY <1>1, <1>4, DieSerial DEF CellWrite
<1>5. ASSUME /\ cells' = IF edit[r].old = val THEN cells ELSE [cells EXCEPT ![s][c] = val]
             /\ edit' = [edit EXCEPT ![r].todo = @ \ {c}, ![r].saved = @ \cup {c},
                                     ![r].cur = NULL, ![r].old = NULL]
             /\ Goto(r, "cell")
             /\ UNCHANGED <<rows, logs, view, job, mem, base, snap, history>>
      PROVE  SerialInv'
  <2>1. /\ pc'[r] = "cell" /\ UNCHANGED <<content, died>>
        /\ edit'[r].saved = edit[r].saved \cup {c} /\ edit'[r].val = edit[r].val
        /\ OthersUntouched(r)
    BY <1>5 DEF Goto, OthersUntouched, history, TypeInv, TypeOK, RequestsOK, Edit
  <2>2. /\ \A t \in Submissions \ {s} : cells'[t] = cells[t]
        /\ cells'[s][c] = val
        /\ \A d \in Cells \ {c} : cells'[s][d] = cells[s][d]
    BY <1>3, <1>5 DEF TypeInv, TypeOK, TablesOK, CellTable
  <2>3. Elsewhere(r, s)
    BY <1>5, <2>1, <2>2 DEF Elsewhere
  <2>4. /\ On(r, s) /\ On(r, s)' /\ Patching(r, s)'
        /\ \A q \in Requests \ {r} : Opened(q) => job[q].sub # s
    BY <1>1, <1>2, <1>5, <2>1, AloneOn DEF On, Patching
  <2>5. /\ OneSubmissionPerAssignment'
        /\ \A q \in Requests \ {r} : Opening(q)'
    BY <1>5, <2>1, SameReports DEF Exists, OthersUntouched
  <2>6. Knows(r)'
    <3>1. Opening(r)' /\ OwnRow(r)' /\ CopyTrue(r)' /\ ChangeTrue(r)' /\ LogTrue(r)'
      BY <1>1, <1>5, <2>1 DEF Knows, Opening, OwnRow, Opened, CopyTrue, ChangeTrue, LogTrue,
         Logging, LogLabels
    <3>2. PatchTrue(r)'
      <4>1. \A d \in edit'[r].saved : cells'[s][d] = edit'[r].val
        BY <1>1, <1>2, <1>3, <2>1, <2>2 DEF Knows, PatchTrue, TypeInv, TypeOK, RequestsOK, Edit
      <4> QED  BY <1>1, <1>2, <1>3, <1>5, <2>1, <4>1 DEF Knows, PatchTrue, Patching
    <3> QED  BY <3>1, <3>2 DEF Knows
  <2>7. ReportTrue(s)'
    <3>1. ReportTrue(s)
      BY DEF SerialInv
    <3>2. FreeIsEmpty(s)' /\ DeskTrue(s)' /\ Behind(s)'
      BY <1>2, <1>3, <1>5, <3>1 DEF ReportTrue, FreeIsEmpty, DeskTrue, Behind, Exists
    <3>3. ASSUME s \notin died' PROVE WholeTrue(s)'
      <4>1. WholeTrue(s)
        BY <2>1, <3>1, <3>3 DEF ReportTrue
      <4>2. CountTrue(s)'
        BY <2>4 DEF CountTrue
      <4>3. \A q \in Requests : Logging(q, s)' <=> Logging(q, s)
        BY <1>1, <1>5, <2>1 DEF Logging, OthersUntouched
      <4>4. ChainTrue(s)' /\ LastEntryTrue(s)'
        BY <1>3, <1>5, <4>1, <4>3 DEF WholeTrue, ChainTrue, LastEntryTrue, LastEntry
      <4>5. ScreensTrue(s)'
        <5> SUFFICES ASSUME NEW u \in Reporters, view[u].sub = s,
                            view[u].version = rows[s].version, NEW d \in Cells,
                            \A q \in Requests : Patching(q, s)' => d \notin edit'[q].saved
                     PROVE  view[u].cells[d] = cells'[s][d]
          BY <1>5 DEF ScreensTrue
        <5>1. d # c /\ d \notin edit[r].saved
          BY <2>1, <2>4
        <5>2. \A q \in Requests : Patching(q, s) => d \notin edit[q].saved
          BY <2>1, <5>1 DEF OthersUntouched, Patching
        <5> QED  BY <2>2, <4>1, <5>1, <5>2 DEF WholeTrue, ScreensTrue
      <4> QED  BY <4>2, <4>4, <4>5 DEF WholeTrue
    <3> QED  BY <3>2, <3>3 DEF ReportTrue
  <2> QED  BY <2>3, <2>4, <2>5, <2>6, <2>7, StepKeepsSerial
<1> QED  BY <1>2, <1>4, <1>5 DEF CellWrite

\* save writes the copy as it is when the row is the one it selected.
LEMMA MergeSame ==
  ASSUME NEW row \in Row, NEW new \in Row
  PROVE  Merge(row, row, new) = new
BY DEF Merge, Row

\* What the save of request r does to its report s.
SavesIts(r, s) ==
  /\ pc[r] = "saveWrite" /\ Opened(r) /\ Knows(r) /\ s = job[r].sub
  /\ rows[s] \in Row /\ mem[r] \in Row /\ mem[r].assignment = rows[s].assignment
  /\ rows'[s] = mem[r] /\ \A t \in Submissions \ {s} : rows'[t] = rows[t]
  /\ UNCHANGED <<cells, logs, died>>
  /\ \A q \in Requests : ~Logging(q, s)
  /\ \A q \in Requests \ {r} : ~Patching(q, s) /\ (Opened(q) => job[q].sub # s)
  /\ OneSubmissionPerAssignment'

\* The save of a request that is alone on its report writes its copy as it is.
LEMMA SaveWriteSaves ==
  ASSUME TypeInv, SerialInv, Apart, NEW r \in Requests, SaveWrite(r)
  PROVE  \E s \in Submissions : SavesIts(r, s)
<1>1. pc[r] = "saveWrite" /\ Opened(r) /\ Knows(r) /\ UNCHANGED <<cells, logs, died>>
  BY DEF SaveWrite, Opened, SerialInv
<1>2. PICK s \in Submissions : s = job[r].sub
  BY <1>1, OnReport
<1>3. rows[s] \in Row /\ mem[r] \in Row
  BY <1>1, <1>2, OnReport DEF TypeInv, TypeOK, TablesOK, Exists
<1>4. mem[r].assignment = rows[s].assignment
  <2>1. CASE job[r].op = "patchCells"
    <3>1. PICK pct, n : mem[r] = [rows[s] EXCEPT !.completionPct = pct, !.version = n]
      BY <1>1, <1>2, <2>1 DEF Knows, ChangeTrue, PatchMade
    <3> QED  BY <1>3, <3>1 DEF Row
  <2>2. CASE job[r].op # "patchCells"
    BY <1>1, <1>2, <2>2 DEF Knows, ChangeTrue, MoveMade
  <2> QED  BY <2>1, <2>2
<1>5. rows'[s] = mem[r] /\ \A t \in Submissions \ {s} : rows'[t] = rows[t]
  <2>1. rows' = [rows EXCEPT ![s] = Merge(rows[s], rows[s], mem[r])]
    BY <1>1, <1>2 DEF SaveWrite, Knows, CopyTrue
  <2> QED  BY <1>3, <2>1, MergeSame DEF TypeInv, TypeOK, TablesOK
<1>6. \A q \in Requests \ {r} : Opened(q) => job[q].sub # s
  BY <1>1, <1>2, AloneOn
<1>7. /\ \A q \in Requests : ~Logging(q, s)
      /\ \A q \in Requests \ {r} : ~Patching(q, s)
  BY <1>1, <1>6 DEF Logging, Patching, Opened
<1>8. OneSubmissionPerAssignment'
  BY <1>2, <1>4, <1>5, OnReport, <1>1, SameReports DEF Exists
<1> QED  BY <1>1, <1>2, <1>3, <1>4, <1>5, <1>6, <1>7, <1>8 DEF SavesIts

\* The openings of the others stay true: no report is made.
LEMMA SaveOpenings ==
  ASSUME SerialInv, NEW r \in Requests, NEW s \in Submissions, SavesIts(r, s), Exists(s),
         OthersUntouched(r)
  PROVE  \A q \in Requests \ {r} : Opening(q)'
<1>1. /\ \A t \in Submissions : Exists(t)' => Exists(t)
      /\ \A t \in Submissions : Exists(t) => rows'[t].assignment = rows[t].assignment
  BY DEF SavesIts, Exists
<1> QED  BY <1>1, SameReports DEF OthersUntouched

\* A patch is saved: its count and its version are those of the cells.
LEMMA SavePatchSerial ==
  ASSUME TypeInv, SerialInv, Apart, NEW r \in Requests, SaveWrite(r),
         job[r].op = "patchCells"
  PROVE  SerialInv'
<1>1. PICK s \in Submissions : SavesIts(r, s)
  BY SaveWriteSaves
<1> USE <1>1
<1>2. End(r) /\ view' = Answered(r) /\ UNCHANGED content
  BY DEF SaveWrite, LoggedOps, EventOf
<1>3. /\ Knows(r)' /\ OthersUntouched(r) /\ ~Opened(r)'
      /\ \A q \in Requests \ {r} : base'[q] = base[q]
  BY <1>2, OverKnows DEF TypeInv, TypeOK
<1>4. Exists(s) /\ Exists(s)'
  BY OnReport, NullAssumption DEF SavesIts, Exists
<1>5. /\ Patching(r, s) /\ rows[s].status \in Editable
      /\ view[job[r].user].sub = s => view[job[r].user].version = rows[s].version
      /\ \A c \in edit[r].saved : cells[s][c] = edit[r].val
  BY DEF SavesIts, Patching, Knows, PatchTrue
<1>6. PICK pct : pct = Completion(rows[s].assignment, Cardinality(Filled(s)))
  OBVIOUS
<1>7. mem[r] = [rows[s] EXCEPT !.completionPct = pct, !.version = @ + 1]
  BY <1>6 DEF SavesIts, Knows, ChangeTrue, PatchMade
<1>8. /\ rows'[s].status = rows[s].status /\ rows'[s].version = rows[s].version + 1
      /\ rows'[s].completionPct = pct /\ rows'[s].assignment = rows[s].assignment
      /\ rows[s].version \in Nat
  <2>1. /\ mem[r].status = rows[s].status /\ mem[r].version = rows[s].version + 1
        /\ mem[r].completionPct = pct /\ rows[s].version \in Nat
    BY <1>7 DEF SavesIts, Row, Version
  <2> QED  BY <2>1 DEF SavesIts
<1>9. ASSUME NEW u \in Reporters
      PROVE  \/ view'[u] = view[u] /\ (view[u].sub = s => u # job[r].user)
             \/ /\ view[u].sub = s /\ u = job[r].user /\ view'[u].sub = s
                /\ view'[u].version = rows'[s].version
                /\ \A c \in Cells : view'[u].cells[c] = IF c \in edit[r].saved THEN edit[r].val
                                                        ELSE view[u].cells[c]
  <2>1. CASE view[job[r].user].sub # s
    BY <1>2, <2>1 DEF Answered, SavesIts
  <2>2. CASE view[job[r].user].sub = s
    <3>1. PICK shown : shown = [c \in Cells |-> IF c \in edit[r].saved THEN edit[r].val
                                                ELSE view[job[r].user].cells[c]]
      OBVIOUS
    <3>2. PICK n : n = mem[r].version
      OBVIOUS
    <3>3. job[r].user \in Reporters
      BY <1>5 DEF SavesIts, Knows, PatchTrue
    <3>4. view' = [view EXCEPT ![job[r].user] =
                                  [view[job[r].user] EXCEPT !.version = n, !.cells = shown]]
      BY <1>2, <2>2, <3>1, <3>2, <3>3 DEF Answered, SavesIts, TypeInv, TypeOK, ScreensOK
    <3>5. CASE u # job[r].user
      BY <3>4, <3>5 DEF TypeInv, TypeOK, ScreensOK
    <3>6. CASE u = job[r].user
      <4>1. view'[u] = [view[u] EXCEPT !.version = n, !.cells = shown]
        BY <3>4, <3>6 DEF TypeInv, TypeOK, ScreensOK
      <4>2. view'[u].sub = view[u].sub /\ view'[u].version = n /\ view'[u].cells = shown
        BY <4>1 DEF TypeInv, TypeOK, ScreensOK
      <4> QED  BY <2>2, <3>1, <3>2, <3>6, <4>2 DEF SavesIts
    <3> QED  BY <3>5, <3>6
  <2> QED  BY <2>1, <2>2
<1>10. Elsewhere(r, s)
  BY <1>2, <1>3, <1>9 DEF Elsewhere, SavesIts
<1>11. /\ On(r, s) /\ On(r, s)'
       /\ \A q \in Requests \ {r} : Opening(q)'
  BY <1>3, <1>4, SaveOpenings DEF SavesIts, On
<1>12. ReportTrue(s)'
  <2>1. ReportTrue(s)
    BY DEF SerialInv
  <2>2. FreeIsEmpty(s)' /\ DeskTrue(s)'
    BY <1>4, <1>5, <1>8 DEF FreeIsEmpty, DeskTrue
  <2>3. Behind(s)'
    <3> SUFFICES ASSUME NEW u \in Reporters, view'[u].sub = s
                 PROVE  view'[u].version <= rows'[s].version
      BY <1>4 DEF Behind
    <3>1. view[u].sub = s => view[u].version <= rows[s].version
      BY <2>1 DEF ReportTrue, Behind
    <3>2. view[u].version \in Nat
      BY DEF TypeInv, TypeOK, ScreensOK
    <3>3. CASE view'[u] = view[u]
      BY <1>8, <3>1, <3>2, <3>3
    <3>4. CASE view'[u].version = rows'[s].version
      BY <1>8, <3>4
    <3> QED  BY <1>9, <3>3, <3>4
  <2>4. ASSUME s \notin died' PROVE WholeTrue(s)'
    <3>1. WholeTrue(s)
      BY <2>1, <2>4 DEF ReportTrue, SavesIts
    <3>2. ScreensTrue(s)'
      <4> SUFFICES ASSUME NEW u \in Reporters, view'[u].sub = s,
                          view'[u].version = rows'[s].version, NEW c \in Cells
                   PROVE  view'[u].cells[c] = cells[s][c]
        BY DEF ScreensTrue, SavesIts
      <4>1. view[u].sub = s => view[u].version <= rows[s].version
        BY <2>1 DEF ReportTrue, Behind
      <4>2. view[u].version \in Nat
        BY DEF TypeInv, TypeOK, ScreensOK
      <4>3. view'[u] # view[u]
        BY <1>8, <4>1, <4>2
      <4>4. /\ view[u].sub = s /\ u = job[r].user
            /\ view'[u].cells[c] = IF c \in edit[r].saved THEN edit[r].val ELSE view[u].cells[c]
        BY <1>9, <4>3
      <4>5. CASE c \in edit[r].saved
        BY <1>5, <4>4, <4>5
      <4>6. CASE c \notin edit[r].saved
        <5>1. view[u].version = rows[s].version
          BY <1>5, <4>4
        <5>2. \A q \in Requests : Patching(q, s) => c \notin edit[q].saved
          BY <4>6 DEF SavesIts
        <5>3. view[u].cells[c] = cells[s][c]
          BY <3>1, <4>4, <5>1, <5>2 DEF WholeTrue, ScreensTrue
        <5> QED  BY <4>4, <4>6, <5>3
      <4> QED  BY <4>5, <4>6
    <3>3. CountTrue(s)'
      <4>1. Filled(s)' = Filled(s)
        BY DEF Filled, SavesIts
      <4> QED  BY <1>6, <1>8, <4>1 DEF CountTrue
    <3>4. ChainTrue(s)' /\ LastEntryTrue(s)'
      BY <1>5, <1>8, <3>1 DEF SavesIts, WholeTrue, ChainTrue, LastEntryTrue, LastEntry
    <3> QED  BY <3>2, <3>3, <3>4 DEF WholeTrue
  <2> QED  BY <2>2, <2>3, <2>4 DEF ReportTrue
<1> QED  BY <1>3, <1>10, <1>11, <1>12, StepKeepsSerial DEF SavesIts

\* A move is saved: it goes on from the last entry of the log.
LEMMA SaveMoveSerial ==
  ASSUME TypeInv, SerialInv, Apart, NEW r \in Requests, SaveWrite(r),
         job[r].op # "patchCells"
  PROVE  SerialInv'
<1>1. PICK s \in Submissions : SavesIts(r, s)
  BY SaveWriteSaves
<1> USE <1>1
<1>2. /\ UNCHANGED view
      /\ content' = IF job[r].op = "submit" THEN [content EXCEPT ![s] = cells[s]] ELSE content
      /\ IF job[r].op \in LoggedOps THEN Goto(r, "logCells") /\ UNCHANGED memory ELSE End(r)
  BY DEF SaveWrite, SavesIts
<1>3. MoveMade(r, rows[s])
  BY DEF SavesIts, Knows, ChangeTrue
<1>4. Exists(s) /\ Exists(s)'
  BY OnReport, NullAssumption DEF SavesIts, Exists
<1>5. /\ rows'[s].assignment = rows[s].assignment
      /\ rows'[s].completionPct = rows[s].completionPct
      /\ rows'[s].status = mem[r].status
      /\ rows'[s].version = IF job[r].op = "submit" THEN rows[s].version + 1 ELSE rows[s].version
      /\ rows[s].version \in Nat
  BY <1>3 DEF SavesIts, MoveMade, Row, Version
<1>6. /\ \A t \in Submissions \ {s} : content'[t] = content[t]
      /\ content'[s] = IF job[r].op = "submit" THEN cells[s] ELSE content[s]
  BY <1>2 DEF TypeInv, TypeOK, HistoryOK
<1>7. /\ OthersUntouched(r) /\ \A q \in Requests \ {r} : base'[q] = base[q]
      /\ job[r].op \in LoggedOps => /\ pc'[r] = "logCells"
                                    /\ job'[r] = job[r] /\ mem'[r] = mem[r]
      /\ job[r].op \notin LoggedOps => Knows(r)' /\ ~Opened(r)'
  <2>1. CASE job[r].op \in LoggedOps
    BY <1>2, <2>1 DEF Goto, memory, OthersUntouched, TypeInv, TypeOK, RequestsOK
  <2>2. CASE job[r].op \notin LoggedOps
    BY <1>2, <2>2, OverKnows DEF TypeInv, TypeOK
  <2> QED  BY <2>1, <2>2
<1>8. Elsewhere(r, s)
  BY <1>2, <1>6, <1>7 DEF Elsewhere, SavesIts
<1>9. /\ On(r, s) /\ On(r, s)'
      /\ \A q \in Requests \ {r} : Opening(q)'
  BY <1>4, <1>7, SaveOpenings DEF SavesIts, On
<1>10. job[r].op \in LoggedOps =>
         /\ <<job[r].op, rows[s].status, rows'[s].status>> \in Moves
         /\ job[r].from = rows[s].status
  BY <1>3, <1>5 DEF MoveMade
<1>11. job[r].op \notin LoggedOps =>
         rows[s].status = "PENDING_DEPARTMENT" /\ rows'[s].status = "DRAFT"
  BY <1>3, <1>5 DEF MoveMade
<1>12. /\ job[r].op \in LoggedOps /\ job[r].op # "submit" => rows[s].status \notin Editable
       /\ EventOf[job[r].op] # "SUBMIT" /\ job[r].op \in LoggedOps => job[r].op # "submit"
       /\ rows'[s].status \notin Editable /\ job[r].op # "submit" => rows[s].status \notin Editable
  BY <1>10, <1>11 DEF Moves, Editable, EventOf
<1>13. ReportTrue(s)
  BY DEF SerialInv
<1>14. Knows(r)'
  <2>1. CASE job[r].op \in LoggedOps
    <3>1. Opening(r)' /\ OwnRow(r)' /\ CopyTrue(r)' /\ ChangeTrue(r)' /\ PatchTrue(r)'
      BY <1>5, <1>7, <2>1 DEF SavesIts, Knows, Opening, OwnRow, CopyTrue, ChangeTrue, PatchTrue,
         Patching, LogLabels
    <3>2. LogTrue(r)'
      <4> SUFFICES ASSUME Len(logs[s]) > 0, s \notin died
                   PROVE  /\ Follows(job[r].from, LastEntry(s).to)
                          /\ EventOf[job[r].op] # "SUBMIT" =>
                               /\ LastEntry(s).cells = cells[s]
                               /\ LastEntry(s).version = rows'[s].version
        BY <1>7, <2>1 DEF LogTrue, Logging, SavesIts, LastEntry
      <4>1. LastEntryTrue(s)
        BY <1>13 DEF ReportTrue, WholeTrue
      <4> QED  BY <1>5, <1>10, <1>12, <2>1, <4>1 DEF LastEntryTrue, SavesIts
    <3> QED  BY <3>1, <3>2 DEF Knows
  <2> QED  BY <1>7, <2>1
<1>15. ReportTrue(s)'
  <2>1. FreeIsEmpty(s)' /\ DeskTrue(s)'
    BY <1>4, <1>6, <1>12, <1>13 DEF FreeIsEmpty, DeskTrue, ReportTrue, SavesIts
  <2>2. Behind(s)'
    <3> SUFFICES ASSUME NEW u \in Reporters, view[u].sub = s
                 PROVE  view[u].version <= rows'[s].version
      BY <1>2, <1>4 DEF Behind
    <3>1. view[u].version \in Nat /\ view[u].version <= rows[s].version
      BY <1>13 DEF ReportTrue, Behind, TypeInv, TypeOK, ScreensOK
    <3> QED  BY <1>5, <3>1
  <2>3. ASSUME s \notin died' PROVE WholeTrue(s)'
    <3>1. WholeTrue(s)
      BY <1>13, <2>3 DEF ReportTrue, SavesIts
    <3>2. \A q \in Requests : ~Patching(q, s)
      BY DEF SavesIts, Patching
    <3>3. ScreensTrue(s)'
      <4> SUFFICES ASSUME NEW u \in Reporters, view[u].sub = s,
                          view[u].version = rows'[s].version, NEW c \in Cells
                   PROVE  view[u].cells[c] = cells[s][c]
        BY <1>2 DEF ScreensTrue, SavesIts
      <4>1. view[u].version \in Nat /\ view[u].version <= rows[s].version
        BY <1>13 DEF ReportTrue, Behind, TypeInv, TypeOK, ScreensOK
      <4>2. view[u].version = rows[s].version
        BY <1>5, <4>1
      <4> QED  BY <3>1, <3>2, <4>2 DEF WholeTrue, ScreensTrue
    <3>4. CountTrue(s)'
      <4>1. Filled(s)' = Filled(s)
        BY DEF Filled, SavesIts
      <4> QED  BY <1>4, <1>5, <3>1, <3>2, <4>1 DEF WholeTrue, CountTrue
    <3>5. ChainTrue(s)'
      BY <3>1 DEF SavesIts, WholeTrue, ChainTrue
    <3>6. LastEntryTrue(s)'
      <4>1. CASE job[r].op \in LoggedOps
        BY <1>7, <4>1 DEF LastEntryTrue, Logging, SavesIts
      <4>2. CASE job[r].op \notin LoggedOps
        BY <1>11, <3>1, <4>2 DEF LastEntryTrue, WholeTrue, SavesIts, LastEntry, Follows, Editable
      <4> QED  BY <4>1, <4>2
    <3> QED  BY <3>3, <3>4, <3>5, <3>6 DEF WholeTrue
  <2> QED  BY <2>1, <2>2, <2>3 DEF ReportTrue
<1> QED  BY <1>8, <1>9, <1>14, <1>15, StepKeepsSerial DEF SavesIts

\* The entry a request adds goes on from the last one.
LEMMA LogWriteSerial ==
  ASSUME TypeInv, SerialInv, Apart, NEW r \in Requests, LogWrite(r)
  PROVE  SerialInv'
<1>1. pc[r] = "logWrite" /\ Opened(r) /\ Knows(r)
  BY DEF LogWrite, Opened, SerialInv
<1>2. PICK s \in Submissions : s = job[r].sub /\ Exists(s)
  BY <1>1, OnReport
<1>3. PICK e : e = FlowLog(r)
  OBVIOUS
<1>4. /\ logs' = [logs EXCEPT ![s] = Append(@, e)]
      /\ Goto(r, "notify")
      /\ UNCHANGED <<rows, cells, content, died, view, job, mem, base, edit, snap>>
  BY <1>2, <1>3 DEF LogWrite, history, memory
<1>5. /\ logs[s] \in Seq(Entry) /\ logs'[s] = Append(logs[s], e)
      /\ \A t \in Submissions \ {s} : logs'[t] = logs[t]
  BY <1>4 DEF TypeInv, TypeOK, TablesOK
<1>6. pc'[r] = "notify" /\ OthersUntouched(r)
  BY <1>4 DEF Goto, OthersUntouched, TypeInv, TypeOK, RequestsOK
<1>7. Elsewhere(r, s)
  BY <1>4, <1>5, <1>6 DEF Elsewhere
<1>8. /\ On(r, s) /\ On(r, s)'
      /\ \A q \in Requests \ {r} : Opened(q) => job[q].sub # s
  BY <1>1, <1>2, <1>4, AloneOn DEF On
<1>9. /\ OneSubmissionPerAssignment'
      /\ \A q \in Requests \ {r} : Opening(q)'
  BY <1>4, <1>6, SameReports DEF Exists, OthersUntouched
<1>10. Knows(r)'
  BY <1>1, <1>4, <1>6 DEF Knows, Opening, OwnRow, Opened, CopyTrue, ChangeTrue, PatchTrue,
     LogTrue, Patching, Logging, LogLabels
<1>11. ReportTrue(s)'
  <2>1. ReportTrue(s)
    BY DEF SerialInv
  <2>2. FreeIsEmpty(s)' /\ DeskTrue(s)' /\ Behind(s)'
    BY <1>2, <1>4, <2>1 DEF ReportTrue, FreeIsEmpty, DeskTrue, Behind, Exists
  <2>3. ASSUME s \notin died' PROVE WholeTrue(s)'
    <3>1. WholeTrue(s)
      BY <1>4, <2>1, <2>3 DEF ReportTrue
    <3>2. \A q \in Requests : Patching(q, s)' <=> Patching(q, s)
      BY <1>1, <1>4, <1>6 DEF Patching, OthersUntouched
    <3>3. ScreensTrue(s)' /\ CountTrue(s)'
      BY <1>4, <3>1, <3>2 DEF WholeTrue, ScreensTrue, CountTrue, Filled, Exists
    <3>4. /\ e.from = job[r].from /\ e.to = rows[s].status /\ e.event = EventOf[job[r].op]
          /\ e.cells = cells[s] /\ e.version = rows[s].version
      BY <1>1, <1>2, <1>3 DEF FlowLog, Knows, CopyTrue, LogTrue, Logging, LogLabels
    <3>5. Len(logs[s]) > 0 => Chained(LastEntry(s), e)
      BY <1>1, <1>2, <1>4, <2>3, <3>4 DEF Knows, LogTrue, Logging, Chained
    <3>6. /\ Len(logs[s]) \in Nat /\ Len(logs'[s]) = Len(logs[s]) + 1
          /\ logs'[s][Len(logs[s]) + 1] = e
          /\ \A i \in 1 .. Len(logs[s]) : logs'[s][i] = logs[s][i]
      BY <1>5
    <3>7. ChainTrue(s)'
      <4> SUFFICES ASSUME NEW i \in 1 .. Len(logs[s]) PROVE Chained(logs'[s][i], logs'[s][i + 1])
        BY <3>6 DEF ChainTrue, Chained
      <4>1. CASE i = Len(logs[s])
        BY <3>5, <3>6, <4>1 DEF LastEntry
      <4>2. CASE i # Len(logs[s])
        BY <3>1, <3>6, <4>2 DEF WholeTrue, ChainTrue
      <4> QED  BY <4>1, <4>2
    <3>8. LastEntryTrue(s)'
      BY <1>4, <3>4, <3>6 DEF LastEntryTrue, LastEntry, Follows
    <3> QED  BY <3>3, <3>7, <3>8 DEF WholeTrue
  <2> QED  BY <2>2, <2>3 DEF ReportTrue
<1> QED  BY <1>7, <1>8, <1>9, <1>10, <1>11, StepKeepsSerial

-----------------------------------------------------------------------------
(* The invariant, and what it says of reports.                             *)

\* At first there are neither reports nor requests.
LEMMA InitSerial == Init => SerialInv
<1> SUFFICES ASSUME Init PROVE SerialInv
  OBVIOUS
<1>1. ASSUME NEW r \in Requests PROVE Knows(r)
  BY DEF Init, Knows, Opening, OwnRow, Opened, CopyTrue, ChangeTrue, PatchTrue, LogTrue,
     Patching, Logging, LogLabels
<1>2. ASSUME NEW s \in Submissions PROVE ReportTrue(s)
  <2>1. ~Exists(s) /\ cells[s] = NoCells /\ logs[s] = << >>
    BY DEF Init, Exists
  <2>2. \A u \in Reporters : view[u].sub # s
    BY NullAssumption DEF Init, NoView
  <2> QED  BY <2>1, <2>2 DEF ReportTrue, FreeIsEmpty, DeskTrue, Behind, WholeTrue,
              ScreensTrue, CountTrue, ChainTrue, LastEntryTrue
<1>3. OneSubmissionPerAssignment
  BY DEF Init, OneSubmissionPerAssignment, Exists
<1> QED  BY <1>1, <1>2, <1>3 DEF SerialInv

\* What no request, report or screen takes part in changes nothing.
LEMMA StillSerial ==
  ASSUME SerialInv,
         UNCHANGED <<rows, cells, logs, content, died, view, pc, job, mem, base, edit, snap>>
  PROVE  SerialInv'
<1>1. ASSUME NEW r \in Requests PROVE Knows(r)'
  <2>1. Knows(r)
    BY DEF SerialInv
  <2>2. Opening(r)' /\ OwnRow(r)' /\ CopyTrue(r)'
    BY <2>1 DEF Knows, Opening, OwnRow, Opened, CopyTrue, Exists
  <2>3. ChangeTrue(r)'
    BY <2>1 DEF Knows, ChangeTrue, PatchMade, MoveMade, Filled
  <2>4. PatchTrue(r)'
    BY <2>1 DEF Knows, PatchTrue, Patching
  <2>5. LogTrue(r)'
    BY <2>1 DEF Knows, LogTrue, Logging, LastEntry
  <2> QED  BY <2>2, <2>3, <2>4, <2>5 DEF Knows
<1>2. ASSUME NEW s \in Submissions PROVE ReportTrue(s)'
  <2>1. \A q \in Requests : /\ Patching(q, s)' <=> Patching(q, s)
                            /\ Logging(q, s)' <=> Logging(q, s)
    BY DEF Patching, Logging
  <2> QED  BY <2>1 DEF SerialInv, ReportTrue, FreeIsEmpty, DeskTrue, Behind, WholeTrue,
              ScreensTrue, CountTrue, ChainTrue, LastEntryTrue, LastEntry, Filled, Exists
<1>3. OneSubmissionPerAssignment'
  BY DEF SerialInv, OneSubmissionPerAssignment, Exists
<1> QED  BY <1>1, <1>2, <1>3 DEF SerialInv

\* Every step between two states in which requests take turns keeps the invariant.
LEMMA NextSerial ==
  TypeInv /\ SafetyInv /\ SerialInv /\ Apart /\ Apart' /\ [Next]_vars => SerialInv'
<1> SUFFICES ASSUME TypeInv, SafetyInv, SerialInv, Apart, Apart', [Next]_vars
             PROVE  SerialInv'
  OBVIOUS
<1>1. ASSUME NEW r \in Requests, Arrive(r) PROVE SerialInv'
  BY <1>1, ArriveSerial
<1>2. ASSUME NEW r \in Requests, Proceed(r) PROVE SerialInv'
  BY <1>2, PickCodeSerial, InsertSerial, ViewSerial, CellReadSerial, CellWriteSerial,
     CountSerial, SaveLoadSerial, SavePatchSerial, SaveMoveSerial, LogReadSerial,
     LogWriteSerial, NotifySerial DEF Proceed
<1>3. ASSUME NEW r \in Requests, Crash(r) PROVE SerialInv'
  BY <1>3, DieSerial DEF Crash, tables
<1>4. ASSUME NEW a \in Assignments, CancelAssignment(a) PROVE SerialInv'
  BY <1>4, StillSerial DEF CancelAssignment, history, memory
<1>5. CASE UNCHANGED vars
  BY <1>5, StillSerial DEF vars, tables, history, memory
<1> QED  BY <1>1, <1>2, <1>3, <1>4, <1>5 DEF Next

\* While requests on an assignment take turns, what each has in hand is what the
\* tables say, and every report is what its screens, its log and its count say.
THEOREM SerialInvariant == Spec /\ []Apart => [](TypeInv /\ SafetyInv /\ SerialInv)
<1>1. Init => SerialInv
  BY InitSerial
<1>2. TypeInv /\ SafetyInv /\ SerialInv /\ Apart /\ Apart' /\ [Next]_vars => SerialInv'
  BY NextSerial
<1> QED  BY <1>1, <1>2, SafetyInvariant, PTL DEF Spec

\* An assignment never has two reports unless two requests opened it together.
THEOREM OneReportEach == Spec /\ []Apart => []OneSubmissionPerAssignment
<1>1. SerialInv => OneSubmissionPerAssignment
  BY DEF SerialInv
<1> QED  BY <1>1, SerialInvariant, PTL

\* Approvers decide on the very cells that were submitted.
THEOREM DeskIsTrue == Spec /\ []Apart => []DeskShowsSubmitted
<1>1. SerialInv => DeskShowsSubmitted
  BY DEF SerialInv, ReportTrue, DeskTrue, DeskShowsSubmitted
<1> QED  BY <1>1, SerialInvariant, PTL

\* The flow log of a report tells of its moves without a gap.
THEOREM LogHasNoGap == Spec /\ []Apart => []LogIsChain
<1>1. SerialInv => LogIsChain
  BY DEF SerialInv, ReportTrue, WholeTrue, ChainTrue, Chained, Follows, LogIsChain
<1> QED  BY <1>1, SerialInvariant, PTL

\* A patch that passes the version check overwrites no cell its user has not seen.
THEOREM NoEditIsLost == Spec /\ []Apart => []VersionIdentifiesContent
<1>1. TypeInv /\ SerialInv => VersionIdentifiesContent
  <2> SUFFICES ASSUME TypeInv, SerialInv, Quiet, NEW u \in Reporters,
                      NEW s \in Submissions \ died, view[u].sub = s,
                      view[u].version = rows[s].version
               PROVE  view[u].cells = cells[s]
    BY DEF VersionIdentifiesContent
  <2>1. view[u].cells \in CellTable /\ cells[s] \in CellTable
    BY NullAssumption DEF TypeInv, TypeOK, TablesOK, ScreensFull
  <2>2. \A r \in Requests : ~Patching(r, s)
    BY DEF Quiet, Patching
  <2>3. \A c \in Cells : view[u].cells[c] = cells[s][c]
    BY <2>2 DEF SerialInv, ReportTrue, WholeTrue, ScreensTrue
  <2> QED  BY <2>1, <2>3 DEF CellTable
<1> QED  BY <1>1, SerialInvariant, PTL

\* The completion percentage is that of the cells.
THEOREM CountKeepsUp == Spec /\ []Apart => []CompletionIsCurrent
<1>1. SerialInv => CompletionIsCurrent
  BY DEF SerialInv, ReportTrue, WholeTrue, CountTrue, Quiet, Patching, CompletionIsCurrent
<1> QED  BY <1>1, SerialInvariant, PTL

-----------------------------------------------------------------------------
(* The handlers implement the workflow.                                    *)

\* The workflow that tables like these stand for.
ReportsIn(table, a) == {s \in Submissions : table[s] # NULL /\ table[s].assignment = a}

StatusIn(table) ==
  [a \in Assignments |->
     IF ReportsIn(table, a) = {} THEN "NOT_OPENED"
     ELSE table[CHOOSE s \in ReportsIn(table, a) : TRUE].status]

ContentIn(table, store) ==
  [a \in Assignments |->
     IF ReportsIn(table, a) = {} THEN NoCells
     ELSE store[CHOOSE s \in ReportsIn(table, a) : TRUE]]

\* What the workflow sees of rows and cells.
LEMMA Mapped ==
  /\ WorkflowStatus = StatusIn(rows) /\ WorkflowContent = ContentIn(rows, cells)
  /\ WorkflowStatus' = StatusIn(rows') /\ WorkflowContent' = ContentIn(rows', cells')
BY DEF WorkflowStatus, WorkflowContent, StatusIn, ContentIn, ReportsIn, Reports, Exists

\* Of an assignment with one report the workflow has the status and the cells.
LEMMA MappedTo ==
  ASSUME NEW table, NEW store, NEW a \in Assignments, NEW s,
         ReportsIn(table, a) = {s}
  PROVE  StatusIn(table)[a] = table[s].status /\ ContentIn(table, store)[a] = store[s]
<1>1. (CHOOSE t \in ReportsIn(table, a) : TRUE) = s
  OBVIOUS
<1>2. ReportsIn(table, a) # {}
  OBVIOUS
<1> QED  BY <1>1, <1>2 DEF StatusIn, ContentIn

\* What the step of a request on s does not touch stands for the same.
LEMMA MappedSame ==
  ASSUME NEW table, NEW store, NEW table2, NEW store2, NEW s, NEW a \in Assignments,
         \A t \in Submissions \ {s} : table2[t] = table[t] /\ store2[t] = store[t],
         s \notin ReportsIn(table, a), s \notin ReportsIn(table2, a)
  PROVE  /\ StatusIn(table2)[a] = StatusIn(table)[a]
         /\ ContentIn(table2, store2)[a] = ContentIn(table, store)[a]
<1>1. ReportsIn(table2, a) = ReportsIn(table, a)
  BY DEF ReportsIn
<1>2. CASE ReportsIn(table, a) = {}
  BY <1>1, <1>2 DEF StatusIn, ContentIn
<1>3. CASE ReportsIn(table, a) # {}
  <2>1. PICK t \in ReportsIn(table, a) : t = CHOOSE x \in ReportsIn(table, a) : TRUE
    BY <1>3
  <2>2. t \in Submissions \ {s}
    BY <2>1 DEF ReportsIn
  <2> QED  BY <1>1, <1>3, <2>1, <2>2 DEF StatusIn, ContentIn
<1> QED  BY <1>2, <1>3

\* A step on one report moves one assignment of the workflow.
LEMMA MappedStep ==
  ASSUME TypeInv, TypeInv', NEW s \in Submissions, Exists(s)', NEW a \in Assignments,
         rows'[s].assignment = a, OneSubmissionPerAssignment',
         Exists(s) => rows[s].assignment = a,
         \A t \in Submissions \ {s} : rows'[t] = rows[t] /\ cells'[t] = cells[t]
  PROVE  /\ WorkflowStatus' = [WorkflowStatus EXCEPT ![a] = rows'[s].status]
         /\ WorkflowContent' = [WorkflowContent EXCEPT ![a] = cells'[s]]
         /\ Exists(s) => WorkflowStatus[a] = rows[s].status /\ WorkflowContent[a] = cells[s]
         /\ ~Exists(s) => WorkflowStatus[a] = "NOT_OPENED" /\ WorkflowContent[a] = NoCells
<1>1. ReportsIn(rows', a) = {s}
  BY DEF ReportsIn, OneSubmissionPerAssignment, Exists
<1>2. ReportsIn(rows, a) = IF Exists(s) THEN {s} ELSE {}
  BY <1>1 DEF ReportsIn, Exists
<1>3. StatusIn(rows')[a] = rows'[s].status /\ ContentIn(rows', cells')[a] = cells'[s]
  BY <1>1, MappedTo
<1>4. ASSUME NEW b \in Assignments \ {a}
      PROVE  /\ StatusIn(rows')[b] = StatusIn(rows)[b]
             /\ ContentIn(rows', cells')[b] = ContentIn(rows, cells)[b]
  <2>1. s \notin ReportsIn(rows, b) /\ s \notin ReportsIn(rows', b)
    BY DEF ReportsIn, Exists
  <2> QED  BY <2>1, MappedSame
<1>5. StatusIn(rows') = [StatusIn(rows) EXCEPT ![a] = rows'[s].status]
  <2>1. \A b \in Assignments :
          StatusIn(rows')[b] = IF b = a THEN rows'[s].status ELSE StatusIn(rows)[b]
    BY <1>3, <1>4
  <2> QED  BY <2>1 DEF StatusIn
<1>6. ContentIn(rows', cells') = [ContentIn(rows, cells) EXCEPT ![a] = cells'[s]]
  <2>1. \A b \in Assignments :
          ContentIn(rows', cells')[b] = IF b = a THEN cells'[s] ELSE ContentIn(rows, cells)[b]
    BY <1>3, <1>4
  <2> QED  BY <2>1 DEF ContentIn
<1>7. CASE Exists(s)
  BY <1>2, <1>5, <1>6, <1>7, Mapped, MappedTo
<1>8. CASE ~Exists(s)
  <2>1. StatusIn(rows)[a] = "NOT_OPENED" /\ ContentIn(rows, cells)[a] = NoCells
    BY <1>2, <1>8 DEF StatusIn, ContentIn
  <2> QED  BY <1>5, <1>6, <1>8, <2>1, Mapped
<1> QED  BY <1>7, <1>8

\* At first nothing is opened.
LEMMA InitImplements == Init => Workflow!Init
<1> SUFFICES ASSUME Init PROVE Workflow!Init
  OBVIOUS
<1>1. \A a \in Assignments : Reports(a) = {}
  BY DEF Init, Reports, Exists
<1> QED  BY <1>1 DEF WorkflowStatus, WorkflowContent, Workflow!Init, Workflow!Blank, NoCells

\* The workflow does not see a step that leaves rows and cells alone.
LEMMA StutterImplements ==
  ASSUME UNCHANGED <<rows, cells>>
  PROVE  UNCHANGED <<WorkflowStatus, WorkflowContent>>
BY Mapped

\* The moves of the handlers are moves of the workflow.
LEMMA MoveInFlow ==
  ASSUME NEW op, NEW from, NEW to,
         \/ op \in LoggedOps /\ <<op, from, to>> \in Moves
         \/ from = "PENDING_DEPARTMENT" /\ to = "DRAFT"
  PROVE  <<from, to>> \in Workflow!Flow /\ to \in {f[2] : f \in Workflow!Flow}
<1>1. <<from, to>> \in Workflow!Flow
  BY DEF Moves, Workflow!Flow
<1>2. PICK f \in Workflow!Flow : f = <<from, to>>
  BY <1>1
<1>3. f[2] = to
  BY <1>2
<1> QED  BY <1>1, <1>2, <1>3

\* Making a report opens its assignment.
LEMMA InsertImplements ==
  ASSUME TypeInv, TypeInv', SerialInv, SerialInv', NEW r \in Requests, InsertSubmission(r)
  PROVE  Workflow!Next \/ UNCHANGED <<WorkflowStatus, WorkflowContent>>
<1>1. PICK s \in Submissions, a \in Assignments : s = job[r].sub /\ a = job[r].assignment
  BY DEF InsertSubmission, TypeInv, InHandOK, InHand
<1>2. CASE Exists(s)
  BY <1>1, <1>2, StutterImplements DEF InsertSubmission
<1>3. CASE ~Exists(s)
  <2>1. PICK row \in Row : row = NewRow(a)
    BY EmptyShapes
  <2>2. rows' = [rows EXCEPT ![s] = row] /\ UNCHANGED cells
    BY <1>1, <1>3, <2>1 DEF InsertSubmission
  <2>3. /\ rows'[s] = row /\ \A t \in Submissions \ {s} : rows'[t] = rows[t]
        /\ row.assignment = a /\ row.status = "DRAFT"
    BY <2>1, <2>2 DEF TypeInv, TypeOK, TablesOK, NewRow
  <2>4. Exists(s)' /\ OneSubmissionPerAssignment'
    BY <2>3, NullAssumption DEF Exists, SerialInv
  <2>5. cells[s] = NoCells
    BY <1>3 DEF SerialInv, ReportTrue, FreeIsEmpty
  <2>6. /\ WorkflowStatus' = [WorkflowStatus EXCEPT ![a] = "DRAFT"]
        /\ WorkflowContent' = [WorkflowContent EXCEPT ![a] = NoCells]
        /\ WorkflowStatus[a] = "NOT_OPENED" /\ WorkflowContent[a] = NoCells
    BY <1>3, <2>2, <2>3, <2>4, <2>5, MappedStep
  <2>7. UNCHANGED WorkflowContent
    <3>1. WorkflowContent = [b \in Assignments |-> WorkflowContent[b]]
      BY DEF WorkflowContent
    <3> QED  BY <2>6, <3>1
  <2>8. Workflow!Open(a)
    BY <2>6, <2>7 DEF Workflow!Open
  <2> QED  BY <2>8 DEF Workflow!Next
<1> QED  BY <1>2, <1>3

\* Writing a cell fills it in, while the report may be edited.
LEMMA CellWriteImplements ==
  ASSUME TypeInv, TypeInv', SerialInv, SerialInv', NEW r \in Requests, CellWrite(r)
  PROVE  Workflow!Next \/ UNCHANGED <<WorkflowStatus, WorkflowContent>>
<1>1. pc[r] = "cellWrite" /\ Knows(r) /\ InHand(r) /\ UNCHANGED rows
  BY DEF CellWrite, SerialInv, TypeInv, InHandOK
<1>2. PICK s \in Submissions, c \in Cells, val \in Values, a \in Assignments :
        /\ s = job[r].sub /\ c = edit[r].cur /\ val = edit[r].val
        /\ Exists(s) /\ job[r].op = "patchCells" /\ a = rows[s].assignment
  BY <1>1 DEF InHand, Knows, OwnRow, Opened
<1>3. rows[s].status \in Editable
  BY <1>1, <1>2 DEF Knows, PatchTrue, Patching
<1>4. CASE UNCHANGED cells
  BY <1>1, <1>4, StutterImplements
<1>5. CASE cells' = [cells EXCEPT ![s][c] = val]
  <2>1. PICK filled : filled = [cells[s] EXCEPT ![c] = val]
    OBVIOUS
  <2>2. cells'[s] = filled /\ \A t \in Submissions \ {s} : cells'[t] = cells[t]
    BY <1>5, <2>1 DEF TypeInv, TypeOK, TablesOK
  <2>3. Exists(s)' /\ OneSubmissionPerAssignment'
    BY <1>1, <1>2 DEF Exists, SerialInv
  <2>4. /\ WorkflowStatus' = [WorkflowStatus EXCEPT ![a] = rows[s].status]
        /\ WorkflowContent' = [WorkflowContent EXCEPT ![a] = filled]
        /\ WorkflowStatus[a] = rows[s].status /\ WorkflowContent[a] = cells[s]
    BY <1>1, <1>2, <2>2, <2>3, MappedStep
  <2>5. UNCHANGED WorkflowStatus
    <3>1. WorkflowStatus = [b \in Assignments |-> WorkflowStatus[b]]
      BY DEF WorkflowStatus
    <3> QED  BY <2>4, <3>1
  <2>6. WorkflowContent' = [WorkflowContent EXCEPT ![a][c] = val]
    BY <2>1, <2>4
  <2>7. Workflow!Fill(a)
    BY <1>3, <2>4, <2>5, <2>6 DEF Workflow!Fill
  <2> QED  BY <2>7 DEF Workflow!Next
<1> QED  BY <1>2, <1>4, <1>5 DEF CellWrite

\* A save moves the report along the approval flow, or leaves it where it is.
LEMMA SaveWriteImplements ==
  ASSUME TypeInv, TypeInv', SerialInv, SerialInv', Apart, NEW r \in Requests, SaveWrite(r)
  PROVE  Workflow!Next \/ UNCHANGED <<WorkflowStatus, WorkflowContent>>
<1>1. PICK s \in Submissions : SavesIts(r, s)
  BY SaveWriteSaves
<1>2. PICK a \in Assignments : a = rows[s].assignment
  BY <1>1 DEF SavesIts, Row
<1>3. Exists(s) /\ Exists(s)' /\ OneSubmissionPerAssignment'
  BY <1>1, NullAssumption DEF SavesIts, Exists
<1>4. /\ WorkflowStatus' = [WorkflowStatus EXCEPT ![a] = mem[r].status]
      /\ WorkflowContent' = [WorkflowContent EXCEPT ![a] = cells[s]]
      /\ WorkflowStatus[a] = rows[s].status /\ WorkflowContent[a] = cells[s]
  BY <1>1, <1>2, <1>3, MappedStep DEF SavesIts
<1>5. /\ WorkflowStatus = [b \in Assignments |-> WorkflowStatus[b]]
      /\ WorkflowContent = [b \in Assignments |-> WorkflowContent[b]]
  BY DEF WorkflowStatus, WorkflowContent
<1>6. UNCHANGED WorkflowContent
  BY <1>4, <1>5
<1>7. CASE job[r].op = "patchCells"
  <2>1. PICK pct : mem[r] = [rows[s] EXCEPT !.completionPct = pct, !.version = @ + 1]
    BY <1>1, <1>7 DEF SavesIts, Knows, ChangeTrue, PatchMade
  <2>2. mem[r].status = rows[s].status
    BY <1>1, <2>1 DEF SavesIts, Row
  <2> QED  BY <1>4, <1>5, <1>6, <2>2
<1>8. CASE job[r].op # "patchCells"
  <2>1. MoveMade(r, rows[s])
    BY <1>1, <1>8 DEF SavesIts, Knows, ChangeTrue
  <2>2. /\ <<WorkflowStatus[a], mem[r].status>> \in Workflow!Flow
        /\ mem[r].status \in {f[2] : f \in Workflow!Flow}
    BY <1>4, <2>1, MoveInFlow DEF MoveMade
  <2>3. Workflow!Move(a)
    BY <1>4, <1>6, <2>2 DEF Workflow!Move
  <2> QED  BY <2>3 DEF Workflow!Next
<1> QED  BY <1>7, <1>8

\* Every other statement is a stuttering step of the workflow.
LEMMA NextImplements ==
  TypeInv /\ TypeInv' /\ SerialInv /\ SerialInv' /\ Apart /\ [Next]_vars
    => [Workflow!Next]_<<WorkflowStatus, WorkflowContent>>
<1> SUFFICES ASSUME TypeInv, TypeInv', SerialInv, SerialInv', Apart, [Next]_vars
             PROVE  Workflow!Next \/ UNCHANGED <<WorkflowStatus, WorkflowContent>>
  OBVIOUS
<1>1. ASSUME NEW r \in Requests, Arrive(r)
      PROVE  UNCHANGED <<rows, cells>>
  BY <1>1 DEF Arrive, Create, GetByAssignment, OpenAbsent, GetOne, Submit, CancelSubmit,
     PatchCells, ApproveDepartment, RejectDepartment, ApproveDistrict, RejectDistrict, Change,
     tables
<1>2. ASSUME NEW r \in Requests, Proceed(r)
      PROVE  Workflow!Next \/ UNCHANGED <<WorkflowStatus, WorkflowContent>>
  <2>1. CASE InsertSubmission(r) \/ CellWrite(r) \/ SaveWrite(r)
    BY <2>1, InsertImplements, CellWriteImplements, SaveWriteImplements
  <2>2. CASE PickCode(r) \/ View(r) \/ CellRead(r) \/ Count(r) \/ SaveLoad(r)
             \/ LogCells(r) \/ LogRow(r) \/ LogWrite(r) \/ Notify(r)
    <3>1. UNCHANGED <<rows, cells>>
      BY <2>2 DEF PickCode, View, CellRead, Count, SaveLoad, LogCells, LogRow, LogWrite, Notify,
         tables
    <3> QED  BY <3>1, StutterImplements
  <2> QED  BY <1>2, <2>1, <2>2 DEF Proceed
<1>3. ASSUME NEW r \in Requests, Crash(r) PROVE UNCHANGED <<rows, cells>>
  BY <1>3 DEF Crash, tables
<1>4. ASSUME NEW a \in Assignments, CancelAssignment(a) PROVE UNCHANGED <<rows, cells>>
  BY <1>4 DEF CancelAssignment
<1>5. CASE UNCHANGED vars
  BY <1>5, StutterImplements DEF vars, tables
<1> QED  BY <1>1, <1>2, <1>3, <1>4, <1>5, StutterImplements DEF Next

\* The handlers, with their statements, their crashes and whatever happens to other
\* reports meanwhile, implement ReportWorkflow while requests on an assignment take
\* turns.
THEOREM WorkflowImplemented == Spec /\ []Apart => ImplementsWorkflow
<1>1. Init => Workflow!Init
  BY InitImplements
<1>2. TypeInv /\ TypeInv' /\ SerialInv /\ SerialInv' /\ Apart /\ [Next]_vars
        => [Workflow!Next]_<<WorkflowStatus, WorkflowContent>>
  BY NextImplements
<1> QED  BY <1>1, <1>2, SerialInvariant, PTL DEF Spec, ImplementsWorkflow, Workflow!Spec

=============================================================================
