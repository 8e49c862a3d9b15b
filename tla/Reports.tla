------------------------------- MODULE Reports ------------------------------
(***************************************************************************)
(* The report of a recommendation: the first reader captures a snapshot of *)
(* what is known, inserts it, renders it into the object store and marks   *)
(* its row; later readers are given what was rendered.  Readers overlap,   *)
(* the tenant's identity is edited, statements and processes fail.         *)
(***************************************************************************)
EXTENDS Naturals, Sequences

CONSTANTS
  Readers, None,
  MaxEdits, MaxRows       \* edits of the tenant, snapshots (bounds)

ASSUME ReportsAssumption == MaxEdits \in Nat /\ MaxRows \in Nat \ {0} /\ None \notin 0 .. MaxEdits

VARIABLES
  identity,    \* the tenant's identity: the number of its edits
  rows,        \* report_snapshots of the recommendation, in the order of created_at
  objects,     \* objects[i]: the rendering of row i that is stored, or None
  pc, row,     \* of each reader; the row it reads or renders
  data         \* what a reader captured, or answers with

vars == <<identity, rows, objects, pc, row, data>>

Answered == {r \in Readers : pc[r] = "answered"}

Init ==
  /\ identity = 0 /\ rows = <<>> /\ objects = [i \in 1 .. MaxRows |-> None]
  /\ pc = [r \in Readers |-> "new"]
  /\ row = [r \in Readers |-> None] /\ data = [r \in Readers |-> None]

Goto(r, step) == pc' = [pc EXCEPT ![r] = step]
Rendered == {i \in DOMAIN rows : rows[i].status = "rendered"}

\* getRenderedReport: the newest rendered row, if there is one.
Look(r) ==
  /\ pc[r] = "new"
  /\ \/ /\ Rendered = {}
        /\ Goto(r, "capture") /\ UNCHANGED row
     \/ \E i \in Rendered :
          /\ \A j \in Rendered : j <= i
          /\ row' = [row EXCEPT ![r] = i]
          /\ Goto(r, "read")
  /\ UNCHANGED <<identity, rows, objects, data>>

\* The stored object is the answer.
Read(r) ==
  /\ pc[r] = "read" /\ objects[row[r]] # None
  /\ data' = [data EXCEPT ![r] = objects[row[r]]]
  /\ Goto(r, "answered")
  /\ UNCHANGED <<identity, rows, objects, row>>

\* recommendationReportData: one statement.
Capture(r) ==
  /\ pc[r] = "capture"
  /\ data' = [data EXCEPT ![r] = identity]
  /\ Goto(r, "insert")
  /\ UNCHANGED <<identity, rows, objects, row>>

\* createQueuedRecommendationReport
Insert(r) ==
  /\ pc[r] = "insert" /\ Len(rows) < MaxRows
  /\ rows' = Append(rows, [status |-> "queued", data |-> data[r]])
  /\ row' = [row EXCEPT ![r] = Len(rows) + 1]
  /\ \/ Goto(r, "put")
     \/ Goto(r, "error")            \* the reply is lost
  /\ UNCHANGED <<identity, objects, data>>

\* Fault: rendered from what is current rather than from the snapshot.
PutCurrent(r) ==
  /\ pc[r] = "put"
  /\ objects' = [objects EXCEPT ![row[r]] = identity]
  /\ Goto(r, "mark")
  /\ UNCHANGED <<identity, rows, row, data>>

\* The rendering of the reader's own snapshot, written under the id of its row.
Put(r) ==
  /\ pc[r] = "put"
  /\ objects' = [objects EXCEPT ![row[r]] = data[r]]
  /\ Goto(r, "mark")
  /\ UNCHANGED <<identity, rows, row, data>>

\* The update matches queued rows only; the trigger lets nothing else through.
Mark(r, status) ==
  rows' = IF rows[row[r]].status = "queued" THEN [rows EXCEPT ![row[r]].status = status] ELSE rows

MarkRendered(r) ==
  /\ pc[r] = "mark" /\ Mark(r, "rendered")
  /\ \/ Goto(r, "answered")
     \/ Goto(r, "markFailed")       \* the reply is lost
  /\ UNCHANGED <<identity, objects, row, data>>

\* Rendering, putting or marking throws, with or without the object.
RenderFails(r) ==
  /\ pc[r] \in {"put", "mark"}
  /\ \/ UNCHANGED objects
     \/ pc[r] = "put" /\ objects' = [objects EXCEPT ![row[r]] = data[r]]
  /\ Goto(r, "markFailed")
  /\ UNCHANGED <<identity, rows, row, data>>

\* Fault: the failure is written over whatever the row has become.
MarkFailedAlways(r) ==
  /\ pc[r] = "markFailed"
  /\ rows' = [rows EXCEPT ![row[r]].status = "failed"]
  /\ Goto(r, "error")
  /\ UNCHANGED <<identity, objects, row, data>>

MarkFailed(r) ==
  /\ pc[r] = "markFailed" /\ Mark(r, "failed")
  /\ Goto(r, "error")
  /\ UNCHANGED <<identity, objects, row, data>>

\* A statement before the row exists fails, the object cannot be read, the last update
\* fails, or the process dies.
GiveUp(r) ==
  /\ pc[r] \notin {"new", "answered", "error"}
  /\ Goto(r, "error")
  /\ UNCHANGED <<identity, rows, objects, row, data>>

Edit ==
  /\ identity < MaxEdits /\ identity' = identity + 1
  /\ UNCHANGED <<rows, objects, pc, row, data>>

Step(r) == \/ Look(r) \/ Read(r) \/ Capture(r) \/ Insert(r) \/ Put(r) \/ MarkRendered(r)
           \/ RenderFails(r) \/ MarkFailed(r)

Next == Edit \/ \E r \in Readers : Step(r) \/ GiveUp(r)
Spec == Init /\ [][Next]_vars
-----------------------------------------------------------------------------
Steps == {"new", "read", "capture", "insert", "put", "mark", "markFailed", "answered", "error"}
Snapshot == [status : {"queued", "rendered", "failed"}, data : 0 .. MaxEdits]

TypeOK ==
  /\ identity \in 0 .. MaxEdits
  /\ rows \in Seq(Snapshot) /\ Len(rows) <= MaxRows
  /\ objects \in [1 .. MaxRows -> (0 .. MaxEdits) \cup {None}]
  /\ \A i \in 1 .. MaxRows : objects[i] # None => i \in DOMAIN rows
  /\ pc \in [Readers -> Steps]
  /\ row \in [Readers -> (1 .. MaxRows) \cup {None}]
  /\ data \in [Readers -> (0 .. MaxEdits) \cup {None}]

\* "Report re-renders use frozen snapshots, not current tenant names" (PRODUCT.md): a row
\* that can be served has its object, and the object shows what the row froze.
RenderedAsCaptured == \A i \in Rendered : objects[i] = rows[i].data

\* A report that was answered is kept, in a row that is rendered, whatever failed behind
\* the answer or in another reader.  That row is served again unless a newer one was
\* rendered: getRenderedReport takes the newest.
AnsweredIsKept == \A r \in Answered : \E i \in Rendered : rows[i].data = data[r]

\* What readers were given is what was frozen for them, and its row is kept.
ReportsAreFrozen == TypeOK /\ RenderedAsCaptured /\ AnsweredIsKept

\* A row that was rendered never changes again, so it is not lost by a late failure.
RenderedIsFinal == [][\A i \in Rendered : rows'[i] = rows[i]]_vars
=============================================================================
