----------------------------- MODULE Reports_proofs ----------------------------
(***************************************************************************)
(* What is safe in the API, for every value of the constants: the reports, *)
(* the requests and their limits, the limiter of logins and the listings.  *)
(*                                                                         *)
(* Reports: the invariant gives every row to the one reader that inserted  *)
(* it (Apart), whose captured data it holds and which finds it queued until*)
(* it has marked it (Owned).  So no other reader can touch the object or   *)
(* the status of a row, and one that is rendered has its object for good.  *)
(*                                                                         *)
(* Logins: a bucket holds what was answered (BucketOK), and a refusal says *)
(* of every later time what its buckets will hold (RefusalOK): the oldest  *)
(* entries leave first, and nothing comes in before it is overtaken.       *)
(*                                                                         *)
(* Requests: who has passed the query was entitled then (RequestOK); what  *)
(* was admitted is in its bucket and inside the window (BudgetOK).         *)
(*                                                                         *)
(* Listings: a row's rank among the matching rows is a bijection onto the  *)
(* first numbers, so a page holds the newest (SelectIsSound); the walk's   *)
(* rows end at its cursor, and what is steady is among them or behind it.  *)
(***************************************************************************)
EXTENDS Reports, Requests, SessionLimiter, Listings, FiniteSetTheorems, SequenceTheorems, TLAPS

\* The steps at which a reader works on a row of its own.
Own == {"put", "mark", "markFailed"}

Owned ==
  \A r \in Readers :
    /\ pc[r] \in Own => row[r] \in DOMAIN rows /\ rows[row[r]].data = data[r]
    /\ pc[r] \in {"put", "mark"} => rows[row[r]].status = "queued"
    /\ pc[r] = "mark" => objects[row[r]] = data[r]
    /\ pc[r] = "insert" => data[r] \in 0 .. MaxEdits
    /\ pc[r] = "read" => row[r] \in Rendered

Apart ==
  \A r, s \in Readers : r # s /\ pc[r] \in Own /\ pc[s] \in Own => row[r] # row[s]

IInv == TypeOK /\ Owned /\ Apart /\ RenderedAsCaptured /\ AnsweredIsKept

-----------------------------------------------------------------------------
LEMMA InitIInv == Init => IInv
<1> SUFFICES ASSUME Init PROVE IInv
  OBVIOUS
<1> USE ReportsAssumption
<1>1. TypeOK
  BY DEF Init, TypeOK, Steps, Snapshot
<1>2. Owned /\ Apart
  BY DEF Init, Owned, Apart, Own
<1>3. RenderedAsCaptured /\ AnsweredIsKept
  BY DEF Init, RenderedAsCaptured, AnsweredIsKept, Rendered, Answered
<1>4. QED
  BY <1>1, <1>2, <1>3 DEF IInv

\* What Mark leaves in rows: only a queued row of the reader changes, and only its status.
LEMMA MarkRows ==
  ASSUME TypeOK, NEW r \in Readers, row[r] \in DOMAIN rows,
         NEW status \in {"rendered", "failed"}, Mark(r, status)
  PROVE  /\ rows' \in Seq(Snapshot) /\ Len(rows') = Len(rows) /\ DOMAIN rows' = DOMAIN rows
         /\ \A i \in DOMAIN rows : rows'[i].data = rows[i].data
         /\ \A i \in DOMAIN rows : i # row[r] => rows'[i] = rows[i]
         /\ \A i \in Rendered : rows'[i] = rows[i]
         /\ rows[row[r]].status = "queued" => rows'[row[r]].status = status
         /\ \A i \in Rendered' : i \in Rendered \/ (i = row[r] /\ status = "rendered" /\ rows[i].status = "queued")
<1>1. CASE rows[row[r]].status = "queued"
  <2>1. rows' = [rows EXCEPT ![row[r]].status = status]
    BY <1>1 DEF Mark
  <2>2. rows[row[r]] \in Snapshot
    BY DEF TypeOK
  <2>3. [rows[row[r]] EXCEPT !.status = status] \in Snapshot
    BY <2>2 DEF Snapshot
  <2>4. rows' \in Seq(Snapshot) /\ Len(rows') = Len(rows) /\ DOMAIN rows' = DOMAIN rows
    BY <2>1, <2>3 DEF TypeOK
  <2>5. rows'[row[r]] = [rows[row[r]] EXCEPT !.status = status]
    BY <2>1 DEF TypeOK
  <2>6. \A i \in DOMAIN rows : i # row[r] => rows'[i] = rows[i]
    BY <2>1 DEF TypeOK
  <2>7. rows'[row[r]].data = rows[row[r]].data /\ rows'[row[r]].status = status
    BY <2>2, <2>5 DEF Snapshot
  <2>8. QED
    BY <1>1, <2>4, <2>6, <2>7 DEF Rendered
<1>2. CASE rows[row[r]].status # "queued"
  BY <1>2 DEF Mark, Rendered, TypeOK
<1>3. QED
  BY <1>1, <1>2

\* A step that leaves the rendered rows and their objects alone keeps what was answered, if
\* the reader it belongs to is not answered, or is with what a rendered row holds.
LEMMA KeptStays ==
  ASSUME AnsweredIsKept, NEW r \in Readers,
         \A i \in Rendered : i \in Rendered' /\ rows'[i].data = rows[i].data,
         \A s \in Readers \ {r} : data'[s] = data[s] /\ (pc'[s] = "answered" => pc[s] = "answered"),
         r \in Answered' => \E i \in Rendered' : rows'[i].data = data'[r]
  PROVE  AnsweredIsKept'
<1> SUFFICES ASSUME NEW s \in Answered'
             PROVE  \E i \in Rendered' : rows'[i].data = data'[s]
  BY DEF AnsweredIsKept
<1>1. CASE s = r
  BY <1>1
<1>2. CASE s # r
  <2>1. s \in Answered /\ data'[s] = data[s]
    BY <1>2 DEF Answered
  <2>2. PICK i \in Rendered : rows[i].data = data[s]
    BY <2>1 DEF AnsweredIsKept
  <2>3. QED
    BY <2>1, <2>2
<1>3. QED
  BY <1>1, <1>2

\* A step that changes no row and no object.
LEMMA SameRows ==
  ASSUME RenderedAsCaptured, UNCHANGED <<rows, objects>>
  PROVE  RenderedAsCaptured' /\ Rendered' = Rendered /\ DOMAIN rows' = DOMAIN rows
BY DEF RenderedAsCaptured, Rendered

-----------------------------------------------------------------------------
(* One lemma for each action *)

LEMMA LookInv == ASSUME IInv, NEW r \in Readers, Look(r) PROVE IInv'
<1> USE DEF IInv
<1> USE ReportsAssumption
<1>0. UNCHANGED <<identity, rows, objects, data>> /\ pc[r] = "new"
  BY DEF Look
<1>1. RenderedAsCaptured' /\ Rendered' = Rendered /\ DOMAIN rows' = DOMAIN rows
  BY <1>0, SameRows
<1>2. CASE Goto(r, "capture") /\ UNCHANGED row
  <2>1. TypeOK'
    BY <1>0, <1>2 DEF TypeOK, Goto, Steps
  <2>2. Owned' /\ Apart'
    BY <1>0, <1>1, <1>2 DEF TypeOK, Owned, Apart, Own, Goto
  <2>3. AnsweredIsKept'
    BY <1>0, <1>1, <1>2, KeptStays DEF TypeOK, Goto, Answered
  <2>4. QED
    BY <1>1, <2>1, <2>2, <2>3
<1>3. CASE \E i \in Rendered : row' = [row EXCEPT ![r] = i] /\ Goto(r, "read")
  <2>0. PICK i \in Rendered : row' = [row EXCEPT ![r] = i] /\ Goto(r, "read")
    BY <1>3
  <2>00. i \in 1 .. MaxRows
    BY DEF TypeOK, Rendered
  <2>1. TypeOK'
    BY <1>0, <2>0, <2>00 DEF TypeOK, Goto, Steps
  <2>2. Owned' /\ Apart'
    BY <1>0, <1>1, <2>0 DEF TypeOK, Owned, Apart, Own, Goto
  <2>3. AnsweredIsKept'
    BY <1>0, <1>1, <2>0, KeptStays DEF TypeOK, Goto, Answered
  <2>4. QED
    BY <1>1, <2>1, <2>2, <2>3
<1>4. QED
  BY <1>2, <1>3 DEF Look

LEMMA ReadInv == ASSUME IInv, NEW r \in Readers, Read(r) PROVE IInv'
<1> USE DEF IInv
<1>0. /\ UNCHANGED <<identity, rows, objects, row>> /\ pc[r] = "read"
      /\ data' = [data EXCEPT ![r] = objects[row[r]]] /\ Goto(r, "answered")
  BY DEF Read
<1>1. RenderedAsCaptured' /\ Rendered' = Rendered /\ DOMAIN rows' = DOMAIN rows
  BY <1>0, SameRows
<1>2. row[r] \in Rendered /\ objects[row[r]] = rows[row[r]].data
  BY <1>0 DEF Owned, RenderedAsCaptured
<1>3. row[r] \in 1 .. MaxRows
  BY <1>2, ReportsAssumption DEF TypeOK, Rendered
<1>4. TypeOK'
  BY <1>0, <1>3 DEF TypeOK, Goto, Steps
<1>5. Owned' /\ Apart'
  BY <1>0, <1>1 DEF TypeOK, Owned, Apart, Own, Goto
<1>6. AnsweredIsKept'
  <2>1. r \in Answered' => \E i \in Rendered' : rows'[i].data = data'[r]
    BY <1>0, <1>1, <1>2 DEF TypeOK
  <2>2. QED
    BY <1>0, <1>1, <2>1, KeptStays DEF TypeOK, Goto
<1>7. QED
  BY <1>1, <1>4, <1>5, <1>6

LEMMA CaptureInv == ASSUME IInv, NEW r \in Readers, Capture(r) PROVE IInv'
<1> USE DEF IInv
<1>0. /\ UNCHANGED <<identity, rows, objects, row>> /\ pc[r] = "capture"
      /\ data' = [data EXCEPT ![r] = identity] /\ Goto(r, "insert")
  BY DEF Capture
<1>1. RenderedAsCaptured' /\ Rendered' = Rendered /\ DOMAIN rows' = DOMAIN rows
  BY <1>0, SameRows
<1>2. TypeOK'
  BY <1>0 DEF TypeOK, Goto, Steps
<1>3. Owned' /\ Apart'
  BY <1>0, <1>1 DEF TypeOK, Owned, Apart, Own, Goto
<1>4. AnsweredIsKept'
  BY <1>0, <1>1, KeptStays DEF TypeOK, Goto, Answered
<1>5. QED
  BY <1>1, <1>2, <1>3, <1>4

LEMMA InsertInv == ASSUME IInv, NEW r \in Readers, Insert(r) PROVE IInv'
<1> USE DEF IInv
<1> USE ReportsAssumption
<1> DEFINE n == Len(rows) + 1
           snapshot == [status |-> "queued", data |-> data[r]]
<1>0. /\ UNCHANGED <<identity, objects, data>> /\ pc[r] = "insert" /\ Len(rows) < MaxRows
      /\ rows' = Append(rows, snapshot) /\ row' = [row EXCEPT ![r] = n]
  BY DEF Insert
<1>1. PICK step \in {"put", "error"} : Goto(r, step)
  BY DEF Insert
<1>2. data[r] \in 0 .. MaxEdits
  BY <1>0 DEF Owned
<1>3. snapshot \in Snapshot
  BY <1>2 DEF Snapshot
<1>4. n \in 1 .. MaxRows /\ n \notin DOMAIN rows
  BY <1>0 DEF TypeOK
<1>5. rows' \in Seq(Snapshot) /\ Len(rows') = n /\ DOMAIN rows' = DOMAIN rows \cup {n}
  BY <1>0, <1>3 DEF TypeOK
<1>6. rows'[n] = snapshot /\ \A i \in DOMAIN rows : rows'[i] = rows[i]
  BY <1>0 DEF TypeOK
<1>7. Rendered' = Rendered
  BY <1>4, <1>5, <1>6 DEF Rendered
<1>8. TypeOK'
  <2>1. row' \in [Readers -> (1 .. MaxRows) \cup {None}] /\ pc' \in [Readers -> Steps]
    BY <1>0, <1>1, <1>4 DEF TypeOK, Goto, Steps
  <2>2. QED
    BY <1>0, <1>4, <1>5, <2>1 DEF TypeOK
<1>9. Owned'
  <2> SUFFICES ASSUME NEW s \in Readers
               PROVE
                 /\ pc'[s] \in Own => row'[s] \in DOMAIN rows' /\ rows'[row'[s]].data = data'[s]
                 /\ pc'[s] \in {"put", "mark"} => rows'[row'[s]].status = "queued"
                 /\ pc'[s] = "mark" => objects'[row'[s]] = data'[s]
                 /\ pc'[s] = "insert" => data'[s] \in 0 .. MaxEdits
                 /\ pc'[s] = "read" => row'[s] \in Rendered'
    BY DEF Owned
  <2>1. CASE s = r
    <3>1. pc'[s] = step /\ row'[s] = n
      BY <1>0, <1>1, <2>1 DEF TypeOK, Goto
    <3>2. rows'[n].data = data[r] /\ rows'[n].status = "queued"
      BY <1>6
    <3>3. QED
      BY <1>0, <1>5, <2>1, <3>1, <3>2
  <2>2. CASE s # r
    <3>1. pc'[s] = pc[s] /\ row'[s] = row[s] /\ data'[s] = data[s]
      BY <1>0, <1>1, <2>2 DEF TypeOK, Goto
    <3>2. pc[s] \in Own => row[s] \in DOMAIN rows /\ rows'[row[s]] = rows[row[s]]
      BY <1>6 DEF Owned
    <3>3. QED
      BY <1>0, <1>5, <1>7, <3>1, <3>2 DEF Owned, Own
  <2>3. QED
    BY <2>1, <2>2
<1>10. Apart'
  <2>1. \A s \in Readers : s # r /\ pc'[s] \in Own => pc[s] \in Own /\ row'[s] = row[s] /\ row[s] # n
    BY <1>0, <1>1, <1>4 DEF TypeOK, Goto, Owned
  <2>2. row'[r] = n
    BY <1>0 DEF TypeOK
  <2>3. QED
    BY <2>1, <2>2 DEF Apart
<1>11. RenderedAsCaptured'
  BY <1>0, <1>6, <1>7 DEF RenderedAsCaptured, Rendered
<1>12. AnsweredIsKept'
  <2>1. \A i \in Rendered : i \in Rendered' /\ rows'[i].data = rows[i].data
    BY <1>6, <1>7 DEF Rendered
  <2>2. QED
    BY <1>0, <1>1, <2>1, KeptStays DEF TypeOK, Goto, Answered
<1>13. QED
  BY <1>8, <1>9, <1>10, <1>11, <1>12

\* Put, and the steps of RenderFails: at most the object of the reader's row is written.
LEMMA PutObject ==
  ASSUME IInv, NEW r \in Readers, pc[r] \in {"put", "mark"}, NEW step \in {"mark", "markFailed"},
         Goto(r, step), UNCHANGED <<identity, rows, row, data>>,
         \/ pc[r] = "put" /\ objects' = [objects EXCEPT ![row[r]] = data[r]]
         \/ step = "markFailed" /\ UNCHANGED objects
  PROVE  IInv'
<1> USE DEF IInv
<1> USE ReportsAssumption
<1>1. /\ row[r] \in DOMAIN rows /\ rows[row[r]].data = data[r]
      /\ rows[row[r]].status = "queued"
  BY DEF Owned, Own
<1>2. row[r] \in 1 .. MaxRows /\ rows[row[r]] \in Snapshot
  BY <1>1 DEF TypeOK
<1>3. data[r] \in 0 .. MaxEdits
  BY <1>1, <1>2 DEF Snapshot
<1>4. /\ objects' \in [1 .. MaxRows -> (0 .. MaxEdits) \cup {None}]
      /\ \A i \in 1 .. MaxRows : i # row[r] => objects'[i] = objects[i]
      /\ step = "mark" => objects'[row[r]] = data[r]
  BY <1>2, <1>3 DEF TypeOK
<1>5. Rendered' = Rendered /\ row[r] \notin Rendered
  BY <1>1 DEF Rendered
<1>6. TypeOK'
  <2>1. pc' \in [Readers -> Steps]
    BY DEF TypeOK, Goto, Steps
  <2>2. QED
    BY <1>1, <1>4, <2>1 DEF TypeOK
<1>7. \A s \in Readers : s # r => pc'[s] = pc[s]
  BY DEF TypeOK, Goto
<1>8. pc'[r] = step
  BY DEF TypeOK, Goto
<1>9. Owned'
  <2> SUFFICES ASSUME NEW s \in Readers
               PROVE
                 /\ pc'[s] \in Own => row[s] \in DOMAIN rows /\ rows[row[s]].data = data[s]
                 /\ pc'[s] \in {"put", "mark"} => rows[row[s]].status = "queued"
                 /\ pc'[s] = "mark" => objects'[row[s]] = data[s]
                 /\ pc'[s] = "insert" => data[s] \in 0 .. MaxEdits
                 /\ pc'[s] = "read" => row[s] \in Rendered
    BY <1>5 DEF Owned
  <2>1. CASE s = r
    BY <1>1, <1>4, <1>8, <2>1
  <2>2. CASE s # r
    <3>1. pc[s] = "mark" => row[s] # row[r] /\ row[s] \in 1 .. MaxRows
      BY <2>2 DEF Apart, Own, Owned, TypeOK
    <3>2. QED
      BY <1>4, <1>7, <2>2, <3>1 DEF Owned
  <2>3. QED
    BY <2>1, <2>2
<1>10. Apart'
  BY <1>7 DEF Apart, Own
<1>11. RenderedAsCaptured'
  <2>1. \A i \in Rendered : i \in 1 .. MaxRows /\ i # row[r]
    BY <1>5 DEF TypeOK, Rendered
  <2>2. QED
    BY <1>4, <1>5, <2>1 DEF RenderedAsCaptured
<1>12. AnsweredIsKept'
  BY <1>5, <1>7, <1>8, KeptStays DEF Answered
<1>13. QED
  BY <1>6, <1>9, <1>10, <1>11, <1>12

\* MarkRendered and MarkFailed: the row of the reader gets its status, if it is queued.
LEMMA MarkRow ==
  ASSUME IInv, NEW r \in Readers, UNCHANGED <<identity, objects, row, data>>,
         NEW step \in {"answered", "markFailed", "error"}, Goto(r, step),
         NEW status \in {"rendered", "failed"}, Mark(r, status),
         \/ pc[r] = "mark" /\ status = "rendered"
         \/ pc[r] = "markFailed" /\ status = "failed" /\ step = "error"
  PROVE  IInv' /\ \A i \in Rendered : rows'[i] = rows[i]
<1> USE DEF IInv
<1>1. row[r] \in DOMAIN rows /\ rows[row[r]].data = data[r]
  BY DEF Owned, Own
<1>2. /\ rows' \in Seq(Snapshot) /\ Len(rows') = Len(rows) /\ DOMAIN rows' = DOMAIN rows
      /\ \A i \in DOMAIN rows : rows'[i].data = rows[i].data
      /\ \A i \in DOMAIN rows : i # row[r] => rows'[i] = rows[i]
      /\ \A i \in Rendered : rows'[i] = rows[i]
      /\ rows[row[r]].status = "queued" => rows'[row[r]].status = status
      /\ \A i \in Rendered' : i \in Rendered \/ (i = row[r] /\ status = "rendered" /\ rows[i].status = "queued")
  BY <1>1, MarkRows
<1>3. \A i \in Rendered : i \in Rendered' /\ rows'[i].data = rows[i].data
  BY <1>2 DEF Rendered
<1>4. pc'[r] = step /\ \A s \in Readers : s # r => pc'[s] = pc[s]
  BY DEF TypeOK, Goto
<1>5. TypeOK'
  <2>1. pc' \in [Readers -> Steps]
    BY DEF TypeOK, Goto, Steps
  <2>2. QED
    BY <1>2, <2>1 DEF TypeOK
<1>6. Owned'
  <2> SUFFICES ASSUME NEW s \in Readers
               PROVE
                 /\ pc'[s] \in Own => row[s] \in DOMAIN rows' /\ rows'[row[s]].data = data[s]
                 /\ pc'[s] \in {"put", "mark"} => rows'[row[s]].status = "queued"
                 /\ pc'[s] = "mark" => objects[row[s]] = data[s]
                 /\ pc'[s] = "insert" => data[s] \in 0 .. MaxEdits
                 /\ pc'[s] = "read" => row[s] \in Rendered'
    BY DEF Owned
  <2>1. CASE s = r
    BY <1>1, <1>2, <1>4, <2>1
  <2>2. CASE s # r
    <3>1. pc[s] \in Own => row[s] # row[r] /\ row[s] \in DOMAIN rows
      BY <2>2 DEF Apart, Own, Owned
    <3>2. QED
      BY <1>2, <1>3, <1>4, <2>2, <3>1 DEF Owned, Own
  <2>3. QED
    BY <2>1, <2>2
<1>7. Apart'
  BY <1>4 DEF Apart, Own
<1>8. RenderedAsCaptured'
  <2> SUFFICES ASSUME NEW i \in Rendered' PROVE objects[i] = rows'[i].data
    BY DEF RenderedAsCaptured
  <2>1. CASE i \in Rendered
    BY <1>2, <2>1 DEF RenderedAsCaptured, Rendered
  <2>2. CASE i = row[r] /\ status = "rendered"
    <3>1. pc[r] = "mark"
      BY <2>2
    <3>2. QED
      BY <1>1, <1>2, <2>2, <3>1 DEF Owned
  <2>3. QED
    BY <1>2, <2>1, <2>2
<1>9. AnsweredIsKept'
  <2>1. ASSUME r \in Answered' PROVE \E i \in Rendered' : rows'[i].data = data'[r]
    <3>1. pc[r] = "mark" /\ status = "rendered"
      BY <1>4, <2>1 DEF Answered
    <3>2. rows[row[r]].status = "queued"
      BY <3>1 DEF Owned
    <3>3. row[r] \in Rendered'
      BY <1>1, <1>2, <3>1, <3>2 DEF Rendered
    <3>4. QED
      BY <1>1, <1>2, <3>3
  <2>2. QED
    BY <1>3, <1>4, <2>1, KeptStays
<1>10. QED
  BY <1>2, <1>5, <1>6, <1>7, <1>8, <1>9

LEMMA GiveUpInv == ASSUME IInv, NEW r \in Readers, GiveUp(r) PROVE IInv'
<1> USE DEF IInv
<1>0. UNCHANGED <<identity, rows, objects, row, data>> /\ Goto(r, "error")
  BY DEF GiveUp
<1>1. RenderedAsCaptured' /\ Rendered' = Rendered /\ DOMAIN rows' = DOMAIN rows
  BY <1>0, SameRows
<1>2. TypeOK'
  BY <1>0 DEF TypeOK, Goto, Steps
<1>3. Owned' /\ Apart'
  BY <1>0, <1>1 DEF TypeOK, Owned, Apart, Own, Goto
<1>4. AnsweredIsKept'
  BY <1>0, <1>1, KeptStays DEF TypeOK, Goto, Answered
<1>5. QED
  BY <1>1, <1>2, <1>3, <1>4

-----------------------------------------------------------------------------
(* The invariant and what follows from it *)

LEMMA EditInv == ASSUME IInv, Edit PROVE IInv'
<1>1. UNCHANGED <<rows, objects, pc, row, data>> /\ identity' \in 0 .. MaxEdits
  BY ReportsAssumption DEF IInv, TypeOK, Edit
<1>2. TypeOK'
  BY <1>1 DEF IInv, TypeOK
<1>3. (Owned /\ Apart /\ RenderedAsCaptured /\ AnsweredIsKept)'
  BY <1>1 DEF IInv, Owned, Apart, RenderedAsCaptured, AnsweredIsKept, Rendered, Answered
<1>4. QED
  BY <1>2, <1>3 DEF IInv

LEMMA StutterInv == ASSUME IInv, UNCHANGED vars PROVE IInv'
BY DEF IInv, vars, TypeOK, Owned, Apart, RenderedAsCaptured, AnsweredIsKept, Rendered, Answered

LEMMA MarksInv ==
  ASSUME IInv, NEW r \in Readers, MarkRendered(r) \/ MarkFailed(r)
  PROVE  IInv' /\ \A i \in Rendered : rows'[i] = rows[i]
<1>1. CASE MarkRendered(r)
  BY <1>1, MarkRow DEF MarkRendered
<1>2. CASE MarkFailed(r)
  BY <1>2, MarkRow DEF MarkFailed
<1>3. QED
  BY <1>1, <1>2

LEMMA NextIInv == ASSUME IInv, [Next]_vars PROVE IInv'
<1>1. ASSUME NEW r \in Readers, Step(r) PROVE IInv'
  <2>1. CASE Look(r) \/ Read(r) \/ Capture(r) \/ Insert(r)
    BY <2>1, LookInv, ReadInv, CaptureInv, InsertInv
  <2>2. CASE Put(r)
    BY <2>2, PutObject DEF Put
  <2>3. CASE RenderFails(r)
    BY <2>3, PutObject DEF RenderFails
  <2>4. CASE MarkRendered(r) \/ MarkFailed(r)
    BY <2>4, MarksInv
  <2>5. QED
    BY <1>1, <2>1, <2>2, <2>3, <2>4 DEF Step
<1>2. QED
  BY <1>1, GiveUpInv, EditInv, StutterInv DEF Next

\* Reports: types, for every number of readers, edits and snapshots.
THEOREM TypeCorrect == Spec => []TypeOK
<1>1. IInv => TypeOK
  BY DEF IInv
<1>2. QED
  BY <1>1, InitIInv, NextIInv, PTL DEF Spec

\* get serves a row only with the object that was rendered from its own frozen snapshot.
THEOREM ServedAsFrozen == Spec => []RenderedAsCaptured
<1>1. IInv => RenderedAsCaptured
  BY DEF IInv
<1>2. QED
  BY <1>1, InitIInv, NextIInv, PTL DEF Spec

\* A report that get has answered is never lost to a failure or to another reader.
THEOREM AnswersAreKept == Spec => []AnsweredIsKept
<1>1. IInv => AnsweredIsKept
  BY DEF IInv
<1>2. QED
  BY <1>1, InitIInv, NextIInv, PTL DEF Spec

\* What readers were given is what was frozen for them, and can be read again.
THEOREM AnswersAreFrozen == Spec => []ReportsAreFrozen
<1>1. TypeOK /\ RenderedAsCaptured /\ AnsweredIsKept => ReportsAreFrozen
  BY DEF ReportsAreFrozen
<1>2. QED
  BY <1>1, TypeCorrect, ServedAsFrozen, AnswersAreKept, PTL

\* No step changes a rendered row: a failure that is marked late does not take it away.
THEOREM RenderedRowsAreFinal == Spec => RenderedIsFinal
<1>1. ASSUME IInv, [Next]_vars PROVE [\A i \in Rendered : rows'[i] = rows[i]]_vars
  <2>1. ASSUME NEW r \in Readers, Step(r) PROVE \A i \in Rendered : rows'[i] = rows[i]
    <3>1. CASE MarkRendered(r) \/ MarkFailed(r)
      BY <1>1, <3>1, MarksInv
    <3>2. CASE Insert(r)
      BY <1>1, <3>2 DEF Insert, IInv, TypeOK, Rendered
    <3>3. CASE UNCHANGED rows
      BY <3>3 DEF Rendered
    <3>4. QED
      BY <2>1, <3>1, <3>2, <3>3 DEF Step, Look, Read, Capture, Put, RenderFails
  <2>2. ASSUME UNCHANGED rows PROVE \A i \in Rendered : rows'[i] = rows[i]
    BY <2>2 DEF Rendered
  <2>3. QED
    BY <1>1, <2>1, <2>2 DEF Next, GiveUp, Edit, vars
<1>2. QED
  BY <1>1, InitIInv, NextIInv, PTL DEF Spec, RenderedIsFinal

-----------------------------------------------------------------------------
(* Numbers and finite sets *)

LEMMA LeastNatural ==
  ASSUME NEW S, S \subseteq Nat, S # {}
  PROVE  \E n \in S : \A m \in S : n <= m
<1> DEFINE less == OpToRel(<, Nat)
<1>1. IsWellFoundedOn(less, Nat)
  BY NatLessThanWellFounded
<1>2. \A x, y \in Nat : x < y => <<x, y>> \in less
  BY DEF OpToRel
<1> HIDE DEF less
<1>3. \E n \in S : \A m \in S : ~ (<<m, n>> \in less)
  BY <1>1, WFMin
<1>4. PICK n \in S : \A m \in S : ~ (<<m, n>> \in less)
  BY <1>3
<1>5. ASSUME NEW m \in S PROVE n <= m
  <2>1. m \in Nat /\ n \in Nat
    OBVIOUS
  <2>2. ~(m < n)
    BY <1>2, <1>4, <2>1
  <2> QED  BY <2>1, <2>2
<1> QED  BY <1>5

LEMMA MinIsLeast ==
  ASSUME NEW S, S \subseteq Nat, S # {}
  PROVE  Min(S) \in S /\ \A m \in S : Min(S) <= m
<1>1. \E n \in S : \A m \in S : n <= m
  BY LeastNatural
<1> QED  BY <1>1 DEF Min

\* Of one or two numbers.
LEMMA MaxIsLargest ==
  ASSUME NEW S, S # {}, S \subseteq Nat, NEW p, NEW q, S \subseteq {p, q}
  PROVE  Max(S) \in S /\ \A m \in S : m <= Max(S)
<1>1. \E n \in S : \A m \in S : n >= m
  <2>1. CASE p \in S /\ q \in S
    <3>1. p >= q \/ q >= p
      BY <2>1
    <3> QED  BY <2>1, <3>1
  <2>2. CASE p \notin S \/ q \notin S
    <3>1. \A m, n \in S : m = n
      BY <2>2
    <3>2. PICK n \in S : TRUE
      OBVIOUS
    <3> QED  BY <3>1, <3>2
  <2> QED  BY <2>1, <2>2
<1>2. Max(S) \in S /\ \A m \in S : Max(S) >= m
  BY <1>1 DEF Max
<1> QED  BY <1>2

\* A set of fewer than n does not hold all that n different names name.
LEMMA SomethingNew ==
  ASSUME NEW held, IsFiniteSet(held), NEW n \in Nat, Cardinality(held) < n,
         NEW f, DOMAIN f = 1 .. n, f = [i \in 1 .. n |-> f[i]],
         \A i, j \in 1 .. n : f[i] = f[j] => i = j
  PROVE  \E i \in 1 .. n : f[i] \notin held
<1> SUFFICES ASSUME \A i \in 1 .. n : f[i] \in held PROVE FALSE
  OBVIOUS
<1>1. f \in Injection(1 .. n, held)
  BY DEF Injection, IsInjective
<1>2. Cardinality(1 .. n) <= Cardinality(held)
  BY <1>1, FS_Injection
<1>3. Cardinality(1 .. n) = n
  <2>1. 1 \in Int /\ n \in Int
    OBVIOUS
  <2>2. Cardinality(1 .. n) = IF 1 > n THEN 0 ELSE n - 1 + 1
    BY <2>1, FS_Interval, Zenon
  <2> QED  BY <2>2
<1>4. Cardinality(held) \in Nat
  BY FS_CardinalityType
<1> QED  BY <1>2, <1>3, <1>4

\* The next multiple of p.
LEMMA CeilingOfTicks ==
  ASSUME NEW n \in Nat, NEW p \in Nat \ {0}, NEW q, q = (n + p - 1) \div p
  PROVE  q \in Nat /\ p * q >= n /\ p * q - p < n
OBVIOUS

-----------------------------------------------------------------------------
(* The limiter of logins: the inductive invariant *)

\* The bucket of a key and the admissions of it that were answered.
BucketOK(k) ==
  /\ windows[k] \subseteq Admissions(k) /\ \A a \in windows[k] : a[1] <= now
  /\ Cardinality(windows[k]) <= LimitOf(k)
  /\ charged[k] \subseteq Admissions(k) /\ \A a \in charged[k] : a[1] > now - WindowOf(k)
  /\ Cardinality(charged[k]) <= LimitOf(k)
  /\ ~failed => charged[k] \subseteq windows[k]
  /\ ~failed /\ mode = "local" => charged[k] = Current(k)

\* How many admissions the window of a key holds at a time.
HeldAt(k, t) == Cardinality(RecentAt(windows[k], WindowOf(k), t))

\* The last answer is true of all times to come.
RefusalOK ==
  refusal.keys # {} =>
    /\ \A k \in refusal.keys, t \in Int : t >= now /\ t >= refusal.at => HeldAt(k, t) < LimitOf(k)
    /\ \E k \in refusal.keys : \A t \in Int :
         t >= now /\ t <= refusal.at - PerSecond => HeldAt(k, t) >= LimitOf(k)

LimiterInv ==
  /\ mode \in {"local", "redis"} /\ now \in 1 .. MaxNow /\ failed \in BOOLEAN
  /\ windows = [k \in LimiterKeys |-> windows[k]] /\ charged = [k \in LimiterKeys |-> charged[k]]
  /\ refusal.keys \subseteq LimiterKeys /\ refusal.at \in Int
  /\ \A k \in LimiterKeys : BucketOK(k)
  /\ RefusalOK

LEMMA LimitsAreNumbers ==
  ASSUME NEW k \in LimiterKeys
  PROVE  LimitOf(k) \in Nat \ {0} /\ WindowOf(k) \in Nat \ {0}
BY SessionLimiterAssumption DEF LimitOf, WindowOf

LEMMA BucketsAreFinite ==
  ASSUME NEW k \in LimiterKeys, NEW S, S \subseteq Admissions(k)
  PROVE  IsFiniteSet(S) /\ Cardinality(S) \in Nat
<1>1. MaxNow \in Int /\ LimitOf(k) \in Int /\ 1 \in Int
  BY LimitsAreNumbers, SessionLimiterAssumption
<1>2. IsFiniteSet(1 .. MaxNow) /\ IsFiniteSet(1 .. LimitOf(k))
  BY <1>1, FS_Interval, Zenon
<1>3. IsFiniteSet(Admissions(k))
  BY <1>2, FS_Product DEF Admissions
<1> QED  BY <1>3, FS_Subset, FS_CardinalityType

LEMMA ChargesAreKeys == ASSUME NEW ks \in Charges PROVE ks \subseteq LimiterKeys
BY DEF Charges, LimiterKeys

\* A bucket with room has a name left for the next admission.
LEMMA EntryIsNew ==
  ASSUME LimiterInv, NEW k \in LimiterKeys, ~Full(k)
  PROVE  /\ Entry(k) \in Admissions(k) /\ Entry(k)[1] = now /\ Entry(k) \notin Current(k)
         /\ Current(k) \cup {Entry(k)} \subseteq Admissions(k)
         /\ Cardinality(Current(k) \cup {Entry(k)}) <= LimitOf(k)
<1>1. Current(k) \subseteq Admissions(k)
  BY DEF LimiterInv, BucketOK, Current, RecentAt
<1>2. IsFiniteSet(Current(k)) /\ Cardinality(Current(k)) \in Nat
  BY <1>1, BucketsAreFinite
<1>3. LimitOf(k) \in Nat /\ Cardinality(Current(k)) < LimitOf(k)
  BY <1>2, LimitsAreNumbers DEF Full
<1> DEFINE f == [i \in 1 .. LimitOf(k) |-> <<now, i>>]
<1>4. \E i \in 1 .. LimitOf(k) : f[i] \notin Current(k)
  <2>1. DOMAIN f = 1 .. LimitOf(k) /\ f = [i \in 1 .. LimitOf(k) |-> f[i]]
    OBVIOUS
  <2>2. \A i, j \in 1 .. LimitOf(k) : f[i] = f[j] => i = j
    OBVIOUS
  <2> HIDE DEF f
  <2> QED  BY <1>2, <1>3, <2>1, <2>2, SomethingNew
<1>5. \E a \in {now} \X (1 .. LimitOf(k)) : a \notin Current(k)
  BY <1>4
<1>6. Entry(k) \in {now} \X (1 .. LimitOf(k)) /\ Entry(k) \notin Current(k)
  BY <1>5 DEF Entry
<1>7. Entry(k) \in Admissions(k) /\ Entry(k)[1] = now
  BY <1>6 DEF Admissions, LimiterInv
<1>8. Cardinality(Current(k) \cup {Entry(k)}) = Cardinality(Current(k)) + 1
  BY <1>2, <1>6, FS_AddElement
<1> QED  BY <1>1, <1>2, <1>3, <1>6, <1>7, <1>8

\* The answer stays true while the windows of its keys hold what they held.
LEMMA RefusalStays ==
  ASSUME LimiterInv, refusal' = refusal, now' \in Int, now' >= now,
         \A k \in refusal.keys, t \in Int : t >= now' =>
           RecentAt(windows'[k], WindowOf(k), t) = RecentAt(windows[k], WindowOf(k), t)
  PROVE  RefusalOK'
<1>1. \A t \in Int : t >= now' => t >= now
  BY DEF LimiterInv
<1>2. \A k \in refusal.keys, t \in Int : t >= now' => HeldAt(k, t)' = HeldAt(k, t)
  BY DEF HeldAt
<1> QED  BY <1>1, <1>2 DEF RefusalOK, LimiterInv

\* A bucket that is charged, for an admission that is answered or one whose reply is lost.
LEMMA ChargedBucket ==
  ASSUME LimiterInv, NEW k \in LimiterKeys, ~Full(k), ~failed, UNCHANGED <<mode, now, failed>>,
         windows'[k] = Current(k) \cup {Entry(k)},
         \/ charged'[k] = charged[k] \cup {Entry(k)}
         \/ charged'[k] = charged[k] /\ mode = "redis"
  PROVE  BucketOK(k)'
<1>1. BucketOK(k) /\ now \in Nat /\ WindowOf(k) \in Nat \ {0}
  BY LimitsAreNumbers, SessionLimiterAssumption DEF LimiterInv
<1>2. /\ Entry(k) \in Admissions(k) /\ Entry(k)[1] = now
      /\ windows'[k] \subseteq Admissions(k) /\ Cardinality(windows'[k]) <= LimitOf(k)
  BY EntryIsNew
<1>3. \A a \in windows'[k] : a[1] <= now
  BY <1>1, <1>2 DEF BucketOK, Current, RecentAt
<1>4. charged[k] \subseteq Current(k)
  BY <1>1 DEF BucketOK, Current, RecentAt
<1>5. charged'[k] \subseteq windows'[k]
  BY <1>4
<1>6. Cardinality(charged'[k]) <= LimitOf(k)
  <2>1. IsFiniteSet(windows'[k]) /\ Cardinality(windows'[k]) \in Nat
    BY <1>2, BucketsAreFinite
  <2>2. Cardinality(charged'[k]) <= Cardinality(windows'[k])
    BY <1>5, <2>1, FS_Subset
  <2>3. Cardinality(charged'[k]) \in Nat /\ LimitOf(k) \in Nat
    BY <1>2, <1>5, BucketsAreFinite, LimitsAreNumbers
  <2> QED  BY <1>2, <2>1, <2>2, <2>3
<1>7. \A a \in charged'[k] : a[1] > now - WindowOf(k)
  BY <1>1, <1>2 DEF BucketOK
<1>8. mode = "local" => charged'[k] = Current(k)'
  <2>1. SUFFICES ASSUME mode = "local" PROVE charged'[k] = Current(k) \cup {Entry(k)}
    <3>1. \A a \in Current(k) \cup {Entry(k)} : a[1] > now - WindowOf(k)
      BY <1>1, <1>2 DEF Current, RecentAt
    <3>2. Current(k)' = Current(k) \cup {Entry(k)}
      BY <3>1 DEF Current, RecentAt
    <3> QED  BY <3>2
  <2> QED  BY <1>1, <2>1 DEF BucketOK
<1> QED  BY <1>2, <1>3, <1>5, <1>6, <1>7, <1>8 DEF BucketOK, Admissions, LimitOf

LEMMA SameBucket ==
  ASSUME LimiterInv, NEW k \in LimiterKeys, UNCHANGED <<mode, now, failed>>,
         windows'[k] = windows[k], charged'[k] = charged[k]
  PROVE  BucketOK(k)'
BY DEF LimiterInv, BucketOK, Admissions, LimitOf, WindowOf, Current, RecentAt

\* Every bucket is charged or left alone, and the refusal forgotten when its buckets are charged.
LEMMA ChargesInv ==
  ASSUME LimiterInv, NEW ks \in Charges, ~failed, \A k \in ks : ~Full(k), Charge(ks),
         Grant(ks) \/ (mode = "redis" /\ charged' = charged),
         refusal' = Overtaken(ks), UNCHANGED <<mode, now, failed>>
  PROVE  LimiterInv'
<1>1. ks \subseteq LimiterKeys
  BY ChargesAreKeys
<1>2. \A k \in ks : windows'[k] = Current(k) \cup {Entry(k)}
  BY <1>1 DEF Charge
<1>3. \A k \in LimiterKeys \ ks : windows'[k] = windows[k] /\ charged'[k] = charged[k]
  BY DEF Charge, Grant
<1>4. \A k \in ks : \/ charged'[k] = charged[k] \cup {Entry(k)}
                    \/ charged'[k] = charged[k] /\ mode = "redis"
  BY <1>1 DEF Grant
<1>5. \A k \in LimiterKeys : BucketOK(k)'
  <2> TAKE k \in LimiterKeys
  <2>1. CASE k \in ks
    BY <1>2, <1>4, <2>1, ChargedBucket
  <2>2. CASE k \notin ks
    BY <1>3, <2>2, SameBucket
  <2> QED  BY <2>1, <2>2
<1>6. RefusalOK' /\ refusal'.keys \subseteq LimiterKeys /\ refusal'.at \in Int
  <2>1. CASE ks \cap refusal.keys = {}
    <3>1. refusal' = refusal
      BY <2>1 DEF Overtaken
    <3>2. \A k \in refusal.keys : windows'[k] = windows[k]
      BY <1>3, <2>1 DEF LimiterInv
    <3>3. now' \in Int /\ now' >= now
      BY DEF LimiterInv
    <3> QED  BY <3>1, <3>2, <3>3, RefusalStays DEF LimiterInv
  <2>2. CASE ks \cap refusal.keys # {}
    <3>1. refusal' = [keys |-> {}, at |-> 0]
      BY <2>2 DEF Overtaken, NoRefusal
    <3> QED  BY <3>1 DEF RefusalOK
  <2> QED  BY <2>1, <2>2
<1>7. windows' = [k \in LimiterKeys |-> windows'[k]] /\ charged' = [k \in LimiterKeys |-> charged'[k]]
  BY DEF Charge, Grant, LimiterInv
<1> QED  BY <1>5, <1>6, <1>7 DEF LimiterInv

LEMMA AdmitAttemptInv ==
  ASSUME LimiterInv, NEW ks \in Charges, AdmitAttempt(ks) \/ ReplyLost(ks) PROVE LimiterInv'
BY ChargesInv DEF AdmitAttempt, ReplyLost

\* The answer of a full bucket: the second in which its oldest admission leaves it.
LEMMA RetryIsCeiling ==
  ASSUME LimiterInv, NEW k \in LimiterKeys, Full(k)
  PROVE  \E a \in Current(k) :
           /\ \A b \in Current(k) : a[1] <= b[1]
           /\ Retry(k) \in Nat /\ PerSecond * Retry(k) >= a[1] + WindowOf(k) - now
           /\ PerSecond * Retry(k) - PerSecond < a[1] + WindowOf(k) - now
<1>1. /\ Current(k) \subseteq Admissions(k) /\ now \in Nat /\ WindowOf(k) \in Nat \ {0}
      /\ \A a \in Current(k) : a[1] > now - WindowOf(k)
  BY LimitsAreNumbers, SessionLimiterAssumption DEF LimiterInv, BucketOK, Current, RecentAt
<1>2. Current(k) # {}
  <2>1. Cardinality({}) = 0
    BY FS_EmptySet
  <2>2. LimitOf(k) \in Nat \ {0}
    BY LimitsAreNumbers
  <2> QED  BY <2>1, <2>2 DEF Full
<1> DEFINE times == {a[1] : a \in Current(k)}
<1>3. times \subseteq Nat /\ times # {}
  BY <1>1, <1>2 DEF Admissions
<1>4. Min(times) \in times /\ \A t \in times : Min(times) <= t
  BY <1>3, MinIsLeast
<1>5. PICK a \in Current(k) : a[1] = Min(times)
  BY <1>4
<1>6. \A b \in Current(k) : a[1] <= b[1]
  BY <1>4, <1>5
<1>7. PICK n \in Nat : n = a[1] + WindowOf(k) - now
  BY <1>1, <1>3
<1>8. n >= 1
  <2>1. a[1] \in Nat /\ a[1] > now - WindowOf(k)
    BY <1>1 DEF Admissions
  <2> HIDE DEF times
  <2> QED  BY <1>1, <1>7, <2>1
<1>9. PICK q : q = (n + PerSecond - 1) \div PerSecond
  OBVIOUS
<1>10. PerSecond \in Nat \ {0}
  BY SessionLimiterAssumption
<1>11. q \in Nat /\ PerSecond * q >= n /\ PerSecond * q - PerSecond < n
  BY <1>9, <1>10, CeilingOfTicks
<1>12. q # 0
  BY <1>8, <1>10, <1>11
<1>13. Retry(k) = q
  <2>1. Retry(k) = AtLeastOne(CeilSeconds(n))
    BY <1>5, <1>7 DEF Retry
  <2>2. CeilSeconds(n) = q
    BY <1>9 DEF CeilSeconds
  <2> QED  BY <1>11, <1>12, <2>1, <2>2 DEF AtLeastOne
<1> QED  BY <1>6, <1>7, <1>11, <1>13

\* While the oldest is in the window, all are; when it has left, there is room.
LEMMA WhileOldestStays ==
  ASSUME LimiterInv, NEW k \in LimiterKeys, NEW a \in Current(k), \A b \in Current(k) : a[1] <= b[1],
         NEW t \in Int, t >= now
  PROVE  /\ a[1] > t - WindowOf(k) => RecentAt(windows[k], WindowOf(k), t) = Current(k)
         /\ a[1] <= t - WindowOf(k) => HeldAt(k, t) < LimitOf(k)
<1>1. /\ windows[k] \subseteq Admissions(k) /\ now \in Nat /\ WindowOf(k) \in Nat
      /\ Cardinality(windows[k]) <= LimitOf(k) /\ LimitOf(k) \in Nat
  BY LimitsAreNumbers, SessionLimiterAssumption DEF LimiterInv, BucketOK
<1>2. \A b \in windows[k] : b[1] \in Nat
  BY <1>1 DEF Admissions
<1>3. RecentAt(windows[k], WindowOf(k), t) \subseteq Current(k)
  BY <1>1, <1>2 DEF Current, RecentAt
<1>4. CASE a[1] > t - WindowOf(k)
  <2>1. \A b \in Current(k) : b \in windows[k] /\ b[1] > t - WindowOf(k)
    BY <1>1, <1>2, <1>4 DEF Current, RecentAt
  <2>2. Current(k) \subseteq RecentAt(windows[k], WindowOf(k), t)
    BY <2>1 DEF RecentAt
  <2>3. ~ (a[1] <= t - WindowOf(k))
    BY <1>1, <1>2, <1>4 DEF Current, RecentAt
  <2> QED  BY <1>3, <2>2, <2>3
<1>5. CASE a[1] <= t - WindowOf(k)
  <2>1. ~ (a[1] > t - WindowOf(k))
    BY <1>1, <1>2, <1>5 DEF Current, RecentAt
  <2>2. RecentAt(windows[k], WindowOf(k), t) \subseteq windows[k] \ {a}
    BY <2>1 DEF RecentAt
  <2>3. IsFiniteSet(windows[k]) /\ Cardinality(windows[k]) \in Nat
    BY <1>1, BucketsAreFinite
  <2>4. a \in windows[k]
    BY DEF Current, RecentAt
  <2>5. IsFiniteSet(windows[k] \ {a}) /\ Cardinality(windows[k] \ {a}) = Cardinality(windows[k]) - 1
    BY <2>3, <2>4, FS_RemoveElement
  <2>6. HeldAt(k, t) <= Cardinality(windows[k]) - 1
    BY <2>2, <2>5, FS_Subset DEF HeldAt
  <2>7. HeldAt(k, t) \in Nat
    BY <1>1, <1>3, BucketsAreFinite DEF HeldAt, Current, RecentAt
  <2> QED  BY <1>1, <2>1, <2>3, <2>6, <2>7
<1> QED  BY <1>4, <1>5, <1>1, <1>2 DEF Current, RecentAt

\* A bucket that has room keeps it while nobody is admitted to it.
LEMMA RoomStays ==
  ASSUME LimiterInv, NEW k \in LimiterKeys, ~Full(k), NEW t \in Int, t >= now
  PROVE  HeldAt(k, t) < LimitOf(k)
<1>1. windows[k] \subseteq Admissions(k) /\ now \in Nat /\ WindowOf(k) \in Nat /\ LimitOf(k) \in Nat
  BY LimitsAreNumbers, SessionLimiterAssumption DEF LimiterInv, BucketOK
<1>2. \A b \in windows[k] : b[1] \in Nat
  BY <1>1 DEF Admissions
<1>3. RecentAt(windows[k], WindowOf(k), t) \subseteq Current(k) /\ Current(k) \subseteq Admissions(k)
  BY <1>1, <1>2 DEF Current, RecentAt
<1>4. IsFiniteSet(Current(k)) /\ Cardinality(Current(k)) \in Nat
  BY <1>3, BucketsAreFinite
<1>5. HeldAt(k, t) <= Cardinality(Current(k)) /\ HeldAt(k, t) \in Nat
  <2>1. HeldAt(k, t) <= Cardinality(Current(k))
    BY <1>3, <1>4, FS_Subset DEF HeldAt
  <2>2. RecentAt(windows[k], WindowOf(k), t) \subseteq Admissions(k)
    BY <1>3
  <2>3. HeldAt(k, t) \in Nat
    BY <2>2, BucketsAreFinite DEF HeldAt
  <2> QED  BY <2>1, <2>3
<1> QED  BY <1>1, <1>4, <1>5 DEF Full

\* The largest of the retries of the full buckets of an attempt.
LEMMA LongestRetry ==
  ASSUME LimiterInv, NEW ks \in Charges, \E k \in ks : Full(k)
  PROVE  LET retries == {Retry(k) : k \in {x \in ks : Full(x)}} IN
         /\ Max(retries) \in Nat
         /\ \E k \in ks : Full(k) /\ Retry(k) = Max(retries)
         /\ \A k \in ks : Full(k) => Retry(k) <= Max(retries)
<1> DEFINE retries == {Retry(k) : k \in {x \in ks : Full(x)}}
<1>1. ks \subseteq LimiterKeys
  BY ChargesAreKeys
<1>2. retries \subseteq Nat
  <2>1. \A k \in ks : Full(k) => Retry(k) \in Nat
    BY <1>1, RetryIsCeiling
  <2> QED  BY <2>1
<1>3. \E x, y : ks \subseteq {x, y}
  BY DEF Charges
<1>4. PICK x, y : ks \subseteq {x, y}
  BY <1>3
<1>5. retries \subseteq {Retry(x), Retry(y)}
  BY <1>4
<1>6. retries # {}
  OBVIOUS
<1>7. Max(retries) \in retries /\ \A m \in retries : m <= Max(retries)
  BY <1>2, <1>5, <1>6, MaxIsLargest
<1> QED  BY <1>2, <1>7

LEMMA RefuseAttemptInv ==
  ASSUME LimiterInv, NEW ks \in Charges, RefuseAttempt(ks) PROVE LimiterInv'
<1>1. /\ ks \subseteq LimiterKeys /\ ~failed /\ UNCHANGED <<mode, now, failed, charged>>
      /\ now \in Nat /\ PerSecond \in Nat \ {0}
  BY ChargesAreKeys, SessionLimiterAssumption DEF RefuseAttempt, LimiterInv
<1>2. \A k \in LimiterKeys : windows'[k] = windows[k] \/ (mode = "redis" /\ windows'[k] = Current(k))
  BY DEF RefuseAttempt
<1>3. \A k \in LimiterKeys, t \in Int : t >= now =>
        RecentAt(windows'[k], WindowOf(k), t) = RecentAt(windows[k], WindowOf(k), t)
  <2> SUFFICES ASSUME NEW k \in LimiterKeys, NEW t \in Int, t >= now, windows'[k] = Current(k)
               PROVE  RecentAt(windows'[k], WindowOf(k), t) = RecentAt(windows[k], WindowOf(k), t)
    BY <1>2
  <2>1. WindowOf(k) \in Nat /\ \A a \in windows[k] : a[1] \in Nat
    BY LimitsAreNumbers DEF LimiterInv, BucketOK, Admissions
  <2>2. \A a \in windows[k] : a[1] > t - WindowOf(k) => a[1] > now - WindowOf(k)
    BY <1>1, <2>1
  <2> QED  BY <2>2 DEF Current, RecentAt
<1>4. \A k \in LimiterKeys : BucketOK(k)'
  <2> SUFFICES ASSUME NEW k \in LimiterKeys, mode = "redis", windows'[k] = Current(k)
               PROVE  BucketOK(k)'
    BY <1>1, <1>2, SameBucket
  <2>1. BucketOK(k) /\ windows'[k] \subseteq windows[k] /\ charged'[k] = charged[k]
    BY <1>1 DEF LimiterInv, Current, RecentAt
  <2>2. charged[k] \subseteq windows'[k]
    BY <1>1, <2>1 DEF BucketOK, Current, RecentAt
  <2>3. Cardinality(windows'[k]) <= LimitOf(k)
    <3>1. IsFiniteSet(windows[k]) /\ Cardinality(windows[k]) \in Nat
      BY <2>1, BucketsAreFinite DEF BucketOK
    <3>2. Cardinality(windows'[k]) <= Cardinality(windows[k])
      BY <2>1, <3>1, FS_Subset
    <3>3. Cardinality(windows'[k]) \in Nat /\ LimitOf(k) \in Nat
      BY <2>1, BucketsAreFinite, LimitsAreNumbers DEF BucketOK
    <3> QED  BY <2>1, <3>1, <3>2, <3>3 DEF BucketOK
  <2>4. mode' = "redis"
    BY <1>1
  <2> QED  BY <1>1, <2>1, <2>2, <2>3, <2>4 DEF BucketOK, Admissions, LimitOf, WindowOf
<1> DEFINE retries == {Retry(k) : k \in {x \in ks : Full(x)}}
<1>5. PICK longest \in Nat : longest = Max(retries)
  BY LongestRetry DEF RefuseAttempt
<1>6. PICK promised \in Int : promised = now + PerSecond * longest
  BY <1>1
<1>7. refusal' = [keys |-> ks, at |-> promised]
  BY <1>5, <1>6 DEF RefuseAttempt
<1>8. \A k \in ks, t \in Int : t >= now /\ t >= promised => HeldAt(k, t) < LimitOf(k)
  <2> SUFFICES ASSUME NEW k \in ks, NEW t \in Int, t >= now, t >= promised, Full(k)
               PROVE  HeldAt(k, t) < LimitOf(k)
    BY <1>1, RoomStays
  <2>1. PICK a \in Current(k) :
          /\ \A b \in Current(k) : a[1] <= b[1]
          /\ Retry(k) \in Nat /\ PerSecond * Retry(k) >= a[1] + WindowOf(k) - now
    BY <1>1, RetryIsCeiling
  <2>2. Retry(k) <= longest
    BY <1>5, LongestRetry DEF RefuseAttempt
  <2>3. PerSecond * Retry(k) <= PerSecond * longest
    BY <1>1, <2>1, <2>2
  <2>4. a[1] \in Nat /\ WindowOf(k) \in Nat
    BY <1>1, LimitsAreNumbers DEF LimiterInv, BucketOK, Current, RecentAt, Admissions
  <2>5. a[1] <= t - WindowOf(k)
    BY <1>1, <1>6, <2>1, <2>3, <2>4
  <2> QED  BY <1>1, <2>1, <2>5, WhileOldestStays
<1>9. \E k \in ks : \A t \in Int : t >= now /\ t <= promised - PerSecond => HeldAt(k, t) >= LimitOf(k)
  <2>1. PICK k \in ks : Full(k) /\ Retry(k) = longest
    BY <1>5, LongestRetry DEF RefuseAttempt
  <2>2. PICK a \in Current(k) :
          /\ \A b \in Current(k) : a[1] <= b[1]
          /\ PerSecond * longest - PerSecond < a[1] + WindowOf(k) - now
    BY <1>1, <2>1, RetryIsCeiling
  <2>3. a[1] \in Nat /\ WindowOf(k) \in Nat
    BY <1>1, LimitsAreNumbers DEF LimiterInv, BucketOK, Current, RecentAt, Admissions
  <2>4. ASSUME NEW t \in Int, t >= now, t <= promised - PerSecond PROVE HeldAt(k, t) >= LimitOf(k)
    <3>1. a[1] > t - WindowOf(k)
      BY <1>1, <1>6, <2>2, <2>3, <2>4
    <3>2. RecentAt(windows[k], WindowOf(k), t) = Current(k)
      BY <1>1, <2>2, <2>4, <3>1, WhileOldestStays
    <3> QED  BY <2>1, <3>2 DEF HeldAt, Full
  <2> QED  BY <2>4
<1>10. \A k \in LimiterKeys, t \in Int : t >= now => HeldAt(k, t)' = HeldAt(k, t)
  BY <1>3 DEF HeldAt, WindowOf
<1>11. RefusalOK'
  <2>1. refusal'.keys = ks /\ refusal'.at = promised /\ now' = now
    BY <1>1, <1>7
  <2> HIDE DEF retries
  <2> QED  BY <1>1, <1>8, <1>9, <1>10, <2>1 DEF RefusalOK, LimitOf
<1>12. windows' = [k \in LimiterKeys |-> windows'[k]] /\ charged' = [k \in LimiterKeys |-> charged'[k]]
  BY <1>1 DEF RefuseAttempt, LimiterInv
<1> QED  BY <1>1, <1>4, <1>7, <1>11, <1>12 DEF LimiterInv

\* What expires is outside the window, and stays there.
LEMMA KeyExpiresInv == ASSUME LimiterInv, NEW k \in LimiterKeys, KeyExpires(k) PROVE LimiterInv'
<1>1. /\ ~ (\E a \in windows[k] : a[1] + 2 * WindowOf(k) > now) /\ mode = "redis"
      /\ windows' = [windows EXCEPT ![k] = {}] /\ UNCHANGED <<mode, now, failed, charged, refusal>>
  <2>1. /\ \A a \in windows[k] : a[1] + 2 * WindowOf(k) <= now /\ a[1] \in Nat
        /\ now \in Nat /\ WindowOf(k) \in Nat
    BY LimitsAreNumbers, SessionLimiterAssumption DEF KeyExpires, LimiterInv, BucketOK, Admissions
  <2> QED  BY <2>1 DEF KeyExpires
<1>2. windows'[k] = {} /\ \A x \in LimiterKeys \ {k} : windows'[x] = windows[x]
  BY <1>1 DEF LimiterInv
<1>3. \A t \in Int : t >= now => RecentAt(windows[k], WindowOf(k), t) = {}
  <2> SUFFICES ASSUME NEW t \in Int, t >= now, NEW a \in windows[k] PROVE ~ (a[1] > t - WindowOf(k))
    BY DEF RecentAt
  <2>1. a[1] \in Nat /\ now \in Nat /\ WindowOf(k) \in Nat /\ ~ (a[1] + 2 * WindowOf(k) > now)
    BY <1>1, LimitsAreNumbers, SessionLimiterAssumption DEF LimiterInv, BucketOK, Admissions
  <2> QED  BY <2>1
<1>4. \A x \in LimiterKeys, t \in Int : t >= now =>
        RecentAt(windows'[x], WindowOf(x), t) = RecentAt(windows[x], WindowOf(x), t)
  BY <1>2, <1>3 DEF RecentAt
<1>5. BucketOK(k)'
  <2>1. now \in Int /\ now >= now
    BY DEF LimiterInv
  <2>2. charged[k] = RecentAt(charged[k], WindowOf(k), now)
    BY DEF LimiterInv, BucketOK, RecentAt
  <2>3. ~failed => charged[k] = {}
    BY <1>3, <2>1, <2>2 DEF LimiterInv, BucketOK, RecentAt
  <2>4. Cardinality({}) = 0 /\ LimitOf(k) \in Nat
    BY FS_EmptySet, LimitsAreNumbers
  <2> QED  BY <1>1, <1>2, <2>3, <2>4 DEF LimiterInv, BucketOK, Admissions, LimitOf, WindowOf, Current,
              RecentAt
<1>6. \A x \in LimiterKeys : BucketOK(x)'
  BY <1>1, <1>2, <1>5, SameBucket
<1>7. RefusalOK'
  <2>1. refusal.keys \subseteq LimiterKeys /\ now' \in Int /\ now' >= now /\ now' = now
    BY <1>1 DEF LimiterInv
  <2> QED  BY <1>1, <1>4, <2>1, RefusalStays
<1>8. windows' = [x \in LimiterKeys |-> windows'[x]]
  BY <1>1 DEF LimiterInv
<1> QED  BY <1>1, <1>6, <1>7, <1>8 DEF LimiterInv

LEMMA LimiterClosesInv == ASSUME LimiterInv, LimiterCloses PROVE LimiterInv'
<1>1. /\ failed' = TRUE /\ UNCHANGED <<mode, now, charged>> /\ refusal' = [keys |-> {}, at |-> 0]
      /\ \A k \in LimiterKeys : windows'[k] = {} \/ windows'[k] = windows[k]
  BY DEF LimiterCloses, NoRefusal
<1>2. \A k \in LimiterKeys : BucketOK(k)'
  <2> TAKE k \in LimiterKeys
  <2>1. Cardinality({}) = 0 /\ LimitOf(k) \in Nat /\ BucketOK(k)
    BY FS_EmptySet, LimitsAreNumbers DEF LimiterInv
  <2>2. /\ windows'[k] \subseteq Admissions(k) /\ \A a \in windows'[k] : a[1] <= now'
        /\ Cardinality(windows'[k]) <= LimitOf(k)
    <3>1. CASE windows'[k] = {}
      BY <2>1, <3>1
    <3>2. CASE windows'[k] = windows[k]
      BY <1>1, <2>1, <3>2 DEF BucketOK
    <3> QED  BY <1>1, <3>1, <3>2
  <2>3. /\ charged'[k] \subseteq Admissions(k) /\ \A a \in charged'[k] : a[1] > now' - WindowOf(k)
        /\ Cardinality(charged'[k]) <= LimitOf(k)
    BY <1>1, <2>1 DEF BucketOK
  <2>4. failed' = TRUE
    BY <1>1
  <2> QED  BY <2>2, <2>3, <2>4 DEF BucketOK, Admissions, LimitOf, WindowOf
<1>3. windows' = [k \in LimiterKeys |-> windows'[k]]
  BY DEF LimiterCloses, LimiterInv
<1>4. RefusalOK'
  BY <1>1 DEF RefusalOK
<1> QED  BY <1>1, <1>2, <1>3, <1>4 DEF LimiterInv

LEMMA LimiterTickInv == ASSUME LimiterInv, LimiterTick PROVE LimiterInv'
<1>1. /\ now' = now + 1 /\ now \in Nat /\ now' \in 1 .. MaxNow
      /\ UNCHANGED <<mode, windows, failed, refusal>>
      /\ \A k \in LimiterKeys : charged'[k] = RecentAt(charged[k], WindowOf(k), now + 1)
  BY SessionLimiterAssumption DEF LimiterTick, LimiterInv
<1>2. \A k \in LimiterKeys : BucketOK(k)'
  <2> TAKE k \in LimiterKeys
  <2>1. /\ BucketOK(k) /\ WindowOf(k) \in Nat /\ LimitOf(k) \in Nat
        /\ \A a \in windows[k] : a[1] \in Nat
    BY LimitsAreNumbers DEF LimiterInv, BucketOK, Admissions
  <2>2. charged'[k] \subseteq charged[k] /\ charged[k] \subseteq Admissions(k)
    BY <1>1, <2>1 DEF RecentAt, BucketOK
  <2>3. Cardinality(charged'[k]) <= LimitOf(k)
    <3>1. IsFiniteSet(charged[k]) /\ Cardinality(charged[k]) \in Nat /\ Cardinality(charged'[k]) \in Nat
      BY <2>2, BucketsAreFinite
    <3>2. Cardinality(charged'[k]) <= Cardinality(charged[k])
      BY <2>2, <3>1, FS_Subset
    <3> QED  BY <2>1, <3>1, <3>2 DEF BucketOK
  <2>4. \A a \in charged'[k] : a[1] > now' - WindowOf(k)
    BY <1>1 DEF RecentAt
  <2>5. \A a \in windows[k] : a[1] <= now'
    BY <1>1, <2>1 DEF BucketOK
  <2>6. ~failed /\ mode = "local" => charged'[k] = Current(k)'
    <3>1. \A a \in windows[k] : a[1] > now + 1 - WindowOf(k) => a[1] > now - WindowOf(k)
      BY <1>1, <2>1
    <3>2. RecentAt(Current(k), WindowOf(k), now + 1) = RecentAt(windows[k], WindowOf(k), now + 1)
      <4>1. \A a \in windows[k] : a[1] > now + 1 - WindowOf(k) => a \in Current(k)
        BY <3>1 DEF Current, RecentAt
      <4>2. Current(k) \subseteq windows[k]
        BY DEF Current, RecentAt
      <4>3. RecentAt(windows[k], WindowOf(k), now + 1) \subseteq Current(k)
        BY <1>1, <2>1, <4>1 DEF RecentAt
      <4>4. \A S, w, t : RecentAt(S, w, t) = {a \in S : a[1] > t - w}
        BY DEF RecentAt
      <4> QED  BY <4>2, <4>3, <4>4
    <3>3. Current(k)' = RecentAt(windows[k], WindowOf(k), now + 1)
      BY <1>1 DEF Current
    <3> QED  BY <1>1, <2>1, <3>2, <3>3 DEF BucketOK
  <2> QED  BY <1>1, <2>1, <2>2, <2>3, <2>4, <2>5, <2>6 DEF BucketOK, Admissions, LimitOf, WindowOf
<1>3. RefusalOK'
  <2>1. now' \in Int /\ now' >= now
    BY <1>1
  <2> QED  BY <1>1, <2>1, RefusalStays
<1>4. charged' = [k \in LimiterKeys |-> charged'[k]]
  BY DEF LimiterTick
<1> QED  BY <1>1, <1>2, <1>3, <1>4 DEF LimiterInv

LEMMA LimiterInitInv == LimiterInit => LimiterInv
<1> SUFFICES ASSUME LimiterInit PROVE LimiterInv
  OBVIOUS
<1>1. now = 1 /\ MaxNow \in Nat \ {0}
  BY SessionLimiterAssumption DEF LimiterInit
<1>2. \A k \in LimiterKeys : BucketOK(k)
  <2> TAKE k \in LimiterKeys
  <2>1. windows[k] = {} /\ charged[k] = {} /\ Current(k) = {}
    BY DEF LimiterInit, Current, RecentAt
  <2>2. Cardinality({}) = 0 /\ LimitOf(k) \in Nat
    BY FS_EmptySet, LimitsAreNumbers
  <2> QED  BY <2>1, <2>2 DEF BucketOK
<1>3. refusal = [keys |-> {}, at |-> 0]
  BY DEF LimiterInit, NoRefusal
<1>4. RefusalOK /\ refusal.keys \subseteq LimiterKeys /\ refusal.at \in Int
  BY <1>3 DEF RefusalOK
<1>5. windows = [k \in LimiterKeys |-> windows[k]] /\ charged = [k \in LimiterKeys |-> charged[k]]
  BY DEF LimiterInit
<1>6. mode \in {"local", "redis"} /\ failed = FALSE
  BY DEF LimiterInit
<1>7. now \in 1 .. MaxNow
  BY <1>1
<1>8. failed \in BOOLEAN
  BY <1>6, Zenon
<1> QED  BY <1>2, <1>4, <1>5, <1>6, <1>7, <1>8 DEF LimiterInv

LEMMA LimiterNextInv == LimiterInv /\ [LimiterNext]_limiterVars => LimiterInv'
<1> SUFFICES ASSUME LimiterInv, [LimiterNext]_limiterVars PROVE LimiterInv'
  OBVIOUS
<1>1. CASE UNCHANGED limiterVars
  <2>1. UNCHANGED <<mode, now, windows, failed, charged, refusal>>
    BY <1>1 DEF limiterVars
  <2>2. \A k \in LimiterKeys : BucketOK(k)'
    BY <2>1 DEF LimiterInv, BucketOK, Current, Admissions, LimitOf, WindowOf
  <2>3. RefusalOK'
    BY <2>1 DEF LimiterInv, RefusalOK, HeldAt, LimitOf, WindowOf
  <2> QED  BY <2>1, <2>2, <2>3 DEF LimiterInv
<1> QED  BY <1>1, AdmitAttemptInv, RefuseAttemptInv, KeyExpiresInv, LimiterClosesInv, LimiterTickInv
         DEF LimiterNext

\* No rolling window takes more logins or refreshes than its limit, whoever is refused is told when
\* he will be admitted, to the second, and a refusal costs nothing, for any limits, windows,
\* accounts and addresses, whatever replies are lost and keys expire.
THEOREM LoginLimitsHold == LimiterSpec => []LimitsHold
<1>1. LimiterInv => LimitsHold
  <2> SUFFICES ASSUME LimiterInv PROVE LimitsHold
    OBVIOUS
  <2>1. LimiterTypeOK
    BY DEF LimiterInv, BucketOK, LimiterTypeOK
  <2>2. WithinLimits
    BY DEF LimiterInv, BucketOK, WithinLimits
  <2>3. RefusalsAreFree
    BY DEF LimiterInv, BucketOK, RefusalsAreFree
  <2>4. RetryIsHonest
    <3>1. now \in Int /\ now >= now
      BY DEF LimiterInv
    <3>2. \A k \in LimiterKeys : HeldAt(k, now) \in Nat /\ LimitOf(k) \in Nat
      <4> TAKE k \in LimiterKeys
      <4>1. RecentAt(windows[k], WindowOf(k), now) \subseteq Admissions(k)
        BY DEF LimiterInv, BucketOK, RecentAt
      <4> QED  BY <4>1, BucketsAreFinite, LimitsAreNumbers DEF HeldAt
    <3>3. \A k \in LimiterKeys : Full(k) <=> HeldAt(k, now) >= LimitOf(k)
      BY DEF Full, HeldAt, Current
    <3>4. ASSUME refusal.keys # {}, now >= refusal.at, NEW k \in refusal.keys PROVE ~Full(k)
      <4>1. HeldAt(k, now) < LimitOf(k) /\ k \in LimiterKeys
        BY <3>1, <3>4 DEF LimiterInv, RefusalOK
      <4> QED  BY <3>2, <3>3, <4>1
    <3>5. ASSUME refusal.keys # {}, now <= refusal.at - PerSecond
          PROVE  \E k \in refusal.keys : Full(k)
      <4>1. \E k \in refusal.keys : HeldAt(k, now) >= LimitOf(k) /\ k \in LimiterKeys
        BY <3>1, <3>5 DEF LimiterInv, RefusalOK
      <4> QED  BY <3>3, <4>1
    <3> QED  BY <3>4, <3>5 DEF RetryIsHonest
  <2> QED  BY <2>1, <2>2, <2>3, <2>4 DEF LimitsHold
<1> QED  BY <1>1, LimiterInitInv, LimiterNextInv, PTL DEF LimiterSpec

-----------------------------------------------------------------------------
(* The preHandlers: the inductive invariant *)

\* A request that has been identified is entitled to what it asks for, or will be refused for its
\* role, which every role's routes and only those do not look at.
RequestOK(c) ==
  request[c] # NoRequest =>
    /\ request[c].pc = "limit" => request[c].route.bucket # NoBucket
    /\ request[c].pc = "limit" /\ (request[c].kind = "api_key" \/ request[c].role \in request[c].route.roles)
         => c \in entitled
    /\ request[c].pc = "handle" => c \in entitled

\* What was admitted is in its bucket, and inside the window.
BudgetOK ==
  /\ buckets \subseteq Admission /\ IsFiniteSet(buckets) /\ admitted \subseteq buckets
  /\ \A a \in admitted : a[2] > clock - Window
  /\ \A key \in BucketKeys : Cardinality(OfKey(admitted, key)) <= ProtectedRouteLimit(key[2])

RequestsInv ==
  /\ RequestsTypeOK /\ Len(tokens) <= MaxTokens
  /\ \A c \in Clients : RequestOK(c)
  /\ BudgetOK

LEMMA RouteLimits ==
  ASSUME NEW bucket
  PROVE  ProtectedRouteLimit(bucket) \in Nat \ {0}
<1>1. ProtectedRouteLimit(bucket) \in {5, 10, 20, 30, 60, 120}
  BY Zenon DEF ProtectedRouteLimit
<1> QED  BY <1>1

\* Any set of numbers up to n has a greatest.
LEMMA GreatestNatural ==
  ASSUME NEW n \in Nat, NEW S, S \subseteq 1 .. n, S # {}
  PROVE  \E i \in S : \A j \in S : j <= i
<1> DEFINE Rest == {n - i : i \in S}
<1>1. Rest \subseteq Nat /\ Rest # {}
  <2>1. \A i \in S : i \in 1 .. n /\ n - i \in Nat
    OBVIOUS
  <2>2. PICK i \in S : TRUE
    OBVIOUS
  <2>3. n - i \in Rest
    OBVIOUS
  <2> QED  BY <2>1, <2>3
<1>2. PICK m \in Rest : \A k \in Rest : m <= k
  BY <1>1, LeastNatural
<1>3. PICK i \in S : m = n - i
  OBVIOUS
<1>4. \A j \in S : n - j \in Rest
  OBVIOUS
<1>5. ASSUME NEW j \in S PROVE j <= i
  <2>1. m <= n - j
    BY <1>2, <1>4
  <2>2. i \in Int /\ j \in Int
    OBVIOUS
  <2> QED  BY <1>3, <2>1, <2>2
<1> QED  BY <1>5

LEMMA CookiesAreTokens ==
  ASSUME RequestsTypeOK, NEW u \in Users, CookieOf(u) # 0
  PROVE  CookieOf(u) \in DOMAIN tokens /\ tokens[CookieOf(u)].user = u
<1> DEFINE own == {i \in DOMAIN tokens : tokens[i].user = u}
<1>1. own # {} /\ CookieOf(u) = CHOOSE i \in own : \A j \in own : j <= i
  BY DEF CookieOf
<1>2. own \subseteq 1 .. Len(tokens) /\ Len(tokens) \in Nat
  BY DEF RequestsTypeOK
<1>3. \E i \in own : \A j \in own : j <= i
  BY <1>1, <1>2, GreatestNatural
<1>4. CookieOf(u) \in own
  BY <1>1, <1>3
<1> QED  BY <1>4

LEMMA RequestsInitInv == RequestsInit => RequestsInv
<1> SUFFICES ASSUME RequestsInit PROVE RequestsInv
  OBVIOUS
<1>1. RequestsTypeOK
  BY RequestsAssumption DEF RequestsInit, RequestsTypeOK
<1>2. Len(tokens) <= MaxTokens
  BY RequestsAssumption DEF RequestsInit
<1>3. \A c \in Clients : RequestOK(c)
  BY DEF RequestsInit, RequestOK
<1>4. BudgetOK
  <2>1. /\ buckets = {} /\ admitted = {} /\ IsFiniteSet({}) /\ Cardinality({}) = 0
        /\ \A key : OfKey(admitted, key) = {}
    BY FS_EmptySet DEF RequestsInit, OfKey
  <2>2. \A key \in BucketKeys : ProtectedRouteLimit(key[2]) \in Nat
    BY RouteLimits
  <2> QED  BY <2>1, <2>2 DEF BudgetOK
<1> QED  BY <1>1, <1>2, <1>3, <1>4 DEF RequestsInv

\* Requests nothing happened to keep what is known of them.
LEMMA RequestStays ==
  ASSUME NEW c \in Clients, RequestOK(c), Observe, request'[c] = request[c]
  PROVE  RequestOK(c)'
BY DEF RequestOK, Observe

LEMMA BudgetStays ==
  ASSUME BudgetOK, UNCHANGED <<clock, buckets, admitted>> PROVE BudgetOK'
BY DEF BudgetOK

\* Time passes: what leaves the window is not counted any more.
LEMMA TickInv == ASSUME RequestsInv, Tick, Observe PROVE RequestsInv'
<1>1. /\ clock' = clock + 1 /\ clock' \in 0 .. MaxClock /\ clock \in Nat
      /\ UNCHANGED <<role, activeUsers, tenantActive, liveKeys, tokens, liveFamilies>>
      /\ UNCHANGED <<buckets, limiter, request, arrivals, changes>>
      /\ admitted' = {a \in admitted : a[2] > clock + 1 - Window}
  BY RequestsAssumption DEF Tick, world, Keep, RequestsInv, RequestsTypeOK
<1>2. entitled' \subseteq Clients
  BY DEF Observe
<1>3. RequestsTypeOK' /\ Len(tokens') <= MaxTokens
  BY <1>1, <1>2 DEF RequestsInv, RequestsTypeOK
<1>4. \A c \in Clients : RequestOK(c)'
  BY <1>1, RequestStays DEF RequestsInv
<1>5. BudgetOK'
  <2>1. admitted' \subseteq admitted
    BY <1>1
  <2>2. ASSUME NEW key \in BucketKeys PROVE Cardinality(OfKey(admitted', key)) <= ProtectedRouteLimit(key[2])
    <3>1. OfKey(admitted', key) \subseteq OfKey(admitted, key) /\ OfKey(admitted, key) \subseteq buckets
      BY <2>1 DEF OfKey, RequestsInv, BudgetOK
    <3>2. IsFiniteSet(OfKey(admitted, key))
      BY <3>1, FS_Subset DEF RequestsInv, BudgetOK
    <3>3. Cardinality(OfKey(admitted', key)) <= Cardinality(OfKey(admitted, key))
      BY <3>1, <3>2, FS_Subset
    <3>4. /\ Cardinality(OfKey(admitted', key)) \in Nat /\ Cardinality(OfKey(admitted, key)) \in Nat
          /\ ProtectedRouteLimit(key[2]) \in Nat
      BY <3>1, <3>2, FS_Subset, FS_CardinalityType, RouteLimits
    <3> QED  BY <3>3, <3>4 DEF RequestsInv, BudgetOK
  <2>3. \A a \in admitted' : a[2] > clock' - Window
    <3>1. clock' - Window = clock + 1 - Window
      BY <1>1, RequestsAssumption
    <3>2. \A a \in admitted' : a[2] > clock + 1 - Window
      BY <1>1
    <3> QED  BY <3>1, <3>2, Zenon
  <2> QED  BY <1>1, <2>1, <2>2, <2>3 DEF RequestsInv, BudgetOK, OfKey
<1> QED  BY <1>3, <1>4, <1>5 DEF RequestsInv

\* A step of the world that leaves the requests and the limiter alone.
LEMMA WorldInv ==
  ASSUME RequestsInv, Observe, RequestsTypeOK', Len(tokens') <= MaxTokens,
         UNCHANGED <<clock, request, buckets, admitted>>
  PROVE  RequestsInv'
BY RequestStays, BudgetStays DEF RequestsInv

LEMMA IssueInv == ASSUME RequestsInv, NEW u \in Users, Issue(u), Observe PROVE RequestsInv'
<1>1. PICK f \in {i \in liveFamilies : tokens[i].user = u} \cup {Len(tokens) + 1} :
        /\ tokens' = Append(tokens, [user |-> u, role |-> role[u], family |-> f, issuedAt |-> clock])
        /\ liveFamilies' = liveFamilies \cup {f}
  BY DEF Issue
<1>2. /\ tokens \in Seq(Token) /\ Len(tokens) \in Nat /\ Len(tokens) + 1 \in 1 .. MaxTokens
      /\ liveFamilies \subseteq 1 .. Len(tokens) /\ MaxTokens \in Nat
  BY RequestsAssumption DEF RequestsInv, RequestsTypeOK, Issue
<1>3. f \in 1 .. Len(tokens) + 1 /\ f \in 1 .. MaxTokens
  BY <1>1, <1>2
<1>4. [user |-> u, role |-> role[u], family |-> f, issuedAt |-> clock] \in Token
  BY <1>3 DEF Token, RequestsInv, RequestsTypeOK
<1>5. tokens' \in Seq(Token) /\ DOMAIN tokens' = 1 .. Len(tokens) + 1 /\ Len(tokens') = Len(tokens) + 1
  BY <1>1, <1>2, <1>4
<1>6. liveFamilies' \subseteq DOMAIN tokens' /\ Len(tokens') <= MaxTokens
  BY <1>1, <1>2, <1>3, <1>5
<1>7. entitled' \subseteq Clients
  BY DEF Observe
<1>8. RequestsTypeOK' /\ UNCHANGED <<clock, request, buckets, admitted>>
  BY <1>5, <1>6, <1>7 DEF RequestsInv, RequestsTypeOK, Issue
<1> QED  BY <1>6, <1>8, WorldInv

LEMMA AdministerInv == ASSUME RequestsInv, Administer, Observe PROVE RequestsInv'
<1>1. entitled' \subseteq Clients /\ tokens' = tokens
  BY DEF Observe, Administer
<1>2. changes' \in 0 .. MaxChanges
  BY RequestsAssumption DEF RequestsInv, RequestsTypeOK, Administer
<1>3. /\ role' \in [Users -> RoleNames] /\ activeUsers' \subseteq Users /\ tenantActive' \in BOOLEAN
      /\ liveKeys' \subseteq Keys /\ liveFamilies' \subseteq DOMAIN tokens
  <2>0. /\ role \in [Users -> RoleNames] /\ activeUsers \subseteq Users /\ tenantActive \in BOOLEAN
        /\ liveKeys \subseteq Keys /\ liveFamilies \subseteq DOMAIN tokens
    BY DEF RequestsInv, RequestsTypeOK
  <2>1. CASE /\ \E u \in Users, r \in RoleNames : role' = [role EXCEPT ![u] = r]
             /\ UNCHANGED <<activeUsers, tenantActive, liveKeys, liveFamilies>>
    BY <2>0, <2>1
  <2>2. CASE /\ \E u \in activeUsers : activeUsers' = activeUsers \ {u}
             /\ UNCHANGED <<role, tenantActive, liveKeys, liveFamilies>>
    BY <2>0, <2>2
  <2>3. CASE tenantActive' = FALSE /\ UNCHANGED <<role, activeUsers, liveKeys, liveFamilies>>
    BY <2>0, <2>3
  <2>4. CASE /\ \E k \in liveKeys : liveKeys' = liveKeys \ {k}
             /\ UNCHANGED <<role, activeUsers, tenantActive, liveFamilies>>
    BY <2>0, <2>4
  <2>5. CASE /\ \E f \in liveFamilies : liveFamilies' = liveFamilies \ {f}
             /\ UNCHANGED <<role, activeUsers, tenantActive, liveKeys>>
    BY <2>0, <2>5
  <2> QED  BY <2>1, <2>2, <2>3, <2>4, <2>5 DEF Administer
<1>4. UNCHANGED <<clock, buckets, limiter, request, arrivals, admitted>>
  BY DEF Administer
<1>5. RequestsTypeOK' /\ Len(tokens') <= MaxTokens
  BY <1>1, <1>2, <1>3, <1>4 DEF RequestsInv, RequestsTypeOK
<1> QED  BY <1>4, <1>5, WorldInv

LEMMA LimiterFailsInv == ASSUME RequestsInv, LimiterFails, Observe PROVE RequestsInv'
<1>1. entitled' \subseteq Clients
  BY DEF Observe
<1>2. RequestsTypeOK' /\ Len(tokens') <= MaxTokens /\ UNCHANGED <<clock, request, buckets, admitted>>
  BY <1>1 DEF RequestsInv, RequestsTypeOK, LimiterFails, world
<1> QED  BY <1>2, WorldInv

-----------------------------------------------------------------------------
(* The steps of a request *)

\* A request moves, the limiter does not.
LEMMA RequestMoves ==
  ASSUME RequestsInv, Observe, NEW c \in Clients, NEW r \in Request \cup {NoRequest},
         request' = [request EXCEPT ![c] = r], arrivals' \in 0 .. MaxArrivals, RequestOK(c)',
         UNCHANGED <<clock, role, activeUsers, tenantActive, liveKeys, tokens, liveFamilies, buckets,
                     limiter, changes, admitted>>
  PROVE  RequestsInv'
<1>1. entitled' \subseteq Clients
  BY DEF Observe
<1>2. request' \in [Clients -> Request \cup {NoRequest}]
  BY DEF RequestsInv, RequestsTypeOK
<1>3. RequestsTypeOK' /\ Len(tokens') <= MaxTokens
  BY <1>1, <1>2 DEF RequestsInv, RequestsTypeOK
<1>4. ASSUME NEW x \in Clients, x # c PROVE RequestOK(x)'
  <2>1. request'[x] = request[x]
    BY <1>4 DEF RequestsInv, RequestsTypeOK
  <2> QED  BY <2>1, RequestStays DEF RequestsInv
<1>5. BudgetOK'
  BY BudgetStays DEF RequestsInv
<1> QED  BY <1>3, <1>4, <1>5 DEF RequestsInv

\* A credential makes a request of the type.
LEMMA ArrivesInv ==
  ASSUME RequestsInv, Observe, NEW c \in Clients, NEW route \in Registered, NEW target \in Targets,
         NEW kind \in {"api_key", "jwt", "access_cookie"}, NEW i \in DOMAIN tokens \cup {0},
         NEW actor \in Actors, Arrives(c, kind, route, target, i, actor),
         arrivals' \in 0 .. MaxArrivals,
         UNCHANGED <<clock, role, activeUsers, tenantActive, liveKeys, tokens, liveFamilies, buckets,
                     limiter, changes, admitted>>
  PROVE  RequestsInv'
<1> DEFINE claimed == IF i = 0 THEN API_KEY_ROLE ELSE tokens[i].role
           r == [pc |-> "identity", route |-> route, target |-> target, kind |-> kind, token |-> i,
                 actor |-> actor, role |-> claimed]
<1>1. request' = [request EXCEPT ![c] = r]
  BY DEF Arrives
<1>2. i \in 0 .. MaxTokens
  BY RequestsAssumption DEF RequestsInv, RequestsTypeOK
<1>3. claimed \in RoleNames
  <2>1. API_KEY_ROLE \in RoleNames
    BY DEF API_KEY_ROLE, RoleNames
  <2>2. i # 0 => tokens[i] \in Token
    BY DEF RequestsInv, RequestsTypeOK
  <2> QED  BY <2>1, <2>2 DEF Token
<1> HIDE DEF claimed
<1>4. r \in Request
  BY <1>2, <1>3 DEF Request
<1>5. request'[c] = r
  BY <1>1 DEF RequestsInv, RequestsTypeOK
<1>6. RequestOK(c)'
  BY <1>5 DEF RequestOK
<1> QED  BY <1>1, <1>4, <1>6, RequestMoves

LEMMA ArriveInv ==
  ASSUME RequestsInv, NEW c \in Clients, NEW route \in Registered, Arrive(c, route), Observe
  PROVE  RequestsInv'
<1>1. /\ arrivals' \in 0 .. MaxArrivals
      /\ UNCHANGED <<clock, role, activeUsers, tenantActive, liveKeys, tokens, liveFamilies, buckets,
                     limiter, changes, admitted>>
  BY RequestsAssumption DEF Arrive, world, RequestsInv, RequestsTypeOK
<1>2. PICK target \in Targets :
        \/ \E k \in Keys : Arrives(c, "api_key", route, target, 0, k)
        \/ \E i \in DOMAIN tokens : Arrives(c, "jwt", route, target, i, tokens[i].user)
        \/ \E u \in Users : CookieOf(u) # 0 /\ Arrives(c, "access_cookie", route, target, CookieOf(u), u)
  BY DEF Arrive
<1>3. CASE \E k \in Keys : Arrives(c, "api_key", route, target, 0, k)
  BY <1>1, <1>3, ArrivesInv DEF Actors
<1>4. CASE \E i \in DOMAIN tokens : Arrives(c, "jwt", route, target, i, tokens[i].user)
  <2>1. \A i \in DOMAIN tokens : tokens[i].user \in Actors
    <3>1. \A i \in DOMAIN tokens : tokens[i] \in Token
      BY DEF RequestsInv, RequestsTypeOK
    <3> QED  BY <3>1 DEF Token, Actors
  <2> QED  BY <1>1, <1>4, <2>1, ArrivesInv
<1>5. CASE \E u \in Users :
             CookieOf(u) # 0 /\ Arrives(c, "access_cookie", route, target, CookieOf(u), u)
  <2>1. PICK u \in Users :
          CookieOf(u) # 0 /\ Arrives(c, "access_cookie", route, target, CookieOf(u), u)
    BY <1>5
  <2>2. CookieOf(u) \in DOMAIN tokens /\ u \in Actors
    BY <2>1, CookiesAreTokens DEF Actors, RequestsInv
  <2> QED  BY <1>1, <2>1, <2>2, ArrivesInv
<1> QED  BY <1>2, <1>3, <1>4, <1>5

\* Whom the query finds, may do what the route does: he is entitled at that moment.
LEMMA IdentifyInv ==
  ASSUME RequestsInv, NEW c \in Clients, Identify(c), Observe PROVE RequestsInv'
<1> DEFINE r == request[c]
           passes == /\ Found(r) /\ (r.kind # "api_key" => r.actor \in activeUsers)
                     /\ tenantActive /\ Allowed(r)
           step == IF r.route.bucket = NoBucket THEN "handle" ELSE "limit"
           after == IF passes THEN [r EXCEPT !.pc = step] ELSE NoRequest
<1>1. /\ r # NoRequest /\ r \in Request /\ arrivals' \in 0 .. MaxArrivals
      /\ UNCHANGED <<clock, role, activeUsers, tenantActive, liveKeys, tokens, liveFamilies, buckets,
                     limiter, changes, admitted>>
  BY DEF Identify, world, RequestsInv, RequestsTypeOK
<1>2. request' = [request EXCEPT ![c] = after]
  BY DEF Identify
<1>3. after \in Request \cup {NoRequest}
  BY <1>1 DEF Request
<1>4. request'[c] = after
  BY <1>2 DEF RequestsInv, RequestsTypeOK
<1>5. RequestOK(c)'
  <2>1. CASE ~passes
    BY <1>4, <2>1 DEF RequestOK
  <2>2. CASE passes
    <3>1. /\ after = [r EXCEPT !.pc = step] /\ after # NoRequest
          /\ after.pc = step /\ after.route = r.route /\ after.kind = r.kind /\ after.actor = r.actor
          /\ after.role = r.role /\ after.token = r.token
      BY <1>1, <2>2, <1>3, RequestsAssumption DEF Request
    <3> HIDE DEF after
    <3>2. CASE r.kind = "api_key"
      <4>1. r.actor \in liveKeys /\ r.route.actions \subseteq ApiKeyActions
        BY <2>2, <3>2 DEF Found, Allowed, CanPerformAuthAction
      <4>2. EntitledNow(c)'
        BY <1>1, <1>4, <2>2, <3>1, <3>2, <4>1 DEF EntitledNow
      <4> QED  BY <1>1, <1>4, <3>1, <4>2 DEF RequestOK, Observe
    <3>3. CASE r.kind # "api_key"
      <4>1. /\ r.actor \in activeUsers /\ role[r.actor] = r.role
            /\ r.route.actions \subseteq RoleActions[r.role]
            /\ r.kind = "access_cookie" => tokens[r.token].family \in liveFamilies
        BY <2>2, <3>3 DEF Found, Allowed, CanPerformAuthAction
      <4>2. r.role \in r.route.roles => EntitledNow(c)'
        BY <1>1, <1>4, <2>2, <3>1, <3>3, <4>1 DEF EntitledNow
      <4>3. r.role \in r.route.roles => c \in entitled'
        BY <1>4, <3>1, <4>2 DEF Observe
      <4>4. step = "handle" => r.role \in r.route.roles
        BY <1>1, RequestsAssumption DEF Request
      <4> QED  BY <1>4, <3>1, <3>3, <4>3, <4>4 DEF RequestOK
    <3> QED  BY <3>2, <3>3
  <2> QED  BY <2>1, <2>2
<1> HIDE DEF after
<1> QED  BY <1>1, <1>2, <1>3, <1>5, RequestMoves

LEMMA HandleInv ==
  ASSUME RequestsInv, NEW c \in Clients, Handle(c), Observe PROVE RequestsInv'
<1>1. /\ arrivals' \in 0 .. MaxArrivals /\ request' = [request EXCEPT ![c] = NoRequest]
      /\ UNCHANGED <<clock, role, activeUsers, tenantActive, liveKeys, tokens, liveFamilies, buckets,
                     limiter, changes, admitted>>
  BY DEF Handle, world, RequestsInv, RequestsTypeOK
<1>2. request'[c] = NoRequest
  BY <1>1 DEF RequestsInv, RequestsTypeOK
<1>3. RequestOK(c)'
  BY <1>2 DEF RequestOK
<1> QED  BY <1>1, <1>3, RequestMoves

\* The entry of an admission is new, when there is room.
LEMMA NewEntryIsNew ==
  ASSUME NEW key \in BucketKeys, NEW held, IsFiniteSet(held), clock \in 0 .. MaxClock,
         Cardinality(held) < ProtectedRouteLimit(key[2])
  PROVE  /\ NewEntry(held, key) \notin held /\ NewEntry(held, key) \in Admission
         /\ NewEntry(held, key)[1] = key /\ NewEntry(held, key)[2] = clock
<1> DEFINE n == ProtectedRouteLimit(key[2])
           entry == [i \in 1 .. n |-> <<key, clock, i>>]
<1>1. n \in Nat
  BY RouteLimits
<1> HIDE DEF n
<1>2. \E i \in 1 .. n : entry[i] \notin held
  <2>1. DOMAIN entry = 1 .. n /\ entry = [i \in 1 .. n |-> entry[i]]
    OBVIOUS
  <2>2. \A i, j \in 1 .. n : entry[i] = entry[j] => i = j
    OBVIOUS
  <2>3. Cardinality(held) < n
    BY DEF n
  <2> HIDE DEF entry
  <2> QED  BY <1>1, <2>1, <2>2, <2>3, SomethingNew
<1>3. \E a \in {key} \X {clock} \X (1 .. n) : a \notin held
  BY <1>2
<1>4. NewEntry(held, key) \in {key} \X {clock} \X (1 .. n) /\ NewEntry(held, key) \notin held
  BY <1>3 DEF NewEntry, n
<1> QED  BY <1>1, <1>4 DEF Admission

LEMMA AdmitBudget ==
  ASSUME RequestsInv, NEW c \in Clients, Admit(c) PROVE BudgetOK' /\ admitted' \subseteq Admission
<1> DEFINE r == request[c]
           key == BucketOf(r.actor, r.route, r.target)
           held == Keep(OfKey(buckets, key), clock)
           counted == Mode # "trusted_edge" /\ limiter = "up"
           room == counted /\ UnderLimit(held, r.route.bucket)
           new == IF room THEN {NewEntry(held, key)} ELSE {}
<1>1. /\ r # NoRequest /\ r \in Request /\ r.pc = "limit" /\ clock' = clock /\ clock \in 0 .. MaxClock
      /\ buckets' = IF ~counted THEN buckets ELSE (buckets \ OfKey(buckets, key)) \cup held \cup new
      /\ admitted' = admitted \cup new
  BY DEF Admit, RequestsInv, RequestsTypeOK
<1>2. key \in BucketKeys /\ key[2] = r.route.bucket
  <2>1. /\ r.route.bucket # NoBucket /\ r.actor \in Actors /\ r.route \in Registered
        /\ r.target \in Targets
    BY <1>1 DEF RequestsInv, RequestOK, Request
  <2>2. CASE r.route.target
    BY <2>1, <2>2 DEF BucketOf, BucketKeys
  <2>3. CASE ~r.route.target
    BY <2>1, <2>3 DEF BucketOf, BucketKeys
  <2> QED  BY <2>2, <2>3
<1> HIDE DEF key
<1>3. held \subseteq buckets /\ IsFiniteSet(held) /\ Cardinality(held) \in Nat
  <2>1. held \subseteq buckets
    BY DEF Keep, OfKey
  <2> QED  BY <2>1, FS_Subset, FS_CardinalityType DEF RequestsInv, BudgetOK
<1>4. OfKey(admitted, key) \subseteq held
  BY DEF OfKey, Keep, RequestsInv, BudgetOK
<1> HIDE DEF held
<1>5. CASE ~room
  <2>1. admitted' = admitted
    BY <1>1, <1>5
  <2>2. buckets' \subseteq buckets /\ admitted \subseteq buckets'
    BY <1>1, <1>3, <1>4, <1>5 DEF OfKey, RequestsInv, BudgetOK
  <2>3. IsFiniteSet(buckets') /\ buckets' \subseteq Admission
    BY <2>2, FS_Subset DEF RequestsInv, BudgetOK
  <2> QED  BY <1>1, <2>1, <2>2, <2>3 DEF RequestsInv, BudgetOK
<1>6. CASE room
  <2> DEFINE e == NewEntry(held, key)
  <2>1. e \notin held /\ e \in Admission /\ e[1] = key /\ e[2] = clock
    BY <1>1, <1>2, <1>3, <1>6, NewEntryIsNew DEF UnderLimit
  <2>2. /\ buckets' = (buckets \ OfKey(buckets, key)) \cup held \cup {e} /\ admitted' = admitted \cup {e}
    BY <1>1, <1>6
  <2> HIDE DEF e
  <2>3. buckets' \subseteq Admission /\ IsFiniteSet(buckets')
    <3>1. buckets' \subseteq buckets \cup {e}
      BY <1>3, <2>2
    <3>2. IsFiniteSet(buckets \cup {e})
      BY FS_AddElement DEF RequestsInv, BudgetOK
    <3> QED  BY <2>1, <3>1, <3>2, FS_Subset DEF RequestsInv, BudgetOK
  <2>4. admitted' \subseteq buckets'
    BY <1>4, <2>2 DEF OfKey, RequestsInv, BudgetOK
  <2>5. \A a \in admitted' : a[2] > clock - Window
    <3>1. clock > clock - Window
      BY <1>1, RequestsAssumption
    <3> QED  BY <2>1, <2>2, <3>1 DEF RequestsInv, BudgetOK
  <2>6. ASSUME NEW x \in BucketKeys PROVE Cardinality(OfKey(admitted', x)) <= ProtectedRouteLimit(x[2])
    <3>1. CASE x = key
      <4>1. OfKey(admitted', x) \subseteq held \cup {e}
        BY <1>4, <2>2, <3>1 DEF OfKey
      <4>2. IsFiniteSet(held \cup {e}) /\ Cardinality(held \cup {e}) = Cardinality(held) + 1
        BY <1>3, <2>1, FS_AddElement
      <4>3. Cardinality(OfKey(admitted', x)) <= Cardinality(held) + 1
        BY <4>1, <4>2, FS_Subset
      <4>4. Cardinality(held) < ProtectedRouteLimit(x[2])
        BY <1>2, <1>6, <3>1 DEF UnderLimit
      <4>5. Cardinality(OfKey(admitted', x)) \in Nat /\ ProtectedRouteLimit(x[2]) \in Nat
        BY <4>1, <4>2, FS_Subset, FS_CardinalityType, RouteLimits
      <4> QED  BY <1>3, <4>3, <4>4, <4>5
    <3>2. CASE x # key
      <4>1. OfKey(admitted', x) = OfKey(admitted, x)
        BY <2>1, <2>2, <3>2 DEF OfKey
      <4> QED  BY <4>1 DEF RequestsInv, BudgetOK
    <3> QED  BY <3>1, <3>2
  <2>7. admitted' \subseteq Admission
    BY <2>3, <2>4
  <2> QED  BY <1>1, <2>3, <2>4, <2>5, <2>6, <2>7 DEF BudgetOK, OfKey
<1> QED  BY <1>5, <1>6

LEMMA AdmitInv ==
  ASSUME RequestsInv, NEW c \in Clients, Admit(c), Observe PROVE RequestsInv'
<1> DEFINE r == request[c]
<1>1. /\ r # NoRequest /\ r \in Request /\ r.pc = "limit"
      /\ UNCHANGED <<clock, role, activeUsers, tenantActive, liveKeys, tokens, liveFamilies,
                     limiter, arrivals, changes>>
  BY DEF Admit, world, RequestsInv, RequestsTypeOK
<1>2. \/ request' = [request EXCEPT ![c] = NoRequest]
      \/ /\ r.kind = "api_key" \/ r.role \in r.route.roles
         /\ request' = [request EXCEPT ![c] = [r EXCEPT !.pc = "handle"]]
  BY DEF Admit
<1>3. request' \in [Clients -> Request \cup {NoRequest}]
  <2>1. [r EXCEPT !.pc = "handle"] \in Request
    BY <1>1 DEF Request
  <2> QED  BY <1>2, <2>1 DEF RequestsInv, RequestsTypeOK
<1>4. ASSUME NEW x \in Clients PROVE RequestOK(x)'
  <2>1. CASE x # c
    <3>1. request'[x] = request[x]
      BY <1>2, <2>1 DEF RequestsInv, RequestsTypeOK
    <3> QED  BY <3>1, RequestStays DEF RequestsInv
  <2>2. CASE x = c /\ request'[c] = NoRequest
    BY <2>2 DEF RequestOK
  <2>3. CASE x = c /\ request'[c] # NoRequest
    <3>1. r.kind = "api_key" \/ r.role \in r.route.roles
      BY <1>2, <2>3 DEF RequestsInv, RequestsTypeOK
    <3>2. c \in entitled'
      BY <1>1, <2>3, <3>1 DEF RequestsInv, RequestOK, Observe
    <3>3. request'[c].pc = "handle"
      <4>1. request' = [request EXCEPT ![c] = [r EXCEPT !.pc = "handle"]]
        BY <1>2, <2>3 DEF RequestsInv, RequestsTypeOK
      <4>2. request'[c] = [r EXCEPT !.pc = "handle"]
        BY <4>1 DEF RequestsInv, RequestsTypeOK
      <4> QED  BY <1>1, <4>2 DEF Request
    <3> QED  BY <2>3, <3>2, <3>3 DEF RequestOK
  <2> QED  BY <2>1, <2>2, <2>3
<1>5. BudgetOK' /\ admitted' \subseteq Admission
  BY AdmitBudget
<1>6. RequestsTypeOK' /\ Len(tokens') <= MaxTokens
  <2>1. entitled' \subseteq Clients /\ buckets' \subseteq Admission
    BY <1>5 DEF Observe, BudgetOK, Admission, BucketKeys
  <2> QED  BY <1>1, <1>3, <1>5, <2>1 DEF RequestsInv, RequestsTypeOK
<1> QED  BY <1>4, <1>5, <1>6 DEF RequestsInv

LEMMA RequestsNextInv == RequestsInv /\ [RequestsNext]_requestVars => RequestsInv'
<1> SUFFICES ASSUME RequestsInv, [RequestsNext]_requestVars PROVE RequestsInv'
  OBVIOUS
<1>1. CASE UNCHANGED requestVars
  <2>1. /\ UNCHANGED <<clock, role, activeUsers, tenantActive, liveKeys, tokens, liveFamilies, buckets>>
        /\ UNCHANGED <<limiter, request, arrivals, changes, admitted, entitled>>
    BY <1>1 DEF requestVars, world
  <2>2. RequestsTypeOK' /\ Len(tokens') <= MaxTokens
    BY <2>1 DEF RequestsInv, RequestsTypeOK
  <2>3. \A c \in Clients : RequestOK(c)'
    BY <2>1 DEF RequestsInv, RequestOK
  <2>4. BudgetOK'
    BY <2>1, BudgetStays DEF RequestsInv
  <2> QED  BY <2>2, <2>3, <2>4 DEF RequestsInv
<1> QED  BY <1>1, TickInv, IssueInv, AdministerInv, LimiterFailsInv, ArriveInv, IdentifyInv, AdmitInv,
            HandleInv DEF RequestsNext

\* No handler runs for an actor who was not entitled to it at a moment since the request arrived,
\* whoever is demoted, deactivated or revoked meanwhile, and no operation is admitted oftener in a
\* window than its route's limit, for any users, keys, clients, routes, windows and lifetimes.
THEOREM EntitledRequests == RequestsSpec => []RequestsAreSound
<1>1. RequestsInv => RequestsAreSound
  <2> SUFFICES ASSUME RequestsInv PROVE RequestsAreSound
    OBVIOUS
  <2>1. RequestsTypeOK /\ RunsEntitled
    BY DEF RequestsInv, RequestOK, RunsEntitled
  <2>2. WithinBudget
    <3>1. \A a \in admitted : a[1] \in BucketKeys
      BY DEF RequestsInv, RequestsTypeOK, Admission
    <3> QED  BY <3>1 DEF RequestsInv, BudgetOK, WithinBudget
  <2> QED  BY <2>1, <2>2 DEF RequestsAreSound
<1> QED  BY <1>1, RequestsInitInv, RequestsNextInv, PTL DEF RequestsSpec

-----------------------------------------------------------------------------
(* The order of the listings *)

LEMMA NewerIsAnOrder ==
  ASSUME at \in [Rows -> 0 .. MaxMicros]
  PROVE  /\ \A r \in Rows : ~Newer(r, r)
         /\ \A r, s \in Rows : r # s => Newer(r, s) \/ Newer(s, r)
         /\ \A r, s \in Rows : ~(Newer(r, s) /\ Newer(s, r))
         /\ \A r, s, t \in Rows : Newer(r, s) /\ Newer(s, t) => Newer(r, t)
<1>1. \A r \in Rows : r \in Nat /\ at[r] \in Nat
  BY ListingsAssumption
<1> QED  BY <1>1 DEF Newer

\* A row's place among the rows of a page: how many are newer.
Rank(S, r) == Cardinality({s \in S : Newer(s, r)})

LEMMA RanksAreOrdered ==
  ASSUME at \in [Rows -> 0 .. MaxMicros], NEW S, S \subseteq Rows
  PROVE  /\ IsFiniteSet(S) /\ Cardinality(S) \in Nat
         /\ \A r \in S : Rank(S, r) \in 0 .. Cardinality(S) - 1
         /\ \A r, s \in S : Newer(s, r) => Rank(S, s) < Rank(S, r)
<1> DEFINE Above(r) == {s \in S : Newer(s, r)}
<1>1. IsFiniteSet(S) /\ Cardinality(S) \in Nat
  BY ListingsAssumption, FS_Subset, FS_CardinalityType
<1>2. \A r \in S : IsFiniteSet(Above(r)) /\ Cardinality(Above(r)) \in Nat /\ Rank(S, r) = Cardinality(Above(r))
  <2> TAKE r \in S
  <2>1. Above(r) \subseteq S
    OBVIOUS
  <2>2. IsFiniteSet(Above(r))
    BY <1>1, <2>1, FS_Subset
  <2>3. Rank(S, r) = Cardinality(Above(r))
    BY DEF Rank
  <2> HIDE DEF Above
  <2> QED  BY <2>2, <2>3, FS_CardinalityType
<1>3. ASSUME NEW r \in S PROVE Rank(S, r) \in 0 .. Cardinality(S) - 1
  <2>1. Above(r) \subseteq S \ {r}
    BY NewerIsAnOrder
  <2>2. IsFiniteSet(S \ {r}) /\ Cardinality(S \ {r}) = Cardinality(S) - 1
    BY <1>1, FS_RemoveElement
  <2> HIDE DEF Above
  <2>3. Cardinality(Above(r)) <= Cardinality(S \ {r})
    BY <2>1, <2>2, FS_Subset
  <2> QED  BY <1>1, <1>2, <2>2, <2>3
<1>4. ASSUME NEW r \in S, NEW s \in S, Newer(s, r) PROVE Rank(S, s) < Rank(S, r)
  <2>1. Above(s) \subseteq Above(r)
    BY <1>4, NewerIsAnOrder
  <2>2. s \in Above(r) /\ s \notin Above(s)
    BY <1>4, NewerIsAnOrder
  <2> HIDE DEF Above
  <2>3. IsFiniteSet(Above(r)) /\ Cardinality(Above(r)) \in Nat /\ Cardinality(Above(s)) \in Nat
    BY <1>2
  <2>4. Cardinality(Above(s)) <= Cardinality(Above(r)) /\ Cardinality(Above(s)) # Cardinality(Above(r))
    BY <2>1, <2>2, <2>3, FS_Subset
  <2> QED  BY <1>2, <2>3, <2>4
<1> QED  BY <1>1, <1>3, <1>4

\* Every place is some row's.
LEMMA EveryPlaceIsTaken ==
  ASSUME at \in [Rows -> 0 .. MaxMicros], NEW S, S \subseteq Rows, NEW i \in 0 .. Cardinality(S) - 1
  PROVE  \E r \in S : Rank(S, r) = i
<1> DEFINE n == Cardinality(S)
           f == [r \in S |-> Rank(S, r)]
<1>1. n \in Nat /\ \A r \in S : Rank(S, r) \in 0 .. n - 1
  BY RanksAreOrdered
<1>2. f \in Injection(S, 0 .. n - 1)
  <2>1. \A r, s \in S : r # s => Rank(S, r) # Rank(S, s)
    <3> SUFFICES ASSUME NEW r \in S, NEW s \in S, r # s PROVE Rank(S, r) # Rank(S, s)
      OBVIOUS
    <3>1. Rank(S, r) < Rank(S, s) \/ Rank(S, s) < Rank(S, r)
      BY NewerIsAnOrder, RanksAreOrdered
    <3> QED  BY <1>1, <3>1
  <2> QED  BY <1>1, <2>1 DEF Injection, IsInjective
<1> HIDE DEF n
<1>3. IsFiniteSet(0 .. n - 1) /\ Cardinality(0 .. n - 1) = n
  <2>1. 0 \in Int /\ n - 1 \in Int
    BY <1>1
  <2>2. Cardinality(0 .. n - 1) = IF 0 > n - 1 THEN 0 ELSE (n - 1) - 0 + 1
    BY <2>1, FS_Interval, Zenon
  <2>3. IsFiniteSet(0 .. n - 1)
    BY <2>1, FS_Interval, Zenon
  <2> QED  BY <1>1, <2>2, <2>3
<1> HIDE DEF f
<1>4. f \in Surjection(S, 0 .. n - 1)
  <2>1. Cardinality(S) = Cardinality(0 .. n - 1)
    BY <1>3 DEF n
  <2> QED  BY <1>2, <1>3, <2>1, FS_Injection
<1>5. i \in 0 .. n - 1
  BY DEF n
<1> QED  BY <1>4, <1>5 DEF Surjection, f

\* Of rows in order, each is newer than those that follow.
Ordered(q) == \A i, j \in DOMAIN q : i < j => Newer(q[i], q[j])

\* A page's rows are in order, and those left out are older than all of them.
LEMMA SelectIsSound ==
  ASSUME at \in [Rows -> 0 .. MaxMicros], NEW boundary, NEW n \in Nat,
         NEW S, S = Matching(boundary), S \subseteq Rows, NEW q, q = Select(boundary, n)
  PROVE  /\ q \in Seq(S) /\ Len(q) <= n /\ Ordered(q)
         /\ \A r \in S : \/ \E i \in DOMAIN q : q[i] = r
                         \/ Len(q) = n /\ \A i \in DOMAIN q : Newer(q[i], r)
<1> DEFINE size == Cardinality(S)
           found == [i \in 1 .. size |-> CHOOSE r \in S : Rank(S, r) = i - 1]
           m == IF Len(found) > n THEN n ELSE Len(found)
<1>1. size \in Nat /\ \A r \in S : Rank(S, r) \in 0 .. size - 1
  BY RanksAreOrdered
<1>2. q = SubSeq(found, 1, m)
  BY DEF Select, Rank
<1> HIDE DEF size
<1>3. \A i \in 1 .. size : found[i] \in S /\ Rank(S, found[i]) = i - 1
  <2> TAKE i \in 1 .. size
  <2>1. i - 1 \in 0 .. Cardinality(S) - 1
    BY <1>1 DEF size
  <2>2. \E r \in S : Rank(S, r) = i - 1
    BY <2>1, EveryPlaceIsTaken
  <2> QED  BY <2>2
<1>4. DOMAIN found = 1 .. size /\ found \in Seq(S) /\ Len(found) = size
  BY <1>1, <1>3
<1> HIDE DEF found
<1>5. m \in 0 .. size /\ m <= n /\ (m = n \/ m = size)
  BY <1>1, <1>4
<1> HIDE DEF m
<1>6. q \in Seq(S) /\ Len(q) = m /\ \A i \in 1 .. m : q[i] = found[i]
  BY <1>1, <1>2, <1>4, <1>5
<1>7. ASSUME NEW i \in 1 .. m PROVE q[i] \in S /\ Rank(S, q[i]) = i - 1
  <2>1. i \in 1 .. size /\ q[i] = found[i]
    BY <1>1, <1>5, <1>6
  <2>2. found[i] \in S /\ Rank(S, found[i]) = i - 1
    BY <1>3, <2>1
  <2> QED  BY <2>1, <2>2, Zenon
<1>8. Ordered(q)
  <2> SUFFICES ASSUME NEW i \in 1 .. m, NEW j \in 1 .. m, i < j PROVE Newer(q[i], q[j])
    BY <1>5, <1>6 DEF Ordered
  <2>1. /\ q[i] \in S /\ q[j] \in S /\ Rank(S, q[i]) = i - 1 /\ Rank(S, q[j]) = j - 1
    BY <1>7
  <2>2. ~(Rank(S, q[j]) < Rank(S, q[i])) /\ Rank(S, q[i]) # Rank(S, q[j])
    BY <1>5, <2>1
  <2>3. q[i] # q[j] /\ ~Newer(q[j], q[i])
    BY <2>1, <2>2, RanksAreOrdered
  <2> QED  BY <2>1, <2>3, NewerIsAnOrder
<1>9. ASSUME NEW r \in S, \A i \in DOMAIN q : q[i] # r
      PROVE  Len(q) = n /\ \A i \in DOMAIN q : Newer(q[i], r)
  <2> DEFINE k == Rank(S, r)
  <2>1. k \in 0 .. size - 1
    BY <1>1
  <2>2. Rank(S, found[k + 1]) = k /\ found[k + 1] \in S
    BY <1>1, <1>3, <2>1
  <2>3. found[k + 1] = r
    <3>1. ~(Rank(S, found[k + 1]) < k) /\ ~(k < Rank(S, found[k + 1]))
      BY <2>1, <2>2
    <3>2. ~Newer(found[k + 1], r) /\ ~Newer(r, found[k + 1])
      BY <2>2, <3>1, RanksAreOrdered
    <3> QED  BY <2>2, <3>2, NewerIsAnOrder
  <2> HIDE DEF k
  <2>4. ~(k + 1 \in 1 .. m)
    BY <1>5, <1>6, <1>9, <2>3
  <2>5. m <= k /\ m # size
    BY <1>1, <1>5, <2>1, <2>4
  <2>6. ASSUME NEW i \in 1 .. m PROVE Newer(q[i], r)
    <3>1. q[i] \in S /\ Rank(S, q[i]) = i - 1
      BY <1>7
    <3>2. ~(k < Rank(S, q[i])) /\ Rank(S, q[i]) # k
      BY <1>5, <2>1, <2>5, <3>1
    <3>3. q[i] # r /\ ~Newer(r, q[i])
      BY <3>1, <3>2, RanksAreOrdered DEF k
    <3> QED  BY <3>1, <3>3, NewerIsAnOrder
  <2> QED  BY <1>5, <1>6, <2>5, <2>6
<1> QED  BY <1>5, <1>6, <1>8, <1>9

-----------------------------------------------------------------------------
(* The walks: the inductive invariant *)

\* The pages so far are in order, end at the cursor, and hold or are still to reach every steady row.
ListingsInv ==
  /\ ListingsTypeOK
  /\ micros \in 1 .. MaxMicros
  /\ \A r \in visible : at[r] # 0
  /\ Returned \subseteq visible /\ Ordered(seen)
  /\ steady \subseteq visible /\ \A r \in steady : fits[r] = wanted
  /\ walk = "new" => seen = <<>>
  /\ walk = "walking" =>
       /\ seen # <<>> /\ cursor = Boundary(seen[Len(seen)])
       /\ \A r \in steady : r \in Returned \/ Behind(r, cursor)
  /\ NoneMissed

\* Behind the boundary of a row is what is older.
LEMMA BehindIsOlder ==
  ASSUME NEW r, NEW s
  PROVE  /\ Behind(r, Boundary(s)) <=> Newer(s, r)
         /\ Boundary(s) # <<>> /\ Behind(r, <<>>)
<1>1. Boundary(s) # <<>> /\ Boundary(s)[1] = at[s] /\ Boundary(s)[2] = s
  BY DEF Boundary
<1>2. (at[r] < at[s] <=> at[s] > at[r]) /\ (r < s <=> s > r)
  OBVIOUS
<1> QED  BY <1>1, <1>2 DEF Behind, Newer

LEMMA ListingsInitInv == ListingsInit => ListingsInv
<1> SUFFICES ASSUME ListingsInit PROVE ListingsInv
  OBVIOUS
<1>1. /\ micros = 1 /\ at = [r \in Rows |-> 0] /\ visible = {} /\ walk = "new" /\ cursor = <<>>
      /\ seen = <<>> /\ steady = {} /\ fits \in [Rows -> {wanted, {}}]
  BY DEF ListingsInit
<1>2. ListingsTypeOK
  BY <1>1, ListingsAssumption DEF ListingsTypeOK
<1>3. Returned = {} /\ Ordered(seen)
  BY <1>1 DEF Returned, Ordered
<1>4. NoneMissed
  BY <1>1 DEF NoneMissed
<1>5. micros \in 1 .. MaxMicros
  BY <1>1, ListingsAssumption
<1> QED  BY <1>1, <1>2, <1>3, <1>4, <1>5 DEF ListingsInv

\* The walk stays where it is while the table changes around it.
LEMMA WalkStays ==
  ASSUME ListingsInv, ListingsTypeOK', micros' \in 1 .. MaxMicros,
         UNCHANGED <<listing, wanted, walk, cursor, seen>>,
         visible \subseteq visible', \A r \in visible' : at'[r] # 0,
         \A r \in visible : at'[r] = at[r],
         steady' \subseteq steady, \A r \in steady' : fits'[r] = wanted'
  PROVE  ListingsInv'
<1>1. Returned' = Returned /\ Returned \subseteq visible
  BY DEF Returned, ListingsInv
<1>2. \A i \in DOMAIN seen : seen[i] \in visible
  BY <1>1 DEF Returned
<1>3. Ordered(seen)'
  BY <1>2 DEF Ordered, Newer, ListingsInv
<1>4. walk' = "walking" =>
        /\ seen' # <<>> /\ cursor' = Boundary(seen[Len(seen)])'
        /\ \A r \in steady' : r \in Returned' \/ Behind(r, cursor)'
  <2> SUFFICES ASSUME walk = "walking" PROVE
        /\ cursor = Boundary(seen[Len(seen)])'
        /\ \A r \in steady' : r \in Returned' \/ Behind(r, cursor)'
    BY DEF ListingsInv
  <2>1. Len(seen) \in DOMAIN seen
    BY DEF ListingsInv, ListingsTypeOK
  <2>2. at'[seen[Len(seen)]] = at[seen[Len(seen)]]
    BY <1>2, <2>1
  <2>3. cursor = Boundary(seen[Len(seen)])'
    BY <2>2 DEF Boundary, ListingsInv
  <2>4. \A r \in steady' : at'[r] = at[r] /\ (r \in Returned \/ Behind(r, cursor))
    BY DEF ListingsInv
  <2> QED  BY <1>1, <2>3, <2>4 DEF Behind
<1>5. NoneMissed'
  BY <1>1 DEF NoneMissed, ListingsInv
<1> QED  BY <1>1, <1>3, <1>4, <1>5 DEF ListingsInv

LEMMA TableInv ==
  ASSUME ListingsInv, (\E r \in Rows : Begin(r) \/ Commit(r) \/ Change(r)) \/ ListingTick
  PROVE  ListingsInv'
<1>1. CASE \E r \in Rows : Begin(r)
  <2>1. PICK r \in Rows : Begin(r)
    BY <1>1
  <2>2. at' \in [Rows -> 0 .. MaxMicros] /\ \A s \in visible : at'[s] = at[s]
    BY <2>1 DEF Begin, ListingsInv, ListingsTypeOK
  <2>3. UNCHANGED <<listing, wanted, micros, visible, fits, walk, cursor, seen, steady>>
    BY <2>1 DEF Begin, walked
  <2>4. ListingsTypeOK'
    BY <2>2, <2>3 DEF ListingsInv, ListingsTypeOK
  <2> QED  BY <2>2, <2>3, <2>4, WalkStays DEF ListingsInv
<1>2. CASE \E r \in Rows : Commit(r)
  <2>1. PICK r \in Rows : Commit(r)
    BY <1>2
  <2>2. UNCHANGED <<listing, wanted, micros, at, fits, walk, cursor, seen, steady>>
    BY <2>1 DEF Commit, walked
  <2>3. visible' = visible \cup {r} /\ at[r] # 0
    BY <2>1 DEF Commit
  <2>4. ListingsTypeOK'
    BY <2>2, <2>3 DEF ListingsInv, ListingsTypeOK
  <2> QED  BY <2>2, <2>3, <2>4, WalkStays DEF ListingsInv
<1>3. CASE \E r \in Rows : Change(r)
  <2>1. PICK r \in Rows : Change(r)
    BY <1>3
  <2>2. PICK column \in wanted \cap Mutable :
          fits' = [fits EXCEPT ![r] = (fits[r] \ {column}) \cup ({column} \ fits[r])]
    BY <2>1 DEF Change
  <2>3. UNCHANGED <<listing, wanted, micros, at, visible, walk, cursor, seen>>
    BY <2>1 DEF Change, walked
  <2>4. fits' \in [Rows -> SUBSET wanted] /\ \A s \in Rows \ {r} : fits'[s] = fits[s]
    BY <2>2 DEF ListingsInv, ListingsTypeOK
  <2>5. steady' = IF fits'[r] = wanted THEN steady ELSE steady \ {r}
    BY <2>1 DEF Change
  <2>6. steady' \subseteq steady /\ \A s \in steady' : fits'[s] = wanted'
    BY <2>3, <2>4, <2>5 DEF ListingsInv, ListingsTypeOK
  <2>7. ListingsTypeOK'
    BY <2>3, <2>4 DEF ListingsInv, ListingsTypeOK
  <2> QED  BY <2>3, <2>6, <2>7, WalkStays DEF ListingsInv
<1>4. CASE ListingTick
  <2>1. /\ micros' \in 1 .. MaxMicros
        /\ UNCHANGED <<listing, wanted, at, visible, fits, walk, cursor, seen, steady>>
    BY <1>4, ListingsAssumption DEF ListingTick, walked, ListingsInv
  <2>2. ListingsTypeOK'
    BY <2>1 DEF ListingsInv, ListingsTypeOK
  <2> QED  BY <2>1, <2>2, WalkStays DEF ListingsInv
<1> QED  BY <1>1, <1>2, <1>3, <1>4

\* A page after those so far: it is behind the cursor, so it goes on in order.
LEMMA PagesJoin ==
  ASSUME ListingsInv, walk # "over", NEW p \in Seq(Matching(cursor)), Ordered(p)
  PROVE  Ordered(seen \o p)
<1>1. /\ seen \in Seq(Rows) /\ p \in Seq(visible) /\ visible \subseteq Rows
      /\ at \in [Rows -> 0 .. MaxMicros]
  <2>1. Matching(cursor) \subseteq visible
    BY DEF Matching
  <2> QED  BY <2>1 DEF ListingsInv, ListingsTypeOK
<1>2. /\ Len(seen) \in Nat /\ Len(p) \in Nat /\ DOMAIN (seen \o p) = 1 .. Len(seen) + Len(p)
      /\ \A i \in 1 .. Len(seen) : (seen \o p)[i] = seen[i] /\ seen[i] \in Rows
      /\ \A i \in 1 .. Len(p) : p[i] \in Matching(cursor) /\ p[i] \in Rows
  BY <1>1
<1>3. \A i \in 1 .. Len(seen) + Len(p) :
        i > Len(seen) => i - Len(seen) \in 1 .. Len(p) /\ (seen \o p)[i] = p[i - Len(seen)]
  BY <1>1, <1>2
<1>4. ASSUME NEW i \in 1 .. Len(seen), NEW r \in Matching(cursor) PROVE Newer(seen[i], r)
  <2>1. walk = "walking" /\ cursor = Boundary(seen[Len(seen)]) /\ r \in Rows
    <3>1. walk = "new" => Len(seen) = 0
      BY DEF ListingsInv
    <3>2. r \in Rows
      BY <1>1 DEF Matching
    <3> QED  BY <1>2, <3>1, <3>2 DEF ListingsInv, ListingsTypeOK
  <2>2. Newer(seen[Len(seen)], r)
    BY <2>1, BehindIsOlder DEF Matching
  <2>3. CASE i = Len(seen)
    BY <2>2, <2>3
  <2>4. CASE i < Len(seen)
    <3>1. Len(seen) \in 1 .. Len(seen)
      BY <1>2
    <3>2. Newer(seen[i], seen[Len(seen)])
      BY <1>1, <1>2, <2>4, <3>1 DEF Ordered, ListingsInv
    <3> QED  BY <1>1, <1>2, <2>1, <2>2, <3>1, <3>2, NewerIsAnOrder
  <2> QED  BY <1>2, <2>3, <2>4
<1> SUFFICES ASSUME NEW i \in 1 .. Len(seen) + Len(p), NEW j \in 1 .. Len(seen) + Len(p), i < j
             PROVE  Newer((seen \o p)[i], (seen \o p)[j])
  BY <1>2 DEF Ordered
<1>5. CASE j <= Len(seen)
  <2>1. i \in 1 .. Len(seen) /\ j \in 1 .. Len(seen)
    BY <1>2, <1>5
  <2>2. Newer(seen[i], seen[j])
    BY <1>1, <2>1 DEF Ordered, ListingsInv
  <2> QED  BY <1>2, <2>1, <2>2
<1>6. CASE i <= Len(seen) /\ j > Len(seen)
  <2>1. i \in 1 .. Len(seen)
    BY <1>2, <1>6
  <2> QED  BY <1>2, <1>3, <1>4, <1>6, <2>1
<1>7. CASE i > Len(seen)
  <2>1. j > Len(seen) /\ i - Len(seen) < j - Len(seen)
    BY <1>2, <1>7
  <2>2. /\ i - Len(seen) \in DOMAIN p /\ j - Len(seen) \in DOMAIN p
        /\ (seen \o p)[i] = p[i - Len(seen)] /\ (seen \o p)[j] = p[j - Len(seen)]
    BY <1>1, <1>3, <1>7, <2>1
  <2> QED  BY <2>1, <2>2 DEF Ordered
<1> QED  BY <1>2, <1>5, <1>6, <1>7

\* A page holds all rows, or those it leaves out are older than all it holds.
Whole(q, S) == \A r \in S : \E i \in DOMAIN q : q[i] = r
Newest(q, S) == \A r \in S : (\E i \in DOMAIN q : q[i] = r) \/ (\A i \in DOMAIN q : Newer(q[i], r))

\* A page and whether there is more: the row behind the limit tells.
LEMMA PageIsSound ==
  ASSUME ListingsInv, NEW limit \in Limits,
         NEW selected, selected = Select(cursor, limit + 1),
         NEW n, n = IF Len(selected) > limit THEN limit ELSE Len(selected),
         NEW page, page = SubSeq(selected, 1, n)
  PROVE  /\ page \in Seq(Matching(cursor)) /\ Ordered(page)
         /\ Newest(page, Matching(cursor))
         /\ Len(selected) > limit => Len(page) = limit
         /\ ~(Len(selected) > limit) => Whole(page, Matching(cursor))
<1> DEFINE S == Matching(cursor)
<1>1. limit \in Nat \ {0} /\ limit + 1 \in Nat
  BY ListingsAssumption
<1>2. S \subseteq Rows /\ at \in [Rows -> 0 .. MaxMicros]
  BY DEF Matching, ListingsInv, ListingsTypeOK
<1>3. /\ selected \in Seq(S) /\ Len(selected) <= limit + 1 /\ Ordered(selected)
      /\ \A r \in S : \/ \E i \in DOMAIN selected : selected[i] = r
                      \/ Len(selected) = limit + 1 /\ \A i \in DOMAIN selected : Newer(selected[i], r)
  <2> HIDE DEF S
  <2>1. S = Matching(cursor)
    BY DEF S
  <2> QED  BY <1>1, <1>2, <2>1, SelectIsSound
<1> HIDE DEF S
<1>4. /\ Len(selected) \in Nat /\ DOMAIN selected = 1 .. Len(selected)
      /\ n \in 0 .. Len(selected) /\ (Len(selected) > limit => n = limit)
      /\ (~(Len(selected) > limit) => n = Len(selected))
  BY <1>1, <1>3
<1>5. /\ page \in Seq(S) /\ Len(page) = n /\ DOMAIN page = 1 .. n
      /\ \A i \in 1 .. n : page[i] = selected[i] /\ i \in DOMAIN selected
  BY <1>3, <1>4
<1>6. Ordered(page)
  BY <1>3, <1>5 DEF Ordered
<1>7. ASSUME NEW r \in S, \A i \in DOMAIN page : page[i] # r
      PROVE  Len(selected) > limit /\ \A i \in DOMAIN page : Newer(page[i], r)
  <2>1. CASE \E k \in DOMAIN selected : selected[k] = r
    <3>1. PICK k \in DOMAIN selected : selected[k] = r
      BY <2>1
    <3>2. ~(k \in 1 .. n)
      BY <1>5, <1>7, <3>1
    <3>3. k > n /\ Len(selected) > limit
      BY <1>1, <1>4, <3>1, <3>2
    <3>4. ASSUME NEW i \in DOMAIN page PROVE Newer(page[i], r)
      <4>1. i \in 1 .. n /\ i \in DOMAIN selected /\ page[i] = selected[i]
        BY <1>5, Zenon
      <4>2. n \in Int /\ k \in Int
        BY <1>4
      <4>3. i < k
        BY <3>3, <4>1, <4>2
      <4> QED  BY <1>3, <3>1, <4>1, <4>3 DEF Ordered
    <3> QED  BY <3>3, <3>4
  <2>2. CASE Len(selected) = limit + 1 /\ \A i \in DOMAIN selected : Newer(selected[i], r)
    BY <1>1, <1>5, <2>2
  <2> QED  BY <1>3, <2>1, <2>2
<1>8. Len(selected) > limit => Len(page) = limit
  BY <1>4, <1>5
<1>9. Newest(page, S)
  BY <1>7 DEF Newest
<1>10. ~(Len(selected) > limit) => Whole(page, S)
  BY <1>7 DEF Whole
<1> QED  BY <1>5, <1>6, <1>8, <1>9, <1>10 DEF S

LEMMA NextPageInv ==
  ASSUME ListingsInv, NEW limit \in Limits, NextPage(limit) PROVE ListingsInv'
<1> DEFINE selected == Select(cursor, limit + 1)
           page == SubSeq(selected, 1, IF Len(selected) > limit THEN limit ELSE Len(selected))
           more == Len(selected) > limit
<1>1. /\ walk # "over" /\ listing.paged /\ seen' = seen \o page
      /\ walk' = (IF more THEN "walking" ELSE "over")
      /\ cursor' = (IF more THEN Boundary(page[Len(page)]) ELSE <<>>)
      /\ steady' = IF walk = "new" THEN Matching(<<>>) ELSE steady
      /\ UNCHANGED <<listing, wanted, micros, at, visible, fits>>
  BY DEF NextPage, table
<1>2. /\ page \in Seq(Matching(cursor)) /\ Ordered(page) /\ Newest(page, Matching(cursor))
      /\ (more => Len(page) = limit) /\ (~more => Whole(page, Matching(cursor)))
  <2> DEFINE n == IF more THEN limit ELSE Len(selected)
  <2>1. n = (IF Len(selected) > limit THEN limit ELSE Len(selected)) /\ (more <=> Len(selected) > limit)
    OBVIOUS
  <2>2. selected = Select(cursor, limit + 1) /\ page = SubSeq(selected, 1, n)
    OBVIOUS
  <2> HIDE DEF selected, page, more, n
  <2>3. page \in Seq(Matching(cursor))
    BY <2>1, <2>2, PageIsSound
  <2>4. Ordered(page)
    BY <2>1, <2>2, PageIsSound
  <2>5. Len(selected) > limit => Len(page) = limit
    BY <2>1, <2>2, PageIsSound
  <2>6. Newest(page, Matching(cursor))
    BY <2>1, <2>2, PageIsSound
  <2>7. ~(Len(selected) > limit) => Whole(page, Matching(cursor))
    BY <2>1, <2>2, PageIsSound
  <2> QED  BY <2>3, <2>4, <2>5, <2>6, <2>7 DEF more
<1> HIDE DEF page, more
<1>3. /\ seen \in Seq(Rows) /\ page \in Seq(Rows) /\ \A i \in DOMAIN page : page[i] \in visible
  BY <1>2 DEF ListingsInv, ListingsTypeOK, Matching
<1>4. Ordered(seen')
  <2>1. Ordered(seen \o page)
    BY <1>1, <1>2, PagesJoin
  <2> QED  BY <1>1, <2>1
<1>5. /\ seen' \in Seq(Rows) /\ Len(seen') = Len(seen) + Len(page) /\ Len(seen) \in Nat /\ Len(page) \in Nat
      /\ \A i \in 1 .. Len(seen) : seen'[i] = seen[i]
      /\ \A i \in 1 .. Len(page) : seen'[Len(seen) + i] = page[i]
  BY <1>1, <1>3
<1>6. Returned' = Returned \cup {page[i] : i \in DOMAIN page}
  <2>1. ASSUME NEW i \in DOMAIN seen' PROVE seen'[i] \in Returned \cup {page[k] : k \in DOMAIN page}
    <3>1. CASE i \in 1 .. Len(seen)
      BY <1>3, <1>5, <3>1 DEF Returned
    <3>2. CASE i - Len(seen) \in 1 .. Len(page)
      <4>1. PICK k \in 1 .. Len(page) : k = i - Len(seen)
        BY <3>2
      <4>2. i \in Int /\ i = Len(seen) + k
        BY <1>5, <4>1
      <4>3. seen'[i] = page[k] /\ k \in DOMAIN page
        BY <1>3, <1>5, <4>2
      <4> QED  BY <4>3
    <3> QED  BY <1>5, <3>1, <3>2
  <2>2. \A i \in DOMAIN seen : i \in DOMAIN seen' /\ seen'[i] = seen[i]
    BY <1>3, <1>5
  <2>3. \A i \in DOMAIN page : Len(seen) + i \in DOMAIN seen' /\ seen'[Len(seen) + i] = page[i]
    BY <1>3, <1>5
  <2> QED  BY <2>1, <2>2, <2>3 DEF Returned
<1>7. Returned' \subseteq visible
  BY <1>3, <1>6 DEF ListingsInv
<1>8. /\ steady' \subseteq visible /\ \A r \in steady' : fits[r] = wanted
      /\ \A r \in steady' : r \in Returned \/ r \in Matching(cursor)
  <2>1. CASE walk = "new"
    <3>1. cursor = <<>>
      BY <2>1 DEF ListingsInv, ListingsTypeOK
    <3> QED  BY <1>1, <2>1, <3>1 DEF Matching
  <2>2. CASE walk # "new"
    <3>1. walk = "walking" /\ steady' = steady
      BY <1>1, <2>2 DEF ListingsInv, ListingsTypeOK
    <3> QED  BY <3>1 DEF ListingsInv, Matching
  <2> QED  BY <2>1, <2>2
<1>9. CASE more
  <2>1. walk' = "walking" /\ cursor' = Boundary(page[Len(page)]) /\ Len(page) \in 1 .. Len(page)
    BY <1>1, <1>2, <1>5, <1>9, ListingsAssumption
  <2>2. /\ seen' # <<>> /\ seen'[Len(seen')] = page[Len(page)] /\ Len(page) \in DOMAIN page
    BY <1>3, <1>5, <2>1
  <2>3. cursor' # <<>> /\ cursor' = Boundary(seen'[Len(seen')])
    BY <2>1, <2>2, BehindIsOlder
  <2>4. cursor' = Boundary(seen[Len(seen)])'
    BY <1>1, <2>3 DEF Boundary
  <2>5. ASSUME NEW r \in steady', r \notin Returned' PROVE Behind(r, cursor)'
    <3>1. Newer(page[Len(page)], r)
      BY <1>2, <1>6, <1>8, <2>2, <2>5 DEF Newest
    <3>2. Behind(r, cursor')
      BY <2>1, <3>1, BehindIsOlder
    <3> QED  BY <1>1, <3>2 DEF Behind
  <2>6. NoneMissed'
    BY <2>1 DEF NoneMissed
  <2>7. ListingsTypeOK'
    BY <1>1, <1>5, <2>1, <2>3 DEF ListingsInv, ListingsTypeOK
  <2>8. Ordered(seen)'
    BY <1>1, <1>4 DEF Ordered, Newer
  <2> QED  BY <1>1, <1>7, <1>8, <2>1, <2>2, <2>4, <2>5, <2>6, <2>7, <2>8 DEF ListingsInv
<1>10. CASE ~more
  <2>1. walk' = "over" /\ cursor' = <<>>
    BY <1>1, <1>10
  <2>2. steady' \subseteq Returned'
    BY <1>2, <1>6, <1>8, <1>10 DEF Whole
  <2>3. NoneMissed'
    BY <2>2 DEF NoneMissed
  <2>4. ListingsTypeOK'
    BY <1>1, <1>5, <2>1 DEF ListingsInv, ListingsTypeOK
  <2>5. Ordered(seen)'
    BY <1>1, <1>4 DEF Ordered, Newer
  <2> QED  BY <1>1, <1>7, <1>8, <2>1, <2>3, <2>4, <2>5 DEF ListingsInv
<1> QED  BY <1>9, <1>10

LEMMA ListInv == ASSUME ListingsInv, NEW limit \in Limits, List(limit) PROVE ListingsInv'
<1> DEFINE q == Select(<<>>, limit)
<1>1. /\ ~listing.paged /\ walk = "new" /\ walk' = "over" /\ seen' = q /\ steady' = Matching(<<>>)
      /\ UNCHANGED <<listing, wanted, micros, at, visible, fits, cursor>>
  BY DEF List, table
<1>2. q \in Seq(Matching(<<>>)) /\ Ordered(q)
  <2>1. Matching(<<>>) \subseteq Rows /\ at \in [Rows -> 0 .. MaxMicros] /\ limit \in Nat
    BY ListingsAssumption DEF Matching, ListingsInv, ListingsTypeOK
  <2> QED  BY <2>1, SelectIsSound
<1> HIDE DEF q
<1>3. Matching(<<>>) \subseteq visible /\ \A r \in Matching(<<>>) : fits[r] = wanted
  BY DEF Matching
<1>4. q \in Seq(Rows) /\ \A i \in DOMAIN q : q[i] \in visible
  BY <1>2, <1>3 DEF ListingsInv, ListingsTypeOK
<1>5. Returned' \subseteq visible
  BY <1>1, <1>4 DEF Returned
<1>6. NoneMissed'
  BY <1>1 DEF NoneMissed
<1>7. ListingsTypeOK'
  BY <1>1, <1>4 DEF ListingsInv, ListingsTypeOK
<1>8. Ordered(seen)'
  BY <1>1, <1>2 DEF Ordered, Newer
<1> QED  BY <1>1, <1>3, <1>5, <1>6, <1>7, <1>8 DEF ListingsInv

LEMMA ListingsNextInv == ListingsInv /\ [ListingsNext]_listingVars => ListingsInv'
<1> SUFFICES ASSUME ListingsInv, [ListingsNext]_listingVars PROVE ListingsInv'
  OBVIOUS
<1>1. CASE UNCHANGED listingVars
  <2>1. UNCHANGED <<listing, wanted, micros, at, visible, fits, updates, walk, cursor, seen, steady>>
    BY <1>1 DEF listingVars
  <2>2. ListingsTypeOK'
    BY <2>1 DEF ListingsInv, ListingsTypeOK
  <2> QED  BY <2>1, <2>2, WalkStays DEF ListingsInv
<1> QED  BY <1>1, TableInv, NextPageInv, ListInv DEF ListingsNext

\* A walk over the pages of a listing returns no row twice, goes down in time, and misses no row
\* that was listed when it began and has fitted its filters since, for any rows, limits and
\* filters, whatever commits late or changes between two pages.
THEOREM CompletePages == ListingsSpec => []PagesAreSound
<1>1. ListingsInv => PagesAreSound
  BY DEF ListingsInv, PagesAreSound, InOrder, Ordered
<1> QED  BY <1>1, ListingsInitInv, ListingsNextInv, PTL DEF ListingsSpec
=============================================================================
