--------------------------- MODULE ObjectStore_proofs --------------------------
(***************************************************************************)
(* What tenants bring and keep, proved for every number of callers,        *)
(* clients, requests and files.                                            *)
(*                                                                         *)
(* The object store implements the atomic map and keeps temporaries apart: *)
(* the file a writer works on is its own and not yet named by the key      *)
(* (Private) and stays where it is, whatever others leave (Held), what the *)
(* key names is all of an object (Whole), and what a reader has compared   *)
(* stays as it was (Compared), because files that have been named never    *)
(* change.                                                                 *)
(*                                                                         *)
(* Cloud accounts lose no update: whoever has updated an account holds its *)
(* tenant's row, so what he saw when he locked it is still what is         *)
(* committed (RequestOK).                                                  *)
(*                                                                         *)
(* Imports keep the books: what a parser gives is a whole file that        *)
(* reconciles, or no row (OutcomeOK), a request keeps it from the reading  *)
(* to the commit, and it tells nothing before (StageOK).                   *)
(***************************************************************************)
EXTENDS ObjectStore, Imports, CloudAccounts, SequenceTheorems, FiniteSetTheorems, TLAPS

Whole == path # 0 => files[path] \in Values

\* The file of a writer.
Private ==
  \A c \in Callers : pc[c] \in Writing =>
    /\ file[c] \in 1 .. MaxFiles /\ files[file[c]] # None /\ file[c] # path
    /\ pc[c] = "rename" => files[file[c]] = op[c][2]
    /\ \A d \in Callers : d # c /\ (pc[d] \in Writing \/ pc[d] = "read") => file[d] # file[c]

\* What a writer has made is there, and what a reader has compared is no temporary.
Held ==
  \A c \in Callers :
    /\ pc[c] \in Writing => file[c] \in temporaries
    /\ pc[c] = "write" => files[file[c]] = "part"
    /\ pc[c] = "read" => file[c] \notin temporaries

Compared ==
  \A c \in Callers : pc[c] = "read" =>
    file[c] \in 1 .. MaxFiles /\ files[file[c]] = seen[c] /\ seen[c] \in Values

\* The step of a caller fits its operation, and it has no answer before the end.
Fits ==
  \A c \in Callers :
    /\ pc[c] \in Writing \cup {"create"} => op[c] \in {"put"} \X Values
    /\ pc[c] = "find" => op[c] \in {"get", "delete"} \X {None}
    /\ pc[c] \in {"open", "compare", "read"} => op[c] = <<"get", None>>
    /\ pc[c] = "remove" => op[c] = <<"delete", None>>
    /\ pc[c] \in Steps \ {"done"} => got[c] = None

IInv == TypeOK /\ Whole /\ Private /\ Compared /\ Fits /\ Held

-----------------------------------------------------------------------------
LEMMA InitIInv == Init => IInv
<1> SUFFICES ASSUME Init PROVE IInv
  OBVIOUS
<1> USE ObjectStoreAssumption
<1>1. TypeOK
  BY DEF Init, TypeOK, Operations
<1>2. \A c \in Callers : pc[c] \notin Steps
  BY DEF Init
<1>3. Whole /\ Private /\ Compared /\ Fits /\ Held
  BY <1>2 DEF Init, Whole, Private, Compared, Fits, Held, Steps, Writing
<1>4. QED
  BY <1>1, <1>3 DEF IInv

\* A step that only moves c on, to a step at which it has no file to rely on.
LEMMA MoveInv ==
  ASSUME IInv, NEW c \in Callers, NEW step \in (Steps \ (Writing \cup {"read"})) \cup {None},
         Goto(c, step), pc[c] \notin Writing, UNCHANGED disk,
         op' \in [Callers -> Operations], file' \in [Callers -> 0 .. MaxFiles],
         got' \in [Callers -> Values \cup {"part", None}],
         seen' \in [Callers -> Values \cup {"part", None}],
         \A d \in Callers \ {c} :
           op'[d] = op[d] /\ file'[d] = file[d] /\ got'[d] = got[d] /\ seen'[d] = seen[d],
         step = "create" => op'[c] \in {"put"} \X Values,
         step = "find" => op'[c] \in {"get", "delete"} \X {None},
         step \in {"open", "compare"} => op'[c] = <<"get", None>>,
         step = "remove" => op'[c] = <<"delete", None>>,
         step \in Steps \ {"done"} => got'[c] = None
  PROVE  IInv'
<1> USE ObjectStoreAssumption
<1> USE DEF IInv
<1>0. UNCHANGED <<files, path, temporaries>>
  BY DEF disk
<1>1. pc'[c] = step /\ \A d \in Callers \ {c} : pc'[d] = pc[d]
  BY DEF Goto, TypeOK
<1>2. TypeOK'
  BY <1>0 DEF TypeOK, Goto
<1>3. step \notin Writing /\ step # "read"
  BY DEF Steps, Writing
<1>4. Whole' /\ Private' /\ Compared'
  BY <1>0, <1>1, <1>3 DEF Whole, Private, Compared
<1>5. Fits'
  BY <1>1, <1>3 DEF Fits
<1>6. Held'
  BY <1>0, <1>1, <1>3 DEF Held, Writing
<1>7. QED
  BY <1>2, <1>4, <1>5, <1>6

LEMMA StartInv == ASSUME IInv, NEW c \in Callers, Start(c) PROVE IInv'
<1> USE ObjectStoreAssumption
<1>0. /\ pc[c] = None /\ UNCHANGED <<disk, closed, file>>
      /\ got' = [got EXCEPT ![c] = None] /\ seen' = [seen EXCEPT ![c] = None]
  BY DEF Start
<1>1. PICK o \in Operations :
        op' = [op EXCEPT ![c] = o] /\ Goto(c, IF o[1] = "put" THEN "create" ELSE "find")
  BY DEF Start
<1> DEFINE step == IF o[1] = "put" THEN "create" ELSE "find"
<1>2. /\ step = "create" => o \in {"put"} \X Values
      /\ step = "find" => o \in {"get", "delete"} \X {None}
  BY DEF Operations
<1>3. step \in {"create", "find"} /\ Goto(c, step)
  BY <1>1
<1>4. op'[c] = o /\ got'[c] = None
  BY <1>0, <1>1 DEF IInv, TypeOK
<1> HIDE DEF step
<1>5. /\ op' \in [Callers -> Operations] /\ file' \in [Callers -> 0 .. MaxFiles]
      /\ got' \in [Callers -> Values \cup {"part", None}]
      /\ seen' \in [Callers -> Values \cup {"part", None}]
      /\ \A d \in Callers \ {c} :
           op'[d] = op[d] /\ file'[d] = file[d] /\ got'[d] = got[d] /\ seen'[d] = seen[d]
  BY <1>0, <1>1 DEF IInv, TypeOK
<1>6. pc[c] \notin Writing /\ step \in (Steps \ (Writing \cup {"read"})) \cup {None}
  BY <1>0, <1>3 DEF Steps, Writing
<1>7. QED
  BY <1>0, <1>2, <1>3, <1>4, <1>5, <1>6, MoveInv

LEMMA CreateInv == ASSUME IInv, NEW c \in Callers, Create(c) PROVE IInv'
<1> USE ObjectStoreAssumption
<1> USE DEF IInv
<1>0. /\ pc[c] = "create" /\ pc' = [pc EXCEPT ![c] = "write"]
      /\ UNCHANGED <<path, closed, op, got, seen>>
  BY DEF Create, Goto
<1>1. PICK f \in 1 .. MaxFiles :
        /\ files[f] = None /\ files' = [files EXCEPT ![f] = "part"]
        /\ temporaries' = temporaries \cup {f} /\ file' = [file EXCEPT ![c] = f]
  BY DEF Create
<1>2. /\ f # path /\ files'[f] = "part"
      /\ \A g \in 1 .. MaxFiles : g # f => files'[g] = files[g]
      /\ file'[c] = f /\ pc'[c] = "write"
      /\ \A d \in Callers \ {c} : pc'[d] = pc[d] /\ file'[d] = file[d]
  BY <1>0, <1>1 DEF TypeOK
<1>3. TypeOK'
  BY <1>0, <1>1, <1>2 DEF TypeOK, Steps, Writing
<1>4. Whole'
  BY <1>0, <1>2 DEF TypeOK, Whole
<1>5. \A d \in Callers : pc[d] \in Writing \/ pc[d] = "read" => file[d] \in 1 .. MaxFiles /\ file[d] # f
  BY <1>1 DEF Private, Compared
<1>6. Private'
  BY <1>0, <1>2, <1>5 DEF Private, Writing
<1>7. Compared'
  BY <1>0, <1>2, <1>5 DEF Compared
<1>8. Fits'
  BY <1>0, <1>2 DEF Fits, Steps, Writing
<1>9. Held'
  BY <1>0, <1>1, <1>2, <1>5 DEF Held, Writing
<1>10. QED
  BY <1>3, <1>4, <1>6, <1>7, <1>8, <1>9

LEMMA WriteInv == ASSUME IInv, NEW c \in Callers, Write(c) PROVE IInv'
<1> USE ObjectStoreAssumption
<1> USE DEF IInv
<1> DEFINE f == file[c]
<1>0. /\ pc[c] = "write" /\ pc' = [pc EXCEPT ![c] = "rename"]
      /\ files' = [files EXCEPT ![f] = op[c][2]]
      /\ UNCHANGED <<path, temporaries, closed, op, file, got, seen>>
  BY DEF Write, Goto
<1>1. /\ f \in 1 .. MaxFiles /\ f # path
      /\ \A d \in Callers : d # c /\ (pc[d] \in Writing \/ pc[d] = "read") => file[d] # f
  BY <1>0 DEF Private, Writing
<1>2. op[c][2] \in Values
  BY <1>0 DEF Fits, Writing
<1>3. /\ files'[f] = op[c][2] /\ \A g \in 1 .. MaxFiles : g # f => files'[g] = files[g]
      /\ files' \in [1 .. MaxFiles -> Values \cup {"part", None}]
  BY <1>0, <1>1, <1>2 DEF TypeOK
<1>4. pc'[c] = "rename" /\ \A d \in Callers \ {c} : pc'[d] = pc[d]
  BY <1>0 DEF TypeOK
<1> HIDE DEF f
<1>5. TypeOK'
  BY <1>0, <1>1, <1>3 DEF TypeOK, Steps, Writing
<1>6. Whole'
  BY <1>0, <1>1, <1>3 DEF TypeOK, Whole
<1>7. Private'
  <2> SUFFICES ASSUME NEW e \in Callers, pc'[e] \in Writing
               PROVE
                 /\ file[e] \in 1 .. MaxFiles /\ files'[file[e]] # None /\ file[e] # path
                 /\ pc'[e] = "rename" => files'[file[e]] = op[e][2]
                 /\ \A d \in Callers : d # e /\ (pc'[d] \in Writing \/ pc'[d] = "read") => file[d] # file[e]
    BY <1>0 DEF Private
  <2>1. pc[e] \in Writing /\ \A d \in Callers : pc'[d] \in Writing \/ pc'[d] = "read" => pc[d] \in Writing \/ pc[d] = "read"
    BY <1>0, <1>4 DEF Writing
  <2>2. CASE e = c
    BY <1>0, <1>1, <1>2, <1>3, <2>1, <2>2 DEF Private, f
  <2>3. CASE e # c
    <3>1. file[e] # f
      BY <1>1, <2>1, <2>3
    <3>2. QED
      BY <1>3, <1>4, <2>1, <2>3, <3>1 DEF Private
  <2>4. QED
    BY <2>2, <2>3
<1>8. Compared'
  BY <1>0, <1>1, <1>3, <1>4 DEF Compared
<1>9. Fits'
  BY <1>0, <1>4 DEF Fits, Steps, Writing
<1>10. Held'
  <2> SUFFICES ASSUME NEW e \in Callers
               PROVE
                 /\ pc'[e] \in Writing => file[e] \in temporaries
                 /\ pc'[e] = "write" => files'[file[e]] = "part"
                 /\ pc'[e] = "read" => file[e] \notin temporaries
    BY <1>0 DEF Held
  <2>1. CASE e = c
    BY <1>0, <1>4, <2>1 DEF Held, Writing
  <2>2. CASE e # c
    BY <1>1, <1>3, <1>4, <2>2 DEF Held, Private, Writing
  <2>3. QED
    BY <2>1, <2>2
<1>11. QED
  BY <1>5, <1>6, <1>7, <1>8, <1>9, <1>10

\* A writer goes on, or ends, and its temporary is renamed, removed or left.
LEMMA WriterInv ==
  ASSUME IInv, NEW c \in Callers, pc[c] \in Writing, NEW step \in {"cleanup", "done", None},
         Goto(c, step), UNCHANGED <<files, op, file, got, seen>>,
         \/ path' = path
         \/ path' = file[c] /\ step = "done" /\ pc[c] = "rename",
         path' = file[c] => file[c] \notin temporaries',
         temporaries' \in {temporaries, temporaries \ {file[c]}},
         step = "cleanup" => temporaries' = temporaries
  PROVE  IInv'
<1> USE ObjectStoreAssumption
<1> USE DEF IInv
<1>1. pc'[c] = step /\ \A d \in Callers \ {c} : pc'[d] = pc[d]
  BY DEF Goto, TypeOK
<1>2. /\ file[c] \in 1 .. MaxFiles /\ files[file[c]] # None /\ file[c] # path
      /\ pc[c] = "rename" => files[file[c]] \in Values
      /\ \A d \in Callers : d # c /\ (pc[d] \in Writing \/ pc[d] = "read") => file[d] # file[c]
  BY DEF Private, Fits, Writing
<1>3. TypeOK'
  <2>1. pc' \in [Callers -> Steps \cup {None}]
    BY DEF TypeOK, Goto, Steps, Writing
  <2>2. path' \in 0 .. MaxFiles /\ (path' # 0 => files[path'] # None) /\ path' \notin temporaries'
    BY <1>2 DEF TypeOK
  <2>3. QED
    BY <2>1, <2>2 DEF TypeOK
<1>4. Whole'
  BY <1>2 DEF Whole
<1>5. Private'
  <2> SUFFICES ASSUME NEW e \in Callers, pc'[e] \in Writing
               PROVE
                 /\ file[e] \in 1 .. MaxFiles /\ files[file[e]] # None /\ file[e] # path'
                 /\ pc'[e] = "rename" => files[file[e]] = op[e][2]
                 /\ \A d \in Callers : d # e /\ (pc'[d] \in Writing \/ pc'[d] = "read") => file[d] # file[e]
    BY DEF Private
  <2>1. \A d \in Callers : pc'[d] \in Writing \/ pc'[d] = "read" => pc[d] \in Writing \/ pc[d] = "read"
    BY <1>1 DEF Steps, Writing
  <2>2. CASE e = c
    BY <1>1, <1>2, <2>1, <2>2 DEF Steps, Writing
  <2>3. CASE e # c
    <3>1. pc'[e] = pc[e] /\ pc[e] \in Writing
      BY <1>1, <2>3
    <3>2. file[e] # path'
      BY <1>2, <2>3, <3>1 DEF Private
    <3>3. QED
      BY <2>1, <3>1, <3>2 DEF Private
  <2>4. QED
    BY <2>2, <2>3
<1>6. Compared'
  <2>1. step # "read"
    BY DEF Steps
  <2>2. QED
    BY <1>1, <2>1 DEF Compared
<1>7. Fits'
  BY <1>1 DEF Fits, Steps, Writing
<1>8. Held'
  <2> SUFFICES ASSUME NEW e \in Callers
               PROVE
                 /\ pc'[e] \in Writing => file[e] \in temporaries'
                 /\ pc'[e] = "write" => files[file[e]] = "part"
                 /\ pc'[e] = "read" => file[e] \notin temporaries'
    BY DEF Held
  <2>1. CASE e = c
    BY <1>1, <2>1 DEF Held, Steps, Writing
  <2>2. CASE e # c
    BY <1>1, <1>2, <2>2 DEF Held
  <2>3. QED
    BY <2>1, <2>2
<1>9. QED
  BY <1>3, <1>4, <1>5, <1>6, <1>7, <1>8

LEMMA PutInv ==
  ASSUME IInv, NEW c \in Callers, Rename(c) \/ PutFails(c) \/ Cleanup(c)
  PROVE  IInv'
<1>1. CASE Rename(c)
  BY <1>1, WriterInv DEF Rename, Writing
<1>2. CASE PutFails(c)
  <2>1. file[c] # path
    BY <1>2 DEF IInv, Private, PutFails, Writing
  <2>2. QED
    BY <1>2, <2>1, WriterInv DEF PutFails, Writing, disk
<1>3. CASE Cleanup(c)
  <2>1. file[c] # path /\ pc[c] \in Writing
    BY <1>3 DEF IInv, Private, Cleanup, Writing
  <2>2. /\ Goto(c, None) /\ UNCHANGED <<files, path, op, file, got, seen>>
        /\ temporaries' \in {temporaries, temporaries \ {file[c]}}
    BY <1>3 DEF Cleanup
  <2>3. None # "cleanup"
    BY ObjectStoreAssumption DEF Steps, Writing
  <2>4. QED
    BY <2>1, <2>2, <2>3, WriterInv
<1>4. QED
  BY <1>1, <1>2, <1>3

LEMMA FindInv == ASSUME IInv, NEW c \in Callers, Find(c) PROVE IInv'
<1> USE ObjectStoreAssumption
<1>0. /\ pc[c] = "find" /\ UNCHANGED <<disk, closed, op, file, got, seen>>
      /\ op[c] \in {"get", "delete"} \X {None} /\ got[c] = None
  BY DEF Find, IInv, Fits, Steps, Writing
<1>1. PICK step \in {"done", "open", "remove"} :
        /\ Goto(c, step)
        /\ step = "open" => op[c] = <<"get", None>>
        /\ step = "remove" => op[c] = <<"delete", None>>
  BY <1>0 DEF Find
<1>2. QED
  BY <1>0, <1>1, MoveInv DEF IInv, TypeOK, Steps, Writing

LEMMA OpenInv == ASSUME IInv, NEW c \in Callers, Open(c) PROVE IInv'
<1> USE ObjectStoreAssumption
<1>0. /\ pc[c] = "open" /\ UNCHANGED <<disk, closed, op, got, seen>>
      /\ file' = [file EXCEPT ![c] = path]
      /\ op[c] = <<"get", None>> /\ got[c] = None
  BY DEF Open, IInv, Fits, Steps, Writing
<1>1. PICK step \in {"done", "compare"} : Goto(c, step)
  BY DEF Open
<1>2. file' \in [Callers -> 0 .. MaxFiles] /\ \A d \in Callers \ {c} : file'[d] = file[d]
  BY <1>0 DEF IInv, TypeOK
<1>3. QED
  BY <1>0, <1>1, <1>2, MoveInv DEF IInv, TypeOK, Steps, Writing

LEMMA CompareInv == ASSUME IInv, NEW c \in Callers, Compare(c) PROVE IInv'
<1> USE ObjectStoreAssumption
<1> DEFINE s == IF path = 0 THEN None ELSE files[path]
<1>0. /\ pc[c] = "compare" /\ UNCHANGED <<disk, closed, op, file, got>>
      /\ UNCHANGED <<files, path, temporaries>>
      /\ seen' = [seen EXCEPT ![c] = s]
      /\ op[c] = <<"get", None>> /\ got[c] = None
  BY DEF Compare, IInv, Fits, Steps, Writing, disk
<1>1. CASE path # 0 /\ path = file[c]
  <2>1. Goto(c, "read")
    BY <1>1 DEF Compare
  <2>2. s = files[path] /\ s \in Values /\ path \in 1 .. MaxFiles
    BY <1>1 DEF IInv, TypeOK, Whole
  <2>3. /\ pc'[c] = "read" /\ seen'[c] = s
        /\ \A d \in Callers \ {c} : pc'[d] = pc[d] /\ seen'[d] = seen[d]
    BY <1>0, <2>1 DEF Goto, IInv, TypeOK
  <2> HIDE DEF s
  <2>4. TypeOK'
    BY <1>0, <2>1, <2>2 DEF Goto, IInv, TypeOK, Steps
  <2>5. Whole' /\ Compared' /\ Fits'
    BY <1>0, <1>1, <2>2, <2>3 DEF IInv, Whole, Compared, Fits, Steps, Writing
  <2>6. Private'
    BY <1>0, <1>1, <2>3 DEF IInv, Private, Writing
  <2>7. Held'
    BY <1>0, <1>1, <2>3 DEF IInv, TypeOK, Held, Writing
  <2>8. QED
    BY <2>4, <2>5, <2>6, <2>7 DEF IInv
<1>2. CASE ~(path # 0 /\ path = file[c])
  <2>1. PICK step \in {"done", None} : Goto(c, step)
    BY <1>2 DEF Compare
  <2>2. s \in Values \cup {"part", None}
    BY DEF IInv, TypeOK, Whole
  <2>3. seen' \in [Callers -> Values \cup {"part", None}] /\ \A d \in Callers \ {c} : seen'[d] = seen[d]
    BY <1>0, <2>2 DEF IInv, TypeOK
  <2>4. QED
    BY <1>0, <2>1, <2>3, MoveInv DEF IInv, TypeOK, Steps, Writing
<1>3. QED
  BY <1>1, <1>2

LEMMA ReadInv == ASSUME IInv, NEW c \in Callers, Read(c) PROVE IInv'
<1> USE ObjectStoreAssumption
<1>0. /\ pc[c] = "read" /\ UNCHANGED <<disk, closed, op, file, seen>>
      /\ got' = [got EXCEPT ![c] = files[file[c]]] /\ Goto(c, "done")
  BY DEF Read
<1>1. files[file[c]] \in Values
  BY <1>0 DEF IInv, Compared
<1>2. /\ got' \in [Callers -> Values \cup {"part", None}]
      /\ \A d \in Callers \ {c} : got'[d] = got[d]
  BY <1>0, <1>1 DEF IInv, TypeOK
<1>3. QED
  BY <1>0, <1>2, MoveInv DEF IInv, TypeOK, Steps, Writing

LEMMA RemoveInv == ASSUME IInv, NEW c \in Callers, Remove(c) PROVE IInv'
<1> USE ObjectStoreAssumption
<1> USE DEF IInv
<1>0. /\ pc[c] = "remove" /\ path' = 0 /\ Goto(c, "done")
      /\ UNCHANGED <<files, temporaries, closed, op, file, got, seen>>
  BY DEF Remove
<1>1. pc'[c] = "done" /\ \A d \in Callers \ {c} : pc'[d] = pc[d]
  BY <1>0 DEF Goto, TypeOK
<1>2. TypeOK'
  BY <1>0 DEF TypeOK, Goto, Steps
<1>3. Whole' /\ Compared'
  BY <1>0, <1>1 DEF Whole, Compared
<1>4. Private'
  BY <1>0, <1>1 DEF Private, Writing, TypeOK
<1>5. Fits'
  BY <1>0, <1>1 DEF Fits, Steps, Writing
<1>6. Held'
  BY <1>0, <1>1 DEF Held, Steps, Writing
<1>7. QED
  BY <1>2, <1>3, <1>4, <1>5, <1>6

\* Return, Fail and Die.
LEMMA EndInv == ASSUME IInv, NEW c \in Callers, Return(c) \/ Fail(c) \/ Die(c) PROVE IInv'
<1> USE ObjectStoreAssumption
<1>0. /\ Goto(c, None) /\ UNCHANGED <<disk, closed, op, file, got, seen>>
  BY DEF Return, Fail, Die, Writing
<1>1. CASE pc[c] \in Writing
  <2>1. file[c] # path
    BY <1>1 DEF IInv, Private
  <2>2. QED
    BY <1>0, <1>1, <2>1, WriterInv DEF disk
<1>2. CASE pc[c] \notin Writing
  <2>1. /\ op' \in [Callers -> Operations] /\ file' \in [Callers -> 0 .. MaxFiles]
        /\ got' \in [Callers -> Values \cup {"part", None}]
        /\ seen' \in [Callers -> Values \cup {"part", None}]
    BY <1>0 DEF IInv, TypeOK
  <2>2. None \notin Steps
    OBVIOUS
  <2>3. None \notin {"create", "find", "open", "compare", "remove"}
    BY <2>2 DEF Steps
  <2>4. QED
    BY <1>0, <1>2, <2>1, <2>2, <2>3, MoveInv
<1>3. QED
  BY <1>1, <1>2

LEMMA StutterInv == ASSUME IInv, UNCHANGED vars \/ Close PROVE IInv'
<1>1. UNCHANGED <<files, path, temporaries, pc, op, file, got, seen>>
  BY DEF vars, disk, Close
<1>2. QED
  BY <1>1 DEF IInv, TypeOK, Whole, Private, Compared, Fits, Held

LEMMA NextIInv == ASSUME IInv, [Next]_vars PROVE IInv'
<1>1. ASSUME NEW c \in Callers, Step(c) PROVE IInv'
  BY <1>1, StartInv, CreateInv, WriteInv, PutInv, FindInv, OpenInv, CompareInv, ReadInv,
     RemoveInv, EndInv DEF Step
<1>2. QED
  BY <1>1, StutterInv DEF Next

\* The types hold, for every number of callers, values and files.
THEOREM TypeCorrect == Spec => []TypeOK
<1>1. IInv /\ [Next]_vars => IInv'
  BY NextIInv
<1>2. IInv => TypeOK
  BY DEF IInv
<1>3. QED
  BY <1>1, <1>2, InitIInv, PTL DEF Spec

\* No put of putLocalObject loses its temporary to another caller, shares it or publishes
\* another's, and no get serves one, however many failed and dead writers have left theirs.
THEOREM TemporariesStayPrivate == Spec => []TemporariesArePrivate
<1>1. IInv /\ [Next]_vars => IInv'
  BY NextIInv
<1>2. IInv => TemporariesArePrivate
  BY DEF IInv, Private, Held, TemporariesArePrivate, Writing
<1>3. QED
  BY <1>1, <1>2, InitIInv, PTL DEF Spec

-----------------------------------------------------------------------------
(* The refinement *)

\* Only c's call and answer may change in a step that leaves the other callers alone.
LEMMA OthersStay ==
  ASSUME NEW c \in Callers,
         \A d \in Callers \ {c} :
           pc'[d] = pc[d] /\ op'[d] = op[d] /\ got'[d] = got[d] /\ seen'[d] = seen[d]
  PROVE  /\ MapCall' = [MapCall EXCEPT ![c] = CallAt(c)']
         /\ MapAnswer' = [MapAnswer EXCEPT ![c] = AnswerAt(c)']
<1>1. \A d \in Callers \ {c} : CallAt(d)' = CallAt(d) /\ AnswerAt(d)' = AnswerAt(d)
  BY DEF CallAt, AnswerAt
<1>2. QED
  BY <1>1 DEF MapCall, MapAnswer

\* A file that a step does not touch keeps the object.
LEMMA ObjectStays ==
  ASSUME path' = path, path # 0 => files'[path] = files[path]
  PROVE  MapObject' = MapObject
BY DEF MapObject

\* What the map has of a caller, by its step.
LEMMA CallIs ==
  ASSUME NEW c \in Callers
  PROVE  /\ pc[c] = None => CallAt(c) = <<"idle", None>> /\ AnswerAt(c) = got[c]
         /\ pc[c] = "done" => CallAt(c) = <<"done", None>> /\ AnswerAt(c) = got[c]
         /\ pc[c] = "read" => CallAt(c) = <<"done", None>> /\ AnswerAt(c) = seen[c]
         /\ pc[c] \in Steps \ {"read", "done"} => CallAt(c) = op[c] /\ AnswerAt(c) = got[c]
<1>1. None \notin Steps /\ {"read", "done"} \subseteq Steps
  BY ObjectStoreAssumption DEF Steps
<1>2. None # "read" /\ None # "done"
  BY <1>1
<1>3. QED
  BY <1>1, <1>2 DEF CallAt, AnswerAt

LEMMA InitMap == Init => Map!Init
<1> SUFFICES ASSUME Init PROVE Map!Init
  OBVIOUS
<1>1. MapObject = None
  BY DEF Init, MapObject
<1>2. \A c \in Callers : CallAt(c) = <<"idle", None>> /\ AnswerAt(c) = None
  BY CallIs DEF Init
<1>3. QED
  BY <1>1, <1>2 DEF Map!Init, Map!Idle, MapCall, MapAnswer

\* A step of c, by what it does to the object and to c's call and answer.
LEMMA MapSteps ==
  ASSUME NEW c \in Callers,
         \A d \in Callers \ {c} :
           pc'[d] = pc[d] /\ op'[d] = op[d] /\ got'[d] = got[d] /\ seen'[d] = seen[d]
  PROVE
    /\ /\ MapObject' = MapObject /\ CallAt(c)' = CallAt(c) /\ AnswerAt(c)' = AnswerAt(c)
       => UNCHANGED Map!vars
    /\ /\ CallAt(c) = <<"idle", None>> /\ CallAt(c)' \in Operations
       /\ AnswerAt(c)' = None /\ MapObject' = MapObject
       => Map!Call(c)
    /\ /\ \E v \in Values : CallAt(c) = <<"put", v>> /\ MapObject' = v
       /\ CallAt(c)' = <<"done", None>> /\ AnswerAt(c)' = AnswerAt(c)
       => Map!Put(c)
    /\ /\ CallAt(c) = <<"get", None>> /\ CallAt(c)' = <<"done", None>>
       /\ AnswerAt(c)' = MapObject /\ MapObject' = MapObject
       => Map!Get(c)
    /\ /\ CallAt(c) = <<"delete", None>> /\ CallAt(c)' = <<"done", None>>
       /\ MapObject' = None /\ AnswerAt(c)' = AnswerAt(c)
       => Map!Delete(c)
    /\ /\ CallAt(c) # <<"idle", None>> /\ CallAt(c)' = <<"idle", None>>
       /\ MapObject' = MapObject /\ AnswerAt(c)' \in {AnswerAt(c), None}
       => Map!Return(c)
<1>1. /\ MapCall' = [MapCall EXCEPT ![c] = CallAt(c)']
      /\ MapAnswer' = [MapAnswer EXCEPT ![c] = AnswerAt(c)']
  BY OthersStay
<1>2. MapCall[c] = CallAt(c) /\ MapAnswer[c] = AnswerAt(c)
  BY DEF MapCall, MapAnswer
<1>3. /\ CallAt(c)' = CallAt(c) => MapCall' = MapCall
      /\ AnswerAt(c)' = AnswerAt(c) => MapAnswer' = MapAnswer
  BY <1>1, <1>2 DEF MapCall, MapAnswer
<1>4. QED
  BY <1>1, <1>2, <1>3
     DEF Map!vars, Map!Call, Map!Put, Map!Get, Map!Delete, Map!Return, Map!Finish, Map!Idle,
         Map!Done, Map!Operations, Operations

MapStep(c) ==
  \/ Map!Call(c) \/ Map!Put(c) \/ Map!Get(c) \/ Map!Delete(c) \/ Map!Return(c)
  \/ UNCHANGED Map!vars

\* The two ends of a step at which only c moves.
LEMMA Ends ==
  ASSUME IInv, NEW c \in Callers, NEW step \in Steps \cup {None}, Goto(c, step)
  PROVE
    /\ \A d \in Callers \ {c} : pc'[d] = pc[d]
    /\ step = None => CallAt(c)' = <<"idle", None>> /\ AnswerAt(c)' = got'[c]
    /\ step = "done" => CallAt(c)' = <<"done", None>> /\ AnswerAt(c)' = got'[c]
    /\ step = "read" => CallAt(c)' = <<"done", None>> /\ AnswerAt(c)' = seen'[c]
    /\ step \in Steps \ {"read", "done"} => CallAt(c)' = op'[c] /\ AnswerAt(c)' = got'[c]
<1>1. pc'[c] = step /\ \A d \in Callers \ {c} : pc'[d] = pc[d]
  BY DEF Goto, IInv, TypeOK
<1>2. /\ pc'[c] = None => CallAt(c)' = <<"idle", None>> /\ AnswerAt(c)' = got'[c]
      /\ pc'[c] = "done" => CallAt(c)' = <<"done", None>> /\ AnswerAt(c)' = got'[c]
      /\ pc'[c] = "read" => CallAt(c)' = <<"done", None>> /\ AnswerAt(c)' = seen'[c]
      /\ pc'[c] \in Steps \ {"read", "done"} => CallAt(c)' = op'[c] /\ AnswerAt(c)' = got'[c]
  <2>1. None \notin Steps /\ {"read", "done"} \subseteq Steps
    BY ObjectStoreAssumption DEF Steps
  <2>2. None # "read" /\ None # "done"
    BY <2>1
  <2>3. QED
    BY <2>1, <2>2 DEF CallAt, AnswerAt
<1>3. QED
  BY <1>1, <1>2

LEMMA StartMaps == ASSUME IInv, NEW c \in Callers, Start(c) PROVE MapStep(c)
<1>0. /\ pc[c] = None /\ UNCHANGED <<files, path>>
      /\ got' = [got EXCEPT ![c] = None] /\ seen' = [seen EXCEPT ![c] = None]
  BY DEF Start, disk
<1>1. PICK o \in Operations :
        op' = [op EXCEPT ![c] = o] /\ Goto(c, IF o[1] = "put" THEN "create" ELSE "find")
  BY DEF Start
<1>2. PICK step \in {"create", "find"} : Goto(c, step)
  BY <1>1
<1>3. step \in Steps \ {"read", "done"}
  BY <1>2 DEF Steps
<1>4. op'[c] = o /\ got'[c] = None
  BY <1>0, <1>1 DEF IInv, TypeOK
<1>5. \A d \in Callers \ {c} : op'[d] = op[d] /\ got'[d] = got[d] /\ seen'[d] = seen[d]
  BY <1>0, <1>1 DEF IInv, TypeOK
<1>6. \A d \in Callers \ {c} : pc'[d] = pc[d]
  BY <1>2, <1>3, Ends
<1>7. CallAt(c)' = o /\ AnswerAt(c)' = None
  BY <1>2, <1>3, <1>4, Ends
<1>8. CallAt(c) = <<"idle", None>>
  BY <1>0, CallIs
<1>9. MapObject' = MapObject
  BY <1>0 DEF MapObject
<1>10. Map!Call(c)
  BY <1>5, <1>6, <1>7, <1>8, <1>9, MapSteps
<1>11. QED
  BY <1>10 DEF MapStep

\* The steps of a put before its rename, which the map does not see.
LEMMA PutMaps ==
  ASSUME IInv, NEW c \in Callers, Create(c) \/ Write(c) \/ PutFails(c)
  PROVE  MapStep(c)
<1>0. UNCHANGED <<path, op, got, seen>>
  BY DEF Create, Write, PutFails, disk
<1>1. pc[c] \in {"create", "write", "rename"}
  BY DEF Create, Write, PutFails
<1>2. PICK step \in Writing : Goto(c, step)
  BY DEF Create, Write, PutFails, Writing
<1>3. MapObject' = MapObject
  <2> SUFFICES ASSUME path # 0 PROVE files'[path] = files[path]
    BY <1>0, ObjectStays
  <2>1. path \in 1 .. MaxFiles /\ files[path] \in Values
    BY DEF IInv, TypeOK, Whole
  <2>2. CASE Create(c)
    <3>1. PICK f \in 1 .. MaxFiles : files[f] = None /\ files' = [files EXCEPT ![f] = "part"]
      BY <2>2 DEF Create
    <3>2. f # path
      BY <2>1, <3>1, ObjectStoreAssumption
    <3>3. QED
      BY <2>1, <3>1, <3>2 DEF IInv, TypeOK
  <2>3. CASE Write(c)
    <3>1. file[c] # path
      BY <2>3 DEF Write, IInv, Private, Writing
    <3>2. QED
      BY <2>1, <2>3, <3>1 DEF Write, IInv, TypeOK
  <2>4. CASE PutFails(c)
    BY <2>4 DEF PutFails, disk
  <2>5. QED
    BY <2>2, <2>3, <2>4
<1>4. pc[c] \in Steps \ {"read", "done"} /\ step \in Steps \ {"read", "done"}
  BY <1>1 DEF Steps, Writing
<1>5. CallAt(c)' = CallAt(c) /\ AnswerAt(c)' = AnswerAt(c)
  BY <1>0, <1>2, <1>4, CallIs, Ends
<1>6. \A d \in Callers \ {c} : pc'[d] = pc[d]
  BY <1>2, <1>4, Ends
<1>7. UNCHANGED Map!vars
  BY <1>0, <1>3, <1>5, <1>6, MapSteps
<1>8. QED
  BY <1>7 DEF MapStep

LEMMA RenameMaps == ASSUME IInv, NEW c \in Callers, Rename(c) PROVE MapStep(c)
<1>0. /\ pc[c] = "rename" /\ Goto(c, "done") /\ path' = file[c]
      /\ UNCHANGED <<files, op, got, seen>>
  BY DEF Rename
<1>1. file[c] # 0 /\ files[file[c]] = op[c][2] /\ op[c] \in {"put"} \X Values
  BY <1>0 DEF IInv, Private, Fits, TypeOK, Writing
<1>2. MapObject' = op[c][2] /\ op[c] = <<"put", op[c][2]>> /\ op[c][2] \in Values
  BY <1>0, <1>1 DEF MapObject
<1>3. CallAt(c) = op[c] /\ AnswerAt(c) = got[c]
  BY <1>0, CallIs DEF Steps, Writing
<1>4. /\ CallAt(c)' = <<"done", None>> /\ AnswerAt(c)' = got[c]
      /\ \A d \in Callers \ {c} : pc'[d] = pc[d]
  BY <1>0, Ends DEF Steps
<1>5. Map!Put(c)
  BY <1>0, <1>2, <1>3, <1>4, MapSteps
<1>6. QED
  BY <1>5 DEF MapStep

\* The lookup takes effect when the path is missing.
LEMMA FindMaps == ASSUME IInv, NEW c \in Callers, Find(c) PROVE MapStep(c)
<1>0. pc[c] = "find" /\ UNCHANGED <<files, path, op, got, seen>>
  BY DEF Find, disk
<1>1. /\ CallAt(c) = op[c] /\ AnswerAt(c) = got[c] /\ got[c] = None
      /\ op[c] \in {<<"get", None>>, <<"delete", None>>}
  BY <1>0, CallIs DEF IInv, Fits, Steps, Writing
<1>2. MapObject' = MapObject
  BY <1>0 DEF MapObject
<1>3. CASE path = 0
  <2>1. Goto(c, "done") /\ MapObject = None
    BY <1>3 DEF Find, MapObject
  <2>2. /\ CallAt(c)' = <<"done", None>> /\ AnswerAt(c)' = None
        /\ \A d \in Callers \ {c} : pc'[d] = pc[d]
    BY <1>0, <1>1, <2>1, Ends DEF Steps
  <2>3. Map!Get(c) \/ Map!Delete(c)
    BY <1>0, <1>1, <1>2, <2>1, <2>2, MapSteps
  <2>4. QED
    BY <2>3 DEF MapStep
<1>4. CASE path # 0
  <2>1. PICK step \in {"open", "remove"} : Goto(c, step)
    BY <1>4 DEF Find
  <2>2. step \in Steps \ {"read", "done"}
    BY DEF Steps
  <2>3. /\ CallAt(c)' = CallAt(c) /\ AnswerAt(c)' = AnswerAt(c)
        /\ \A d \in Callers \ {c} : pc'[d] = pc[d]
    BY <1>0, <1>1, <2>1, <2>2, Ends
  <2>4. UNCHANGED Map!vars
    BY <1>0, <1>2, <2>3, MapSteps
  <2>5. QED
    BY <2>4 DEF MapStep
<1>5. QED
  BY <1>3, <1>4

LEMMA OpenMaps == ASSUME IInv, NEW c \in Callers, Open(c) PROVE MapStep(c)
<1>0. pc[c] = "open" /\ UNCHANGED <<files, path, op, got, seen>>
  BY DEF Open, disk
<1>1. CallAt(c) = <<"get", None>> /\ op[c] = <<"get", None>> /\ AnswerAt(c) = got[c] /\ got[c] = None
  BY <1>0, CallIs DEF IInv, Fits, Steps, Writing
<1>2. MapObject' = MapObject
  BY <1>0 DEF MapObject
<1>3. CASE path = 0
  <2>1. Goto(c, "done") /\ MapObject = None
    BY <1>3 DEF Open, MapObject
  <2>2. /\ CallAt(c)' = <<"done", None>> /\ AnswerAt(c)' = None
        /\ \A d \in Callers \ {c} : pc'[d] = pc[d]
    BY <1>0, <1>1, <2>1, Ends DEF Steps
  <2>3. Map!Get(c)
    BY <1>0, <1>1, <1>2, <2>1, <2>2, MapSteps
  <2>4. QED
    BY <2>3 DEF MapStep
<1>4. CASE path # 0
  <2>1. Goto(c, "compare") /\ "compare" \in Steps \ {"read", "done"}
    BY <1>4 DEF Open, Steps
  <2>2. /\ CallAt(c)' = CallAt(c) /\ AnswerAt(c)' = AnswerAt(c)
        /\ \A d \in Callers \ {c} : pc'[d] = pc[d]
    BY <1>0, <1>1, <2>1, Ends
  <2>3. UNCHANGED Map!vars
    BY <1>0, <1>2, <2>2, MapSteps
  <2>4. QED
    BY <2>3 DEF MapStep
<1>5. QED
  BY <1>3, <1>4

\* The get takes effect here: what the key names now is what will be read.
LEMMA CompareMaps == ASSUME IInv, NEW c \in Callers, Compare(c) PROVE MapStep(c)
<1>0. /\ pc[c] = "compare" /\ UNCHANGED <<files, path, op, file, got>>
      /\ seen' = [seen EXCEPT ![c] = IF path = 0 THEN None ELSE files[path]]
  BY DEF Compare, disk
<1>1. CallAt(c) = <<"get", None>> /\ AnswerAt(c) = got[c] /\ got[c] = None
  BY <1>0, CallIs DEF IInv, Fits, Steps, Writing
<1>2. MapObject' = MapObject
  BY <1>0 DEF MapObject
<1>3. seen'[c] = MapObject /\ \A d \in Callers \ {c} : seen'[d] = seen[d]
  BY <1>0 DEF IInv, TypeOK, MapObject
<1>4. CASE path = 0 /\ Goto(c, "done")
  <2>1. MapObject = None
    BY <1>4 DEF MapObject
  <2>2. /\ CallAt(c)' = <<"done", None>> /\ AnswerAt(c)' = None
        /\ \A d \in Callers \ {c} : pc'[d] = pc[d]
    BY <1>0, <1>1, <1>4, Ends DEF Steps
  <2>3. Map!Get(c)
    BY <1>0, <1>1, <1>2, <1>3, <2>1, <2>2, MapSteps
  <2>4. QED
    BY <2>3 DEF MapStep
<1>5. CASE Goto(c, "read")
  <2>1. /\ CallAt(c)' = <<"done", None>> /\ AnswerAt(c)' = MapObject
        /\ \A d \in Callers \ {c} : pc'[d] = pc[d]
    BY <1>3, <1>5, Ends DEF Steps
  <2>2. Map!Get(c)
    BY <1>0, <1>1, <1>2, <1>3, <2>1, MapSteps
  <2>3. QED
    BY <2>2 DEF MapStep
<1>6. CASE Goto(c, None)
  <2>1. /\ CallAt(c)' = <<"idle", None>> /\ AnswerAt(c)' = got[c]
        /\ \A d \in Callers \ {c} : pc'[d] = pc[d]
    BY <1>0, <1>6, Ends
  <2>2. Map!Return(c)
    BY <1>0, <1>1, <1>2, <1>3, <2>1, MapSteps
  <2>3. QED
    BY <2>2 DEF MapStep
<1>7. QED
  BY <1>4, <1>5, <1>6 DEF Compare

LEMMA ReadMaps == ASSUME IInv, NEW c \in Callers, Read(c) PROVE MapStep(c)
<1>0. /\ pc[c] = "read" /\ Goto(c, "done") /\ UNCHANGED <<files, path, op, seen>>
      /\ got' = [got EXCEPT ![c] = files[file[c]]]
  BY DEF Read, disk
<1>1. got'[c] = seen[c] /\ \A d \in Callers \ {c} : got'[d] = got[d]
  BY <1>0 DEF IInv, TypeOK, Compared
<1>2. CallAt(c) = <<"done", None>> /\ AnswerAt(c) = seen[c]
  BY <1>0, CallIs
<1>3. /\ CallAt(c)' = <<"done", None>> /\ AnswerAt(c)' = got'[c]
      /\ \A d \in Callers \ {c} : pc'[d] = pc[d]
  BY <1>0, Ends DEF Steps
<1>4. MapObject' = MapObject
  BY <1>0 DEF MapObject
<1>5. UNCHANGED Map!vars
  BY <1>0, <1>1, <1>2, <1>3, <1>4, MapSteps
<1>6. QED
  BY <1>5 DEF MapStep

LEMMA RemoveMaps == ASSUME IInv, NEW c \in Callers, Remove(c) PROVE MapStep(c)
<1>0. pc[c] = "remove" /\ Goto(c, "done") /\ path' = 0 /\ UNCHANGED <<op, got, seen>>
  BY DEF Remove
<1>1. CallAt(c) = <<"delete", None>> /\ AnswerAt(c) = got[c]
  BY <1>0, CallIs DEF IInv, Fits, Steps, Writing
<1>2. /\ CallAt(c)' = <<"done", None>> /\ AnswerAt(c)' = got[c]
      /\ \A d \in Callers \ {c} : pc'[d] = pc[d]
  BY <1>0, Ends DEF Steps
<1>3. MapObject' = None
  BY <1>0 DEF MapObject
<1>4. Map!Delete(c)
  BY <1>0, <1>1, <1>2, <1>3, MapSteps
<1>5. QED
  BY <1>4 DEF MapStep

\* A failure and a death before the answer leave none.
LEMMA EndMaps ==
  ASSUME IInv, NEW c \in Callers, Cleanup(c) \/ Return(c) \/ Fail(c) \/ Die(c)
  PROVE  MapStep(c)
<1>0. Goto(c, None) /\ UNCHANGED <<files, path, op, got, seen>>
  BY DEF Cleanup, Return, Fail, Die, disk
<1>1. None \notin Steps
  BY ObjectStoreAssumption
<1>2. pc[c] \in Steps
  <2>1. pc[c] # None
    BY <1>1 DEF Cleanup, Return, Fail, Die, Steps, Writing
  <2>2. QED
    BY <2>1 DEF IInv, TypeOK
<1>3. /\ CallAt(c)' = <<"idle", None>> /\ AnswerAt(c)' = got[c]
      /\ \A d \in Callers \ {c} : pc'[d] = pc[d]
  BY <1>0, Ends
<1>4. AnswerAt(c) = got[c] \/ got[c] = None
  BY <1>2, CallIs DEF IInv, Fits
<1>5. CallAt(c) # <<"idle", None>>
  <2>1. pc[c] \in {"read", "done"} => CallAt(c) = <<"done", None>>
    BY CallIs
  <2>2. pc[c] \in Steps \ {"read", "done"} => CallAt(c) = op[c] /\ op[c] \in Operations
    BY CallIs DEF IInv, TypeOK
  <2>3. QED
    BY <1>2, <2>1, <2>2 DEF Operations
<1>6. MapObject' = MapObject
  BY <1>0 DEF MapObject
<1>7. Map!Return(c)
  BY <1>0, <1>3, <1>4, <1>5, <1>6, MapSteps
<1>8. QED
  BY <1>7 DEF MapStep

LEMMA NextMaps == ASSUME IInv, [Next]_vars PROVE [Map!Next]_(Map!vars)
<1>1. ASSUME NEW c \in Callers, Step(c) PROVE [Map!Next]_(Map!vars)
  <2>1. MapStep(c)
    BY <1>1, StartMaps, PutMaps, RenameMaps, FindMaps, OpenMaps, CompareMaps, ReadMaps,
       RemoveMaps, EndMaps DEF Step
  <2>2. QED
    BY <2>1 DEF MapStep, Map!Next
<1>2. CASE Close \/ UNCHANGED vars
  <2>1. UNCHANGED <<files, path, pc, op, got, seen>>
    BY <1>2 DEF Close, vars, disk
  <2>2. \A c \in Callers : CallAt(c)' = CallAt(c) /\ AnswerAt(c)' = AnswerAt(c)
    BY <2>1 DEF CallAt, AnswerAt
  <2>3. UNCHANGED <<MapObject, MapCall, MapAnswer>>
    BY <2>1, <2>2 DEF MapObject, MapCall, MapAnswer
  <2>4. QED
    BY <2>3 DEF Map!vars
<1>3. QED
  BY <1>1, <1>2 DEF Next

\* putLocalObject, getLocalObject and deleteLocalObject implement the atomic map of one key:
\* every answer is that of a put, a get or a delete at one moment of its call.
THEOREM Implementation == Spec => AtomicObjects
<1>1. IInv /\ [Next]_vars => IInv'
  BY NextIInv
<1>2. IInv /\ [Next]_vars => [Map!Next]_(Map!vars)
  BY NextMaps
<1>3. QED
  BY <1>1, <1>2, InitIInv, InitMap, PTL DEF Spec, AtomicObjects, Map!Spec
-----------------------------------------------------------------------------
(* The inductive invariant of the cloud accounts *)

UnderWay(r) == r.pc \in {"begun", "locked", "updated"}

\* The time of a transaction under way is the version of nothing yet, and its own.
Fresh(c, r) ==
  /\ r.began <= time
  /\ \A v \in versions : v[2].updatedAt # r.began
  /\ \A d \in Clients \ {c} : UnderWay(request[d]) => request[d].began # r.began

\* The version a patch expects is that of the row its client has read.
Expects(c, r) ==
  r.kind = "patch" =>
    rowsSeen[c][r.account] # NoAccount /\ r.expected = rowsSeen[c][r.account].updatedAt

\* What a transaction that holds the tenant's row is about to commit.
Pending(c, r) ==
  LET row == account[r.account] IN
  r.pc = "updated" =>
    /\ row # NoAccount /\ r.row \in Account
    /\ r.kind = "patch" =>
         row = rowsSeen[c][r.account] /\ r.row.active = row.active /\ r.row.updatedAt = r.began
    /\ r.kind = "deactivate" =>
         /\ ~r.row.active /\ r.row.ref = row.ref /\ r.row.label = row.label
         /\ r.row.updatedAt = r.began \/ r.row = row

RequestOK(c, r) ==
  UnderWay(r) => /\ Fresh(c, r) /\ Expects(c, r) /\ Pending(c, r)
                 /\ r.pc \in {"locked", "updated"} => tenantRow = c

\* Every row that is there or was read was committed, at a time that has passed.
Committed ==
  /\ \A a \in Accounts : account[a] # NoAccount => <<a, account[a]>> \in versions
  /\ \A c \in Clients, a \in Accounts :
       rowsSeen[c][a] # NoAccount => <<a, rowsSeen[c][a]>> \in versions
  /\ \A v \in versions : v[2].updatedAt <= time

AccountsInv ==
  /\ AccountsTypeOK /\ VersionNamesContent /\ Committed
  /\ \A c \in Clients : RequestOK(c, request[c])

LEMMA NothingAskedType == NothingAsked \in Request
<1>1. PICK a \in Accounts : a = CHOOSE b \in Accounts : TRUE
  BY CloudAccountsAssumption
<1>2. NothingAsked = [kind |-> "patch", pc |-> "idle", account |-> a, began |-> 0, expected |-> 0,
                      ref |-> Absent, label |-> Absent, row |-> NoAccount, answer |-> "none"]
  BY <1>1 DEF NothingAsked
<1>3. 0 \in 0 .. LastTime
  BY CloudAccountsAssumption
<1> QED  BY <1>2, <1>3 DEF Request

LEMMA AccountsInitInv == AccountsInit => AccountsInv
<1> SUFFICES ASSUME AccountsInit PROVE AccountsInv
  OBVIOUS
<1>1. \A c \in Clients : request[c] = NothingAsked /\ ~UnderWay(request[c])
  BY DEF AccountsInit, NothingAsked, UnderWay
<1>2. \A c \in Clients : request[c] \in Request
  BY <1>1, NothingAskedType
<1>3. AccountsTypeOK
  BY <1>2, CloudAccountsAssumption DEF AccountsInit, AccountsTypeOK
<1>4. VersionNamesContent /\ Committed
  BY DEF AccountsInit, VersionNamesContent, Committed
<1> QED  BY <1>1, <1>3, <1>4 DEF AccountsInv, RequestOK

\* A request goes on, and everything committed stays as it is.
LEMMA RequestMoves ==
  ASSUME AccountsInv, NEW c \in Clients, NEW new \in Request,
         request' = [request EXCEPT ![c] = new],
         UNCHANGED <<account, versions, rowsSeen>>,
         time' \in 0 .. LastTime, time <= time',
         tenantRow' \in Clients \cup {NoClient},
         \A d \in Clients \ {c} : tenantRow = d => tenantRow' = d,
         RequestOK(c, new)',
         UnderWay(new) => \A d \in Clients \ {c} : UnderWay(request[d]) => request[d].began # new.began
  PROVE  AccountsInv'
<1>1. request'[c] = new /\ request' \in [Clients -> Request]
      /\ \A d \in Clients \ {c} : request'[d] = request[d]
  BY DEF AccountsInv, AccountsTypeOK
<1>2. AccountsTypeOK' /\ VersionNamesContent'
  BY <1>1 DEF AccountsInv, AccountsTypeOK, VersionNamesContent
<1>3. Committed'
  <2>1. \A v \in versions : v[2].updatedAt \in Nat
    BY CloudAccountsAssumption DEF AccountsInv, AccountsTypeOK, Account
  <2>2. time \in Nat /\ time' \in Nat
    BY CloudAccountsAssumption DEF AccountsInv, AccountsTypeOK
  <2> QED  BY <2>1, <2>2 DEF AccountsInv, Committed
<1>4. ASSUME NEW d \in Clients, d # c PROVE RequestOK(d, request[d])'
  <2>1. PICK r \in Request : r = request[d]
    BY DEF AccountsInv, AccountsTypeOK
  <2>2. request'[d] = r /\ RequestOK(d, r)
    BY <1>1, <1>4, <2>1 DEF AccountsInv
  <2> SUFFICES ASSUME UnderWay(r) PROVE RequestOK(d, r)'
    BY <2>2 DEF RequestOK
  <2>3. Fresh(d, r)'
    <3>1. r.began <= time'
      <4>1. r.began \in Nat /\ time \in Nat /\ time' \in Nat
        <5>1. LastTime \in Nat
          BY CloudAccountsAssumption
        <5>2. r.began \in 0 .. LastTime /\ time \in 0 .. LastTime
          BY DEF AccountsInv, AccountsTypeOK, Request
        <5> QED  BY <5>1, <5>2
      <4> QED  BY <2>2, <4>1 DEF RequestOK, Fresh
    <3>2. ASSUME NEW f \in Clients \ {d}, UnderWay(request'[f]) PROVE request'[f].began # r.began
      <4>1. CASE f = c
        BY <1>1, <1>4, <2>1, <3>2, <4>1
      <4>2. CASE f # c
        BY <1>1, <2>2, <3>2, <4>2 DEF RequestOK, Fresh
      <4> QED  BY <4>1, <4>2
    <3> QED  BY <2>2, <3>1, <3>2 DEF RequestOK, Fresh
  <2>4. Expects(d, r)' /\ Pending(d, r)'
    BY <2>2 DEF RequestOK, Expects, Pending
  <2>5. r.pc \in {"locked", "updated"} => tenantRow' = d
    BY <1>4, <2>2 DEF RequestOK
  <2> QED  BY <2>3, <2>4, <2>5 DEF RequestOK
<1>5. \A d \in Clients : RequestOK(d, request[d])'
  <2>1. RequestOK(c, request[c])'
    BY <1>1 DEF RequestOK, Fresh, Expects, Pending
  <2> QED  BY <1>4, <2>1
<1> QED  BY <1>2, <1>3, <1>5 DEF AccountsInv

Said == {"none", "updated", "not_found", "version_conflict", "conflict", "unavailable"}

\* What the end of a request leaves.
LEMMA AnsweredStep ==
  ASSUME AccountsInv, NEW c \in Clients, NEW said \in Said, End(c, said)
  PROVE  \E new \in Request :
           /\ request' = [request EXCEPT ![c] = new] /\ ~UnderWay(new)
           /\ tenantRow' \in Clients \cup {NoClient}
           /\ \A d \in Clients \ {c} : tenantRow = d => tenantRow' = d
<1>1. PICK new \in Request : new = [NothingAsked EXCEPT !.pc = "answered", !.answer = said]
  BY NothingAskedType DEF Said, Request
<1>2. request' = [request EXCEPT ![c] = new]
  BY <1>1 DEF End
<1>3. ~UnderWay(new)
  BY <1>1, NothingAskedType DEF UnderWay, Request
<1>4. tenantRow' \in Clients \cup {NoClient} /\ \A d \in Clients \ {c} : tenantRow = d => tenantRow' = d
  BY DEF End, AccountsInv, AccountsTypeOK
<1> QED  BY <1>2, <1>3, <1>4

LEMMA AnsweredInv ==
  ASSUME AccountsInv, NEW c \in Clients, NEW said \in Said, End(c, said),
         UNCHANGED <<account, time, rowsSeen, versions>>
  PROVE  AccountsInv'
<1>1. PICK new : /\ new \in Request /\ ~UnderWay(new)
                 /\ request' = [request EXCEPT ![c] = new]
                 /\ tenantRow' \in Clients \cup {NoClient}
                 /\ \A d \in Clients \ {c} : tenantRow = d => tenantRow' = d
  BY AnsweredStep
<1>2. RequestOK(c, new)'
  BY <1>1 DEF RequestOK
<1>3. time' \in 0 .. LastTime /\ time <= time'
  <2>1. time \in 0 .. LastTime /\ LastTime \in Nat
    BY CloudAccountsAssumption DEF AccountsInv, AccountsTypeOK
  <2> QED  BY <2>1
<1>4. UNCHANGED <<account, versions, rowsSeen>>
  OBVIOUS
<1> QED  BY <1>1, <1>2, <1>3, <1>4, RequestMoves

LEMMA BeginInv ==
  ASSUME AccountsInv, NEW c \in Clients, NEW a \in Accounts, NEW kind \in {"patch", "deactivate"},
         NEW ref \in Refs \cup {Absent}, NEW label \in Labels \cup {Absent},
         Begin(c, a, kind, ref, label)
  PROVE  AccountsInv'
<1>1. /\ time \in 0 .. LastTime /\ LastTime \in Nat
      /\ rowsSeen \in [Clients -> [Accounts -> Account \cup {NoAccount}]]
      /\ \A v \in versions : v[2].updatedAt \in 0 .. LastTime
      /\ \A d \in Clients : request[d].began \in 0 .. LastTime
  BY CloudAccountsAssumption DEF AccountsInv, AccountsTypeOK, Account, Request
<1>2. time < LastTime /\ time' = time + 1 /\ rowsSeen[c][a] # NoAccount
      /\ UNCHANGED <<account, tenantRow, rowsSeen, versions>>
  BY DEF Begin
<1>3. rowsSeen[c][a].updatedAt \in 0 .. LastTime /\ time' \in 0 .. LastTime /\ time <= time'
  <2>1. rowsSeen[c][a].updatedAt \in 0 .. LastTime
    BY <1>1, <1>2 DEF Account
  <2> QED  BY <1>1, <1>2, <2>1
<1>4. PICK new \in Request :
        new = [NothingAsked EXCEPT
           !.kind = kind, !.pc = "begun", !.account = a, !.began = time',
           !.expected = rowsSeen[c][a].updatedAt, !.ref = ref, !.label = label]
  <2>1. PICK expected \in 0 .. LastTime : expected = rowsSeen[c][a].updatedAt
    BY <1>3
  <2>2. PICK now \in 0 .. LastTime : now = time'
    BY <1>3
  <2>3. [NothingAsked EXCEPT
           !.kind = kind, !.pc = "begun", !.account = a, !.began = now,
           !.expected = expected, !.ref = ref, !.label = label] \in Request
    BY NothingAskedType DEF Request
  <2> QED  BY <2>1, <2>2, <2>3
<1>5. /\ new.kind = kind /\ new.pc = "begun" /\ new.account = a /\ new.began = time'
      /\ new.expected = rowsSeen[c][a].updatedAt
  BY <1>4, NothingAskedType DEF Request
<1>6. request' = [request EXCEPT ![c] = new]
  BY <1>4 DEF Begin
<1>7. \A d \in Clients \ {c} : UnderWay(request[d]) => request[d].began # new.began
  <2> SUFFICES ASSUME NEW d \in Clients, UnderWay(request[d]) PROVE request[d].began # new.began
    OBVIOUS
  <2>1. request[d].began <= time
    BY DEF AccountsInv, RequestOK, Fresh
  <2> QED  BY <1>1, <1>2, <1>5, <2>1
<1>8. RequestOK(c, new)'
  <2>1. \A v \in versions : v[2].updatedAt # new.began
    <3> SUFFICES ASSUME NEW v \in versions PROVE v[2].updatedAt # new.began
      OBVIOUS
    <3>1. v[2].updatedAt <= time
      BY DEF AccountsInv, Committed
    <3> QED  BY <1>1, <1>2, <1>5, <3>1
  <2>2. \A d \in Clients \ {c} : request'[d] = request[d]
    BY <1>6 DEF AccountsInv, AccountsTypeOK
  <2>3. new.began <= time'
    BY <1>1, <1>2, <1>5
  <2>4. Fresh(c, new)'
    BY <1>2, <1>7, <2>1, <2>2, <2>3 DEF Fresh
  <2>5. Expects(c, new)' /\ Pending(c, new)'
    BY <1>2, <1>5 DEF Expects, Pending
  <2> QED  BY <1>5, <2>4, <2>5 DEF RequestOK
<1>9. /\ tenantRow' \in Clients \cup {NoClient}
      /\ \A d \in Clients \ {c} : tenantRow = d => tenantRow' = d
  BY <1>2 DEF AccountsInv, AccountsTypeOK
<1> QED  BY <1>2, <1>3, <1>6, <1>7, <1>8, <1>9, RequestMoves

LEMMA LockTenantInv ==
  ASSUME AccountsInv, NEW c \in Clients, LockTenant(c) PROVE AccountsInv'
<1>1. PICK r \in Request : r = request[c]
  BY DEF AccountsInv, AccountsTypeOK
<1>2. r.pc = "begun" /\ tenantRow = NoClient /\ tenantRow' = c /\ UNCHANGED <<account, time, rowsSeen, versions>>
  BY <1>1 DEF LockTenant
<1>3. PICK new \in Request : new = [r EXCEPT !.pc = "locked"]
  BY DEF Request
<1>4. /\ new.pc = "locked" /\ new.kind = r.kind /\ new.account = r.account /\ new.began = r.began
      /\ new.expected = r.expected
  BY <1>3 DEF Request
<1>5. request' = [request EXCEPT ![c] = new]
  BY <1>1, <1>3 DEF LockTenant
<1>6. Fresh(c, r) /\ Expects(c, r)
  BY <1>1, <1>2 DEF AccountsInv, RequestOK, UnderWay
<1>7. RequestOK(c, new)'
  <2>1. \A d \in Clients \ {c} : request'[d] = request[d]
    BY <1>5 DEF AccountsInv, AccountsTypeOK
  <2>2. Fresh(c, new)'
    BY <1>2, <1>4, <1>6, <2>1 DEF Fresh
  <2>3. Expects(c, new)' /\ Pending(c, new)'
    BY <1>2, <1>4, <1>6 DEF Expects, Pending
  <2> QED  BY <1>2, <1>4, <2>2, <2>3 DEF RequestOK
<1>8. \A d \in Clients \ {c} : tenantRow # d
  BY <1>2, CloudAccountsAssumption
<1>9. time' \in 0 .. LastTime /\ time <= time'
  <2>1. time \in 0 .. LastTime /\ LastTime \in Nat
    BY CloudAccountsAssumption DEF AccountsInv, AccountsTypeOK
  <2> QED  BY <1>2, <2>1
<1>10. \A d \in Clients \ {c} : UnderWay(request[d]) => request[d].began # new.began
  BY <1>4, <1>6 DEF Fresh
<1> QED  BY <1>2, <1>5, <1>7, <1>8, <1>9, <1>10, RequestMoves

\* Request r of c is in order once it has written row.
MayWrite(c, r, row) ==
  \A new \in Request :
    /\ new.pc = "updated" /\ new.row = row
    /\ new.kind = r.kind /\ new.account = r.account /\ new.began = r.began
    => Pending(c, new)

\* The holder of the tenant's row prepares the row it will commit.
LEMMA UpdateInv ==
  ASSUME AccountsInv, NEW c \in Clients, NEW row \in Account,
         NEW r \in Request, r = request[c], r.pc = "locked",
         request' = [request EXCEPT ![c] = [@ EXCEPT !.row = row, !.pc = "updated"]],
         UNCHANGED <<account, time, tenantRow, rowsSeen, versions>>,
         MayWrite(c, r, row)
  PROVE  AccountsInv'
<1>1. PICK new \in Request : new = [r EXCEPT !.row = row, !.pc = "updated"]
  BY DEF Request
<1>2. /\ new.pc = "updated" /\ new.kind = r.kind /\ new.account = r.account /\ new.began = r.began
      /\ new.expected = r.expected /\ new.row = row
  BY <1>1 DEF Request
<1>3. request' = [request EXCEPT ![c] = new]
  BY <1>1
<1>4. Fresh(c, r) /\ Expects(c, r) /\ tenantRow = c
  BY DEF AccountsInv, RequestOK, UnderWay
<1>5. Pending(c, new)
  BY <1>2 DEF MayWrite
<1>6. RequestOK(c, new)'
  <2>1. \A d \in Clients \ {c} : request'[d] = request[d]
    BY <1>3 DEF AccountsInv, AccountsTypeOK
  <2>2. Fresh(c, new)'
    BY <1>2, <1>4, <2>1 DEF Fresh
  <2>3. Expects(c, new)'
    BY <1>2, <1>4 DEF Expects
  <2>4. Pending(c, new)'
    BY <1>5 DEF Pending
  <2> QED  BY <1>4, <2>2, <2>3, <2>4 DEF RequestOK
<1>7. time' \in 0 .. LastTime /\ time <= time' /\ tenantRow' \in Clients \cup {NoClient}
  <2>1. time \in 0 .. LastTime /\ LastTime \in Nat
    BY CloudAccountsAssumption DEF AccountsInv, AccountsTypeOK
  <2> QED  BY <1>4, <2>1
<1>8. \A d \in Clients \ {c} : UnderWay(request[d]) => request[d].began # new.began
  BY <1>2, <1>4 DEF Fresh
<1> QED  BY <1>3, <1>6, <1>7, <1>8, RequestMoves

\* The version that is compared names the row the client has read.
LEMMA PatchInv == ASSUME AccountsInv, NEW c \in Clients, Patch(c) PROVE AccountsInv'
<1>1. PICK r \in Request : r = request[c]
  BY DEF AccountsInv, AccountsTypeOK
<1>2. r.pc = "locked" /\ r.kind = "patch" /\ UNCHANGED <<account, time, rowsSeen, versions>>
  BY <1>1 DEF Patch
<1>3. CASE \E said \in Said : End(c, said)
  BY <1>2, <1>3, AnsweredInv
<1>4. CASE /\ account[r.account] # NoAccount /\ account[r.account].updatedAt = r.expected
           /\ request' = [request EXCEPT ![c] = [@ EXCEPT !.row = Changed(c), !.pc = "updated"]]
           /\ UNCHANGED tenantRow
  <2>1. PICK a \in Accounts : a = r.account
    BY DEF Request
  <2>2. PICK old \in Account : old = account[a]
    BY <1>4, <2>1 DEF AccountsInv, AccountsTypeOK
  <2>3. r.began \in 0 .. LastTime /\ r.ref \in Refs \cup {Absent} /\ r.label \in Labels \cup {Absent}
    BY DEF Request
  <2>4. Changed(c) = [old EXCEPT !.ref = IF r.ref = Absent THEN @ ELSE r.ref,
                                 !.label = IF r.label = Absent THEN @ ELSE r.label,
                                 !.updatedAt = r.began]
    BY <1>1, <2>1, <2>2 DEF Changed
  <2>5. PICK row \in Account : row = Changed(c)
    BY <2>3, <2>4 DEF Account
  <2>6. row.active = old.active /\ row.updatedAt = r.began
    BY <2>4, <2>5 DEF Account
  <2>7. account[a] = rowsSeen[c][a]
    <3>1. rowsSeen[c][a] # NoAccount /\ rowsSeen[c][a].updatedAt = r.expected
      BY <1>1, <1>2, <2>1 DEF AccountsInv, RequestOK, UnderWay, Expects
    <3>2. <<a, account[a]>> \in versions /\ <<a, rowsSeen[c][a]>> \in versions
      BY <1>4, <2>1, <3>1 DEF AccountsInv, Committed
    <3>3. <<a, account[a]>> = <<a, rowsSeen[c][a]>>
      BY <1>4, <2>1, <3>1, <3>2 DEF AccountsInv, VersionNamesContent
    <3> QED  BY <3>3
  <2>8. MayWrite(c, r, row)
    <3> SUFFICES ASSUME NEW new \in Request,
                        /\ new.pc = "updated" /\ new.row = row
                        /\ new.kind = r.kind /\ new.account = r.account /\ new.began = r.began
                 PROVE  Pending(c, new)
      BY DEF MayWrite
    <3>1. account[new.account] # NoAccount /\ account[new.account] = rowsSeen[c][new.account]
      BY <1>4, <2>1, <2>7
    <3>2. new.row \in Account /\ new.row.active = account[new.account].active
          /\ new.row.updatedAt = new.began
      BY <2>1, <2>2, <2>6
    <3>3. new.kind = "patch"
      BY <1>2
    <3> QED  BY <3>1, <3>2, <3>3 DEF Pending
  <2>9. request' = [request EXCEPT ![c] = [@ EXCEPT !.row = row, !.pc = "updated"]]
    BY <1>4, <2>5
  <2>10. UNCHANGED <<account, time, tenantRow, rowsSeen, versions>>
    BY <1>2, <1>4
  <2> QED  BY <1>1, <1>2, <2>8, <2>9, <2>10, UpdateInv
<1> QED  BY <1>1, <1>3, <1>4 DEF Patch, Said

LEMMA DeactivateInv == ASSUME AccountsInv, NEW c \in Clients, Deactivate(c) PROVE AccountsInv'
<1>1. PICK r \in Request : r = request[c]
  BY DEF AccountsInv, AccountsTypeOK
<1>2. r.pc = "locked" /\ r.kind = "deactivate" /\ UNCHANGED <<account, time, rowsSeen, versions>>
  BY <1>1 DEF Deactivate
<1>3. PICK a \in Accounts : a = r.account
  BY DEF Request
<1>4. CASE account[a] = NoAccount
  <2>1. End(c, "not_found")
    BY <1>1, <1>3, <1>4 DEF Deactivate
  <2> QED  BY <1>2, <2>1, AnsweredInv DEF Said
<1>5. CASE account[a] # NoAccount
  <2>1. PICK old \in Account : old = account[a]
    BY <1>5 DEF AccountsInv, AccountsTypeOK
  <2>2. r.began \in 0 .. LastTime
    BY DEF Request
  <2>3. PICK row \in Account :
          row = IF old.active THEN [old EXCEPT !.active = FALSE, !.updatedAt = r.began] ELSE old
    BY <2>2 DEF Account
  <2>4. /\ ~row.active /\ row.ref = old.ref /\ row.label = old.label
        /\ row.updatedAt = r.began \/ row = old
    BY <2>3 DEF Account
  <2>5. /\ request' = [request EXCEPT ![c] = [@ EXCEPT !.row = row, !.pc = "updated"]]
        /\ UNCHANGED tenantRow
    BY <1>1, <1>3, <1>5, <2>1, <2>3 DEF Deactivate
  <2>6. MayWrite(c, r, row)
    <3> SUFFICES ASSUME NEW new \in Request,
                        /\ new.pc = "updated" /\ new.row = row
                        /\ new.kind = r.kind /\ new.account = r.account /\ new.began = r.began
                 PROVE  Pending(c, new)
      BY DEF MayWrite
    <3>1. account[new.account] # NoAccount /\ account[new.account] = old
      BY <1>3, <1>5, <2>1
    <3>2. /\ new.row \in Account /\ ~new.row.active
          /\ new.row.ref = old.ref /\ new.row.label = old.label
          /\ new.row.updatedAt = new.began \/ new.row = old
      BY <2>4
    <3>3. new.kind = "deactivate"
      BY <1>2
    <3> QED  BY <3>1, <3>2, <3>3 DEF Pending
  <2> QED  BY <1>1, <1>2, <2>5, <2>6, UpdateInv
<1> QED  BY <1>4, <1>5

LEMMA ListInv == ASSUME AccountsInv, NEW c \in Clients, List(c) PROVE AccountsInv'
<1>1. /\ rowsSeen' = [rowsSeen EXCEPT ![c] = account] /\ ~UnderWay(request[c])
      /\ UNCHANGED <<account, time, tenantRow, request, versions>>
  BY DEF List, Ready, UnderWay
<1>2. AccountsTypeOK' /\ VersionNamesContent'
  BY <1>1 DEF AccountsInv, AccountsTypeOK, VersionNamesContent
<1>3. \A d \in Clients : rowsSeen'[d] = IF d = c THEN account ELSE rowsSeen[d]
  BY <1>1 DEF AccountsInv, AccountsTypeOK
<1>4. Committed'
  BY <1>1, <1>3 DEF AccountsInv, Committed
<1>5. ASSUME NEW d \in Clients PROVE RequestOK(d, request[d])'
  <2>1. RequestOK(d, request[d])
    BY DEF AccountsInv
  <2> QED  BY <1>1, <1>3, <2>1 DEF RequestOK, Fresh, Expects, Pending
<1> QED  BY <1>2, <1>4, <1>5 DEF AccountsInv

LEMMA CreateAccountInv ==
  ASSUME AccountsInv, NEW c \in Clients, NEW a \in Accounts, NEW ref \in Refs, NEW label \in Labels,
         CreateAccount(c, a, ref, label)
  PROVE  AccountsInv'
<1>1. /\ time \in 0 .. LastTime /\ LastTime \in Nat
      /\ \A v \in versions : v[2].updatedAt \in 0 .. LastTime
      /\ \A d \in Clients : request[d].began \in 0 .. LastTime
  BY CloudAccountsAssumption DEF AccountsInv, AccountsTypeOK, Account, Request
<1>2. /\ time < LastTime /\ time' = time + 1 /\ account[a] = NoAccount /\ ~UnderWay(request[c])
      /\ UNCHANGED <<tenantRow, request>>
  BY DEF CreateAccount, Ready, UnderWay
<1>3. time' \in 0 .. LastTime /\ time < time'
  BY <1>1, <1>2
<1>4. PICK row \in Account :
        row = [ref |-> ref, label |-> label, active |-> TRUE, updatedAt |-> time']
  BY <1>3 DEF Account
<1>5. /\ account' = [account EXCEPT ![a] = row] /\ versions' = versions \cup {<<a, row>>}
      /\ rowsSeen' = [rowsSeen EXCEPT ![c][a] = row]
  BY <1>4 DEF CreateAccount
<1>6. /\ account'[a] = row /\ \A b \in Accounts \ {a} : account'[b] = account[b]
      /\ \A d \in Clients, b \in Accounts :
           rowsSeen'[d][b] = IF d = c /\ b = a THEN row ELSE rowsSeen[d][b]
  BY <1>5 DEF AccountsInv, AccountsTypeOK
<1>7. AccountsTypeOK'
  BY <1>2, <1>3, <1>5 DEF AccountsInv, AccountsTypeOK
<1>8. \A v \in versions : v[2].updatedAt <= time /\ v[2].updatedAt < row.updatedAt
  <2> SUFFICES ASSUME NEW v \in versions
               PROVE  v[2].updatedAt <= time /\ v[2].updatedAt < row.updatedAt
    OBVIOUS
  <2>1. v[2].updatedAt <= time
    BY DEF AccountsInv, Committed
  <2> QED  BY <1>1, <1>2, <1>4, <2>1
<1>9. VersionNamesContent'
  <2>1. \A v \in versions : v[2].updatedAt # row.updatedAt
    BY <1>1, <1>8
  <2> QED  BY <1>5, <2>1 DEF AccountsInv, VersionNamesContent
<1>10. Committed'
  <2>1. \A v \in versions : v[2].updatedAt <= time'
    BY <1>1, <1>3, <1>8
  <2>2. row.updatedAt <= time'
    BY <1>3, <1>4
  <2>3. \A v \in versions' : v[2].updatedAt <= time'
    BY <1>5, <2>1, <2>2
  <2> QED  BY <1>5, <1>6, <2>3 DEF AccountsInv, Committed
<1>11. ASSUME NEW d \in Clients PROVE RequestOK(d, request[d])'
  <2>1. PICK r \in Request : r = request[d]
    BY DEF AccountsInv, AccountsTypeOK
  <2> SUFFICES ASSUME UnderWay(r) PROVE RequestOK(d, r)'
    BY <1>2, <2>1 DEF RequestOK
  <2>2. d # c /\ Fresh(d, r) /\ Expects(d, r) /\ Pending(d, r)
        /\ (r.pc \in {"locked", "updated"} => tenantRow = d)
    BY <1>2, <2>1 DEF AccountsInv, RequestOK
  <2>3. Fresh(d, r)'
    <3>1. r.began <= time' /\ row.updatedAt # r.began
      BY <1>1, <1>2, <1>3, <1>4, <2>1, <2>2 DEF Fresh
    <3> QED  BY <1>2, <1>5, <2>2, <3>1 DEF Fresh
  <2>4. Expects(d, r)'
    BY <1>6, <2>2 DEF Expects, Request
  <2>5. Pending(d, r)'
    <3>1. ASSUME r.pc = "updated" PROVE r.account \in Accounts /\ r.account # a
      BY <1>2, <2>2, <3>1 DEF Pending, Request
    <3> QED  BY <1>6, <2>2, <3>1 DEF Pending
  <2> QED  BY <1>2, <2>2, <2>3, <2>4, <2>5 DEF RequestOK
<1> QED  BY <1>7, <1>9, <1>10, <1>11 DEF AccountsInv

\* Only the holder of the tenant's row changes an account that is there.
LEMMA CommitStep ==
  ASSUME AccountsInv, NEW c \in Clients, Commit(c)
  PROVE  \E a \in Accounts, row \in Account :
           /\ account' = [account EXCEPT ![a] = row] /\ versions' = versions \cup {<<a, row>>}
           /\ account[a] # NoAccount /\ tenantRow = c
           /\ row.active => account[a].active
           /\ account[a].active /\ ~row.active => row.label = account[a].label /\ row.ref = account[a].ref
           /\ request[c].kind = "patch" => account[a] = rowsSeen[c][a]
           /\ row.updatedAt = request[c].began \/ row = account[a]
           /\ request[c].pc = "updated" /\ request[c].account = a
<1>1. PICK r \in Request : r = request[c]
  BY DEF AccountsInv, AccountsTypeOK
<1>2. r.pc = "updated" /\ Pending(c, r) /\ tenantRow = c
  BY <1>1 DEF Commit, AccountsInv, RequestOK, UnderWay
<1>3. PICK a \in Accounts : a = r.account
  BY DEF Request
<1>4. PICK row \in Account : row = r.row
  BY <1>2 DEF Pending
<1>5. account' = [account EXCEPT ![a] = row] /\ versions' = versions \cup {<<a, row>>}
  BY <1>1, <1>3, <1>4 DEF Commit
<1>6. account[a] # NoAccount /\ r.kind \in {"patch", "deactivate"}
  BY <1>2, <1>3 DEF Pending, Request
<1>7. /\ row.active => account[a].active
      /\ account[a].active /\ ~row.active => row.label = account[a].label /\ row.ref = account[a].ref
      /\ r.kind = "patch" => account[a] = rowsSeen[c][a]
      /\ row.updatedAt = r.began \/ row = account[a]
  BY <1>2, <1>3, <1>4, <1>6 DEF Pending
<1> QED  BY <1>1, <1>2, <1>3, <1>5, <1>6, <1>7

LEMMA CommitInv == ASSUME AccountsInv, NEW c \in Clients, Commit(c) PROVE AccountsInv'
<1>1. PICK a \in Accounts, row \in Account :
        /\ account' = [account EXCEPT ![a] = row] /\ versions' = versions \cup {<<a, row>>}
        /\ account[a] # NoAccount /\ tenantRow = c
        /\ row.updatedAt = request[c].began \/ row = account[a]
        /\ request[c].pc = "updated" /\ request[c].account = a
  BY CommitStep
<1>2. PICK said \in Said : End(c, said)
  BY DEF Commit, Said
<1>3. PICK new \in Request :
        /\ request' = [request EXCEPT ![c] = new] /\ ~UnderWay(new)
        /\ tenantRow' \in Clients \cup {NoClient}
        /\ \A d \in Clients \ {c} : tenantRow = d => tenantRow' = d
  BY <1>2, AnsweredStep
<1>4. /\ time' = time
      /\ rowsSeen' = rowsSeen \/ rowsSeen' = [rowsSeen EXCEPT ![c][a] = account'[a]]
  <2>1. account'[a] = request[c].row
    BY <1>1 DEF Commit, AccountsInv, AccountsTypeOK
  <2> QED  BY <1>1, <2>1 DEF Commit
<1>5. /\ account'[a] = row /\ \A b \in Accounts \ {a} : account'[b] = account[b]
      /\ \A d \in Clients, b \in Accounts :
           rowsSeen'[d][b] = rowsSeen[d][b] \/ (d = c /\ b = a /\ rowsSeen'[d][b] = row)
      /\ rowsSeen' \in [Clients -> [Accounts -> Account \cup {NoAccount}]]
      /\ \A d \in Clients \ {c} : request'[d] = request[d]
      /\ request'[c] = new
  BY <1>1, <1>3, <1>4 DEF AccountsInv, AccountsTypeOK
<1>6. AccountsTypeOK'
  <2>1. account' \in [Accounts -> Account \cup {NoAccount}]
    BY <1>1 DEF AccountsInv, AccountsTypeOK
  <2>2. request' \in [Clients -> Request]
    BY <1>3 DEF AccountsInv, AccountsTypeOK
  <2>3. versions' \subseteq Accounts \X Account /\ time' \in 0 .. LastTime
    BY <1>1, <1>4 DEF AccountsInv, AccountsTypeOK
  <2> QED  BY <1>3, <1>5, <2>1, <2>2, <2>3 DEF AccountsTypeOK
<1>7. PICK old \in Request : old = request[c] /\ Fresh(c, old)
  BY <1>1 DEF AccountsInv, AccountsTypeOK, RequestOK, UnderWay
<1>8. <<a, row>> \in versions \/ row.updatedAt = old.began
  BY <1>1, <1>7 DEF AccountsInv, Committed
<1>9. VersionNamesContent'
  <2>1. CASE <<a, row>> \in versions
    BY <1>1, <2>1 DEF AccountsInv, VersionNamesContent
  <2>2. CASE row.updatedAt = old.began
    <3>1. \A v \in versions : v[2].updatedAt # row.updatedAt
      BY <1>7, <2>2 DEF Fresh
    <3> QED  BY <1>1, <3>1 DEF AccountsInv, VersionNamesContent
  <2> QED  BY <1>8, <2>1, <2>2
<1>10. Committed'
  <2>1. row.updatedAt <= time
    BY <1>7, <1>8 DEF Fresh, AccountsInv, Committed
  <2>2. \A v \in versions' : v[2].updatedAt <= time'
    BY <1>1, <1>4, <2>1 DEF AccountsInv, Committed
  <2> QED  BY <1>1, <1>5, <2>2 DEF AccountsInv, Committed
<1>11. ASSUME NEW d \in Clients, d # c PROVE RequestOK(d, request[d])'
  <2>1. PICK r \in Request : r = request[d]
    BY DEF AccountsInv, AccountsTypeOK
  <2> SUFFICES ASSUME UnderWay(r) PROVE RequestOK(d, r)'
    BY <1>5, <1>11, <2>1 DEF RequestOK
  <2>2. /\ Fresh(d, r) /\ Expects(d, r) /\ r.pc = "begun"
    BY <1>1, <1>11, <2>1 DEF AccountsInv, RequestOK, UnderWay
  <2>3. Fresh(d, r)'
    <3>1. row.updatedAt # r.began
      <4>1. old.began # r.began
        BY <1>1, <1>7, <1>11, <2>1, <2>2 DEF Fresh, UnderWay
      <4>2. <<a, row>> \in versions => row.updatedAt # r.began
        BY <2>2 DEF Fresh
      <4> QED  BY <1>8, <4>1, <4>2
    <3>2. \A f \in Clients \ {d} : UnderWay(request'[f]) => request'[f].began # r.began
      BY <1>3, <1>5, <2>2 DEF Fresh
    <3> QED  BY <1>1, <1>4, <2>2, <3>1, <3>2 DEF Fresh
  <2>4. Expects(d, r)' /\ Pending(d, r)'
    BY <1>5, <1>11, <2>2 DEF Expects, Pending, Request
  <2> QED  BY <2>2, <2>3, <2>4 DEF RequestOK
<1>12. RequestOK(c, request[c])'
  BY <1>3, <1>5 DEF RequestOK
<1> QED  BY <1>6, <1>9, <1>10, <1>11, <1>12 DEF AccountsInv

LEMMA AccountsNextInv == AccountsInv /\ [AccountsNext]_accountVars => AccountsInv'
<1> SUFFICES ASSUME AccountsInv, [AccountsNext]_accountVars PROVE AccountsInv'
  OBVIOUS
<1>1. CASE UNCHANGED accountVars
  BY <1>1 DEF accountVars, AccountsInv, AccountsTypeOK, VersionNamesContent, Committed, RequestOK,
              Fresh, Expects, Pending
<1>2. ASSUME NEW c \in Clients, RollBackPatch(c) PROVE AccountsInv'
  BY <1>2, AnsweredInv DEF RollBackPatch, Said
<1> QED  BY <1>1, <1>2, CreateAccountInv, BeginInv, ListInv, LockTenantInv, PatchInv, DeactivateInv,
            CommitInv DEF AccountsNext, RequestStep

\* No patch undoes what its author had not read, a deactivation holds and undoes nothing else,
\* and an account's version names one content, whatever transactions overlap, wait for the
\* tenant's row in whatever order, and fail.
THEOREM AccountsKeepUpdates == AccountsSpec => AccountsLoseNothing
<1>1. AccountsInv /\ AccountsInv' /\ [AccountsNext]_accountVars
        => [NoLostUpdate /\ DeactivationHolds /\ VersionNamesContent']_accountVars
  <2> SUFFICES ASSUME AccountsInv, AccountsInv', AccountsNext
               PROVE  NoLostUpdate /\ DeactivationHolds
    BY DEF AccountsInv
  <2>1. CASE account' = account
    BY <2>1 DEF NoLostUpdate, DeactivationHolds
  <2>2. ASSUME NEW c \in Clients, NEW a \in Accounts, NEW ref \in Refs, NEW label \in Labels,
               CreateAccount(c, a, ref, label)
        PROVE  NoLostUpdate /\ DeactivationHolds
    <3>1. account[a] = NoAccount /\ \A b \in Accounts \ {a} : account'[b] = account[b]
      BY <2>2 DEF CreateAccount, AccountsInv, AccountsTypeOK
    <3>2. \A d \in Clients : request[d].pc = "updated" =>
            account[request[d].account] # NoAccount /\ request[d].account \in Accounts
      BY DEF AccountsInv, AccountsTypeOK, Request, RequestOK, UnderWay, Pending
    <3> QED  BY <3>1, <3>2 DEF NoLostUpdate, DeactivationHolds
  <2>3. ASSUME NEW c \in Clients, Commit(c) PROVE NoLostUpdate /\ DeactivationHolds
    <3>1. PICK a \in Accounts, row \in Account :
            /\ account' = [account EXCEPT ![a] = row] /\ tenantRow = c
            /\ row.active => account[a].active
            /\ account[a].active /\ ~row.active => row.label = account[a].label /\ row.ref = account[a].ref
            /\ request[c].kind = "patch" => account[a] = rowsSeen[c][a]
            /\ request[c].account = a
      BY <2>3, CommitStep
    <3>2. account'[a] = row /\ \A b \in Accounts \ {a} : account'[b] = account[b]
      BY <3>1 DEF AccountsInv, AccountsTypeOK
    <3>3. \A d \in Clients : request[d].pc = "updated" => d = c
      BY <3>1 DEF AccountsInv, RequestOK, UnderWay
    <3>4. NoLostUpdate
      BY <3>1, <3>3 DEF NoLostUpdate
    <3>5. DeactivationHolds
      BY <3>1, <3>2 DEF DeactivationHolds
    <3> QED  BY <3>4, <3>5
  <2> QED  BY <2>1, <2>2, <2>3 DEF AccountsNext, RequestStep, List, Begin, LockTenant, Patch,
              Deactivate, RollBackPatch
<1> QED  BY <1>1, AccountsInitInv, AccountsNextInv, PTL DEF AccountsSpec, AccountsLoseNothing

-----------------------------------------------------------------------------
(* The inductive invariant of the imports *)

Codes == {"none", "INTERNAL_ERROR", "IMPORT_CONTROL_TOTAL_MISMATCH", "IMPORT_EMPTY",
          "IMPORT_ACCOUNT_PROVIDER_MISMATCH", "IMPORT_SCHEMA_DRIFT", "IMPORT_ROW_INVALID",
          "IMPORT_MANUAL_OVERRIDE_TOO_LARGE"}

Outcome == [kind : {"parsed", "quarantined", "throws"}, code : Codes, rows : Seq(Row), lines : Nat]

Process == [pc : {"idle", "account", "object", "begin", "insert", "notify", "done"}, body : Bodies,
            result : Outcome, inserted : Nat, answer : Answers]

\* What the constraints of the table ask of a row of an account of the provider.
RowOK(row, provider) ==
  row.provider = provider /\ row.period /\ row.text /\ row.applied <= row.onDemand

\* What a parser gives: a whole file that reconciles and respects the constraints, or no row.
OutcomeOK(body, outcome) ==
  /\ IF outcome.kind = "parsed"
     THEN /\ ControlTotals(outcome.rows) = Expected(body.totals)
          /\ outcome.lines = Len(outcome.rows) /\ outcome.rows # <<>>
     ELSE outcome.rows = <<>>
  /\ \A i \in DOMAIN outcome.rows : RowOK(outcome.rows[i], ProviderOf[body.account])

\* How far a process is, and what of it is committed and told: its batch, rows and notices.
StageOK(process, batch, rows, told) ==
  /\ process.inserted <= Len(process.result.rows)
  /\ process.pc \in {"idle", "account", "object", "begin"} => process.inserted = 0
  /\ process.pc \in {"idle", "account", "object", "begin", "insert"} => batch = NoBatch
  /\ process.pc = "notify" => batch # NoBatch
  /\ process.pc # "done" => told = {}
  /\ process.pc \in {"begin", "insert"} => OutcomeOK(process.body, process.result)
  /\ IF batch # NoBatch /\ batch.status = "completed"
     THEN /\ ControlTotals(rows) = Expected(process.body.totals)
          /\ batch.lines = Len(rows) /\ rows # <<>>
     ELSE rows = <<>>
  /\ \A n \in told : batch # NoBatch /\ batch.status = n[2]

ImportsInv ==
  /\ active \subseteq DOMAIN ProviderOf
  /\ store \in [Uris -> Files \cup {NoFile}]
  /\ batches \in [Requests -> Batch \cup {NoBatch}]
  /\ usage \in [Requests -> Seq(Row)]
  /\ tenant \in Requests \cup {NoRequest}
  /\ req \in [Requests -> Process]
  /\ notices \in [Requests -> SUBSET ({"notification", "event"} \X Statuses)]
  /\ \A r \in Requests : /\ StageOK(req[r], batches[r], usage[r], notices[r])
                         /\ req[r].pc = "insert" <=> tenant = r

LEMMA QuarantinedType ==
  ASSUME NEW code \in Codes, NEW lines \in Nat
  PROVE  /\ Quarantined(code, lines) \in Outcome
         /\ Quarantined(code, lines).kind # "parsed" /\ Quarantined(code, lines).rows = <<>>
<1>1. <<>> \in Seq(Row)
  OBVIOUS
<1> QED  BY <1>1 DEF Quarantined, Outcome

LEMMA ThrowsType == Throws \in Outcome /\ Throws.rows = <<>> /\ Throws.kind = "throws"
<1>1. <<>> \in Seq(Row)
  OBVIOUS
<1> QED  BY <1>1 DEF Throws, Outcome, Codes

\* Rows that are good reconcile with the totals, or are not taken.
LEMMA RowsOK ==
  ASSUME NEW body \in Bodies, NEW rows \in Seq(Row), rows # <<>>,
         \A i \in DOMAIN rows : RowOK(rows[i], ProviderOf[body.account]),
         NEW outcome, outcome = RowsOrQuarantine(rows, Len(rows), body.totals)
  PROVE  outcome \in Outcome /\ OutcomeOK(body, outcome)
<1>1. Len(rows) \in Nat
  OBVIOUS
<1>2. CASE Reconciles(rows, body.totals)
  <2>1. outcome = [kind |-> "parsed", code |-> "none", rows |-> rows, lines |-> Len(rows)]
    BY <1>2 DEF RowsOrQuarantine
  <2>2. outcome \in Outcome
    BY <1>1, <2>1 DEF Outcome, Codes
  <2>3. outcome.kind = "parsed" /\ outcome.rows = rows /\ outcome.lines = Len(rows)
    BY <2>1
  <2> QED  BY <1>2, <2>2, <2>3 DEF OutcomeOK, Reconciles
<1>3. CASE ~Reconciles(rows, body.totals)
  <2>1. outcome = Quarantined("IMPORT_CONTROL_TOTAL_MISMATCH", Len(rows))
    BY <1>3 DEF RowsOrQuarantine
  <2>2. outcome \in Outcome /\ outcome.kind # "parsed" /\ outcome.rows = <<>>
    BY <1>1, <2>1, QuarantinedType DEF Codes
  <2> QED  BY <2>2 DEF OutcomeOK
<1> QED  BY <1>2, <1>3

LEMMA AwsRowOK ==
  ASSUME NEW row \in Row, ValidAwsRow(row) PROVE AwsRow(row) \in Row /\ RowOK(AwsRow(row), "aws")
<1>1. MoneyCents(row.onDemand) \in Nat /\ MoneyCents(row.realized) \in Nat
  BY DEF MoneyCents, Row
<1>2. PICK onDemand \in Nat : onDemand = MoneyCents(row.onDemand)
  BY <1>1
<1>3. PICK realized \in Nat : realized = MoneyCents(row.realized)
  BY <1>1
<1>4. PICK applied \in Nat :
        /\ applied = IF onDemand > realized THEN onDemand - realized ELSE 0
        /\ applied <= onDemand
  <2>1. CASE onDemand > realized
    <3>1. onDemand - realized \in Nat /\ onDemand - realized <= onDemand
      BY <2>1
    <3> QED  BY <2>1, <3>1
  <2>2. CASE ~(onDemand > realized)
    BY <2>2
  <2> QED  BY <2>1, <2>2
<1>6. AwsRow(row) = [row EXCEPT !.provider = "aws", !.onDemand = onDemand, !.realized = realized,
                                !.applied = applied]
  BY <1>2, <1>3, <1>4 DEF AwsRow
<1>7. AwsRow(row) \in Row
  BY <1>6 DEF Row
<1>8. /\ AwsRow(row).provider = "aws" /\ AwsRow(row).period = row.period /\ AwsRow(row).text = row.text
      /\ AwsRow(row).applied = applied /\ AwsRow(row).onDemand = onDemand
  BY <1>6 DEF Row
<1> QED  BY <1>4, <1>7, <1>8 DEF RowOK, ValidAwsRow

\* A file is taken as a whole, or quarantined without any row.
LEMMA ParseAwsOK ==
  ASSUME NEW body \in Bodies, NEW object \in File, NEW outcome,
         outcome = ParseAws(object, ProviderOf[body.account], body.totals)
  PROVE  outcome \in Outcome /\ OutcomeOK(body, outcome)
<1> DEFINE provider == ProviderOf[body.account]
           lines == Len(object.rows)
<1>1. object.rows \in Seq(Row) /\ lines \in Nat /\ DOMAIN object.rows = 1 .. lines
  BY DEF File
<1>2. CASE \E code \in Codes, n \in Nat : outcome = Quarantined(code, n)
  <2>1. outcome \in Outcome /\ outcome.kind # "parsed" /\ outcome.rows = <<>>
    BY <1>2, QuarantinedType
  <2> QED  BY <2>1 DEF OutcomeOK
<1>3. CASE ~\E code \in Codes, n \in Nat : outcome = Quarantined(code, n)
  <2>1. \A code \in Codes, n \in {0, lines} : outcome # Quarantined(code, n)
    BY <1>1, <1>3
  <2>2. /\ provider = "aws" /\ lines # 0 /\ \A i \in 1 .. lines : ValidAwsRow(object.rows[i])
        /\ outcome = RowsOrQuarantine([i \in 1 .. lines |-> AwsRow(object.rows[i])], lines, body.totals)
    <3>1. \A n \in {0, lines} : /\ outcome # Quarantined("IMPORT_ACCOUNT_PROVIDER_MISMATCH", n)
                                /\ outcome # Quarantined("IMPORT_EMPTY", n)
                                /\ outcome # Quarantined("IMPORT_SCHEMA_DRIFT", n)
                                /\ outcome # Quarantined("IMPORT_ROW_INVALID", n)
      BY <2>1 DEF Codes
    <3> QED  BY <3>1, Zenon DEF ParseAws
  <2>3. \A i \in 1 .. lines : AwsRow(object.rows[i]) \in Row /\ RowOK(AwsRow(object.rows[i]), provider)
    <3> SUFFICES ASSUME NEW i \in 1 .. lines
                 PROVE  AwsRow(object.rows[i]) \in Row /\ RowOK(AwsRow(object.rows[i]), provider)
      OBVIOUS
    <3>1. PICK row \in Row : row = object.rows[i]
      BY <1>1
    <3>2. ValidAwsRow(row)
      BY <2>2, <3>1
    <3> QED  BY <2>2, <3>1, <3>2, AwsRowOK
  <2>4. PICK rows \in Seq(Row) : rows = [i \in 1 .. lines |-> AwsRow(object.rows[i])]
    <3>1. PICK g \in [1 .. lines -> Row] : g = [i \in 1 .. lines |-> AwsRow(object.rows[i])]
      BY <2>3
    <3>2. g \in Seq(Row)
      BY <1>1, <3>1, SeqDef
    <3> QED  BY <3>1, <3>2
  <2>5. DOMAIN rows = 1 .. lines /\ Len(rows) = lines /\ \A i \in 1 .. lines : rows[i] = AwsRow(object.rows[i])
    BY <1>1, <2>4
  <2>6. rows # <<>> /\ \A i \in DOMAIN rows : RowOK(rows[i], provider)
    BY <2>2, <2>3, <2>5
  <2>7. outcome = RowsOrQuarantine(rows, Len(rows), body.totals)
    BY <2>2, <2>4, <2>5
  <2> HIDE DEF provider, lines
  <2> QED  BY <2>6, <2>7, RowsOK DEF provider
<1> QED  BY <1>2, <1>3

LEMMA ValidRowsOK ==
  ASSUME NEW body \in Bodies, NEW object \in File, NEW outcome, Len(object.rows) # 0,
         \A i \in 1 .. Len(object.rows) : ValidRow(object.rows[i], ProviderOf[body.account]),
         outcome = RowsOrQuarantine(object.rows, Len(object.rows), body.totals)
  PROVE  outcome \in Outcome /\ OutcomeOK(body, outcome)
<1>1. PICK rows \in Seq(Row) : rows = object.rows
  BY DEF File
<1>2. DOMAIN rows = 1 .. Len(rows) /\ rows # <<>>
  BY <1>1
<1>3. \A i \in DOMAIN rows : RowOK(rows[i], ProviderOf[body.account])
  BY <1>1, <1>2 DEF ValidRow, RowOK
<1> QED  BY <1>1, <1>2, <1>3, RowsOK

LEMMA ParseSyntheticOK ==
  ASSUME NEW body \in Bodies, NEW object \in File, NEW outcome,
         outcome = ParseSynthetic(object, ProviderOf[body.account], body.totals)
  PROVE  outcome \in Outcome /\ OutcomeOK(body, outcome)
<1>1. PICK lines \in Nat : lines = Len(object.rows)
  BY DEF File
<1>2. CASE \E code \in Codes, n \in Nat : outcome = Quarantined(code, n)
  <2>1. outcome \in Outcome /\ outcome.kind # "parsed" /\ outcome.rows = <<>>
    BY <1>2, QuarantinedType
  <2> QED  BY <2>1 DEF OutcomeOK
<1>3. CASE ~\E code \in Codes, n \in Nat : outcome = Quarantined(code, n)
  <2>1. \A n \in {0, lines} : /\ outcome # Quarantined("IMPORT_EMPTY", n)
                              /\ outcome # Quarantined("IMPORT_SCHEMA_DRIFT", n)
                              /\ outcome # Quarantined("IMPORT_ROW_INVALID", n)
    BY <1>3 DEF Codes
  <2>2. /\ lines # 0 /\ \A i \in 1 .. lines : ValidRow(object.rows[i], ProviderOf[body.account])
        /\ outcome = RowsOrQuarantine(object.rows, lines, body.totals)
    BY <1>1, <2>1, Zenon DEF ParseSynthetic
  <2> QED  BY <1>1, <2>2, ValidRowsOK
<1> QED  BY <1>2, <1>3

LEMMA ParseCanonicalOK ==
  ASSUME NEW body \in Bodies, NEW object \in File, NEW outcome,
         outcome = ParseCanonical(object, ProviderOf[body.account], body.totals, body.format)
  PROVE  outcome \in Outcome /\ OutcomeOK(body, outcome)
<1>1. PICK lines \in Nat : lines = Len(object.rows)
  BY DEF File
<1>2. CASE outcome = Throws \/ \E code \in Codes, n \in Nat : outcome = Quarantined(code, n)
  <2>1. outcome \in Outcome /\ outcome.kind # "parsed" /\ outcome.rows = <<>>
    BY <1>2, QuarantinedType, ThrowsType
  <2> QED  BY <2>1 DEF OutcomeOK
<1>3. CASE outcome # Throws /\ ~\E code \in Codes, n \in Nat : outcome = Quarantined(code, n)
  <2>1. \A n \in {0, lines} : /\ outcome # Quarantined("IMPORT_EMPTY", n)
                              /\ outcome # Quarantined("IMPORT_SCHEMA_DRIFT", n)
                              /\ outcome # Quarantined("IMPORT_MANUAL_OVERRIDE_TOO_LARGE", n)
                              /\ outcome # Quarantined("IMPORT_ROW_INVALID", n)
    BY <1>3 DEF Codes
  <2>2. /\ lines # 0 /\ \A i \in 1 .. lines : ValidRow(object.rows[i], ProviderOf[body.account])
        /\ outcome = RowsOrQuarantine(object.rows, lines, body.totals)
    BY <1>1, <1>3, <2>1, Zenon DEF ParseCanonical
  <2> QED  BY <1>1, <2>2, ValidRowsOK
<1> QED  BY <1>2, <1>3

LEMMA ParseOK ==
  ASSUME NEW body \in Bodies, NEW object \in File
  PROVE  Parse(body, object) \in Outcome /\ OutcomeOK(body, Parse(body, object))
<1>1. \/ Parse(body, object) = ParseAws(object, ProviderOf[body.account], body.totals)
      \/ Parse(body, object) = ParseSynthetic(object, ProviderOf[body.account], body.totals)
      \/ Parse(body, object) = ParseCanonical(object, ProviderOf[body.account], body.totals, body.format)
  BY Zenon DEF Parse
<1> QED  BY <1>1, ParseAwsOK, ParseSyntheticOK, ParseCanonicalOK

LEMMA ImportsInitInv == ImportsInit => ImportsInv
<1> SUFFICES ASSUME ImportsInit PROVE ImportsInv
  OBVIOUS
<1>1. PICK b \in Bodies : b = CHOOSE x \in Bodies : TRUE
  BY ImportsAssumption
<1>2. Unasked = [pc |-> "account", body |-> b, result |-> Throws, inserted |-> 0, answer |-> "none"]
  BY <1>1 DEF Unasked
<1>3. Unasked \in Process
  BY <1>2, ThrowsType DEF Process, Answers
<1>4. PICK new \in Process : new = [Unasked EXCEPT !.pc = "idle"]
  BY <1>3 DEF Process
<1>5. new.pc = "idle" /\ new.inserted = 0 /\ new.result = Throws
  BY <1>2, <1>3, <1>4 DEF Process
<1>6. \A r \in Requests : req[r] = new
  BY <1>4 DEF ImportsInit
<1>7. req \in [Requests -> Process]
  BY <1>4 DEF ImportsInit
<1>8. StageOK(new, NoBatch, <<>>, {})
  <2>1. Len(<<>>) = 0
    OBVIOUS
  <2> QED  BY <1>5, <2>1, ThrowsType DEF StageOK
<1>9. \A r \in Requests : batches[r] = NoBatch /\ usage[r] = <<>> /\ notices[r] = {} /\ tenant # r
  BY ImportsAssumption DEF ImportsInit
<1>10. /\ batches \in [Requests -> Batch \cup {NoBatch}] /\ usage \in [Requests -> Seq(Row)]
       /\ notices \in [Requests -> SUBSET ({"notification", "event"} \X Statuses)]
  <2>1. <<>> \in Seq(Row)
    OBVIOUS
  <2> QED  BY <2>1 DEF ImportsInit
<1> QED  BY <1>5, <1>6, <1>7, <1>8, <1>9, <1>10 DEF ImportsInit, ImportsInv

\* The process of a request goes on, and with it what the request has committed and told.
LEMMA ImportMoves ==
  ASSUME ImportsInv, NEW r \in Requests, NEW new \in Process, NEW batch \in Batch \cup {NoBatch},
         NEW rows \in Seq(Row), NEW told \in SUBSET ({"notification", "event"} \X Statuses),
         req' = [req EXCEPT ![r] = new], batches' = [batches EXCEPT ![r] = batch],
         usage' = [usage EXCEPT ![r] = rows], notices' = [notices EXCEPT ![r] = told],
         UNCHANGED <<active, store>>,
         StageOK(new, batch, rows, told),
         tenant' \in Requests \cup {NoRequest},
         new.pc = "insert" <=> tenant' = r,
         \A s \in Requests \ {r} : tenant = s <=> tenant' = s
  PROVE  ImportsInv'
<1>1. /\ req' \in [Requests -> Process] /\ batches' \in [Requests -> Batch \cup {NoBatch}]
      /\ usage' \in [Requests -> Seq(Row)]
      /\ notices' \in [Requests -> SUBSET ({"notification", "event"} \X Statuses)]
  BY DEF ImportsInv
<1>2. req'[r] = new /\ batches'[r] = batch /\ usage'[r] = rows /\ notices'[r] = told
  BY DEF ImportsInv
<1>3. \A s \in Requests \ {r} : /\ req'[s] = req[s] /\ batches'[s] = batches[s]
                                /\ usage'[s] = usage[s] /\ notices'[s] = notices[s]
  BY DEF ImportsInv
<1>4. \A s \in Requests : /\ StageOK(req[s], batches[s], usage[s], notices[s])'
                          /\ req'[s].pc = "insert" <=> tenant' = s
  <2> SUFFICES ASSUME NEW s \in Requests
               PROVE  /\ StageOK(req'[s], batches'[s], usage'[s], notices'[s])
                      /\ req'[s].pc = "insert" <=> tenant' = s
    BY DEF StageOK, OutcomeOK
  <2>1. CASE s = r
    BY <1>2, <2>1
  <2>2. CASE s # r
    BY <1>3, <2>2 DEF ImportsInv
  <2> QED  BY <2>1, <2>2
<1> QED  BY <1>1, <1>4 DEF ImportsInv

\* A process goes on, and commits and tells nothing.
LEMMA ProcessMoves ==
  ASSUME ImportsInv, NEW r \in Requests, NEW new \in Process,
         req' = [req EXCEPT ![r] = new],
         UNCHANGED <<active, store, batches, usage, notices>>,
         StageOK(new, batches[r], usage[r], notices[r]),
         tenant' \in Requests \cup {NoRequest},
         new.pc = "insert" <=> tenant' = r,
         \A s \in Requests \ {r} : tenant = s <=> tenant' = s
  PROVE  ImportsInv'
<1>1. PICK batch \in Batch \cup {NoBatch} : batch = batches[r]
  BY DEF ImportsInv
<1>2. PICK rows \in Seq(Row) : rows = usage[r]
  BY DEF ImportsInv
<1>3. PICK told \in SUBSET ({"notification", "event"} \X Statuses) : told = notices[r]
  BY DEF ImportsInv
<1>4. /\ batches' = [batches EXCEPT ![r] = batch] /\ usage' = [usage EXCEPT ![r] = rows]
      /\ notices' = [notices EXCEPT ![r] = told]
  BY <1>1, <1>2, <1>3 DEF ImportsInv
<1>5. StageOK(new, batch, rows, told)
  BY <1>1, <1>2, <1>3
<1> QED  BY <1>4, <1>5, ImportMoves

\* A request is answered, with what was committed before.
LEMMA AnswerOK ==
  ASSUME ImportsInv, NEW r \in Requests, NEW answer \in Answers, Answer(r, answer),
         UNCHANGED <<active, store, batches, usage, notices>>,
         tenant' = IF tenant = r THEN NoRequest ELSE tenant
  PROVE  ImportsInv'
<1>1. PICK p \in Process : p = req[r]
  BY DEF ImportsInv
<1>2. PICK new \in Process : new = [p EXCEPT !.pc = "done", !.answer = answer]
  BY DEF Process
<1>3. /\ new.pc = "done" /\ new.body = p.body /\ new.result = p.result /\ new.inserted = p.inserted
  BY <1>2 DEF Process
<1>4. req' = [req EXCEPT ![r] = new]
  BY <1>1, <1>2 DEF Answer
<1>5. StageOK(p, batches[r], usage[r], notices[r])
  BY <1>1 DEF ImportsInv
<1>6. StageOK(new, batches[r], usage[r], notices[r])
  BY <1>3, <1>5 DEF StageOK
<1>7. /\ tenant' \in Requests \cup {NoRequest} /\ (new.pc = "insert" <=> tenant' = r)
      /\ \A s \in Requests \ {r} : tenant = s <=> tenant' = s
  BY <1>3, ImportsAssumption DEF ImportsInv
<1> QED  BY <1>4, <1>6, <1>7, ProcessMoves

LEMMA ReceiveInv ==
  ASSUME ImportsInv, NEW r \in Requests, NEW b \in Bodies, Receive(r, b) PROVE ImportsInv'
<1>1. PICK p \in Process : p = req[r]
  BY DEF ImportsInv
<1>2. p.pc = "idle" /\ UNCHANGED <<active, store, batches, usage, tenant, notices>>
  BY <1>1 DEF Receive
<1>3. PICK new \in Process : new = [p EXCEPT !.pc = "account", !.body = b]
  BY DEF Process
<1>4. new.pc = "account" /\ new.result = p.result /\ new.inserted = p.inserted
  BY <1>3 DEF Process
<1>5. req' = [req EXCEPT ![r] = new]
  BY <1>1, <1>3 DEF Receive
<1>6. StageOK(p, batches[r], usage[r], notices[r]) /\ tenant # r
  BY <1>1, <1>2 DEF ImportsInv
<1>7. StageOK(new, batches[r], usage[r], notices[r])
  BY <1>2, <1>4, <1>6 DEF StageOK
<1>8. /\ tenant' \in Requests \cup {NoRequest} /\ (new.pc = "insert" <=> tenant' = r)
      /\ \A s \in Requests \ {r} : tenant = s <=> tenant' = s
  BY <1>2, <1>4, <1>6 DEF ImportsInv
<1> QED  BY <1>2, <1>5, <1>7, <1>8, ProcessMoves

\* The process goes to a later step at which it has committed and told nothing yet.
LEMMA GoesOn ==
  ASSUME ImportsInv, NEW r \in Requests, NEW p \in Process, p = req[r],
         p.pc \in {"account", "object", "begin", "insert"},
         NEW new \in Process, new.pc \in {"object", "begin", "insert"},
         new.body = p.body, new.inserted <= Len(new.result.rows),
         new.pc # "insert" => new.inserted = 0,
         new.pc \in {"begin", "insert"} => OutcomeOK(new.body, new.result),
         req' = [req EXCEPT ![r] = new],
         UNCHANGED <<active, store, batches, usage, notices>>,
         tenant' \in Requests \cup {NoRequest},
         new.pc = "insert" <=> tenant' = r,
         \A s \in Requests \ {r} : tenant = s <=> tenant' = s
  PROVE  ImportsInv'
<1>1. StageOK(p, batches[r], usage[r], notices[r])
  BY DEF ImportsInv
<1>2. StageOK(new, batches[r], usage[r], notices[r])
  BY <1>1 DEF StageOK
<1> QED  BY <1>2, ProcessMoves

LEMMA GetCloudAccountInv ==
  ASSUME ImportsInv, NEW r \in Requests, GetCloudAccount(r) PROVE ImportsInv'
<1>1. PICK p \in Process : p = req[r]
  BY DEF ImportsInv
<1>2. p.pc = "account" /\ tenant # r /\ UNCHANGED <<active, store, batches, usage, tenant, notices>>
  BY <1>1 DEF GetCloudAccount, ImportsInv
<1>3. CASE p.body.account \in active
  <2>1. PICK new \in Process : new = [p EXCEPT !.pc = "object"]
    BY DEF Process
  <2>2. new.pc = "object" /\ new.body = p.body /\ new.result = p.result /\ new.inserted = p.inserted
    BY <2>1 DEF Process
  <2>3. req' = [req EXCEPT ![r] = new]
    BY <1>1, <1>3, <2>1 DEF GetCloudAccount
  <2>4. p.inserted <= Len(p.result.rows) /\ p.inserted = 0
    BY <1>1, <1>2 DEF ImportsInv, StageOK
  <2>5. /\ tenant' \in Requests \cup {NoRequest} /\ (new.pc = "insert" <=> tenant' = r)
        /\ \A s \in Requests \ {r} : tenant = s <=> tenant' = s
    BY <1>2, <2>2 DEF ImportsInv
  <2> QED  BY <1>1, <1>2, <2>2, <2>3, <2>4, <2>5, GoesOn
<1>4. CASE p.body.account \notin active
  <2>1. Answer(r, "409")
    BY <1>1, <1>4 DEF GetCloudAccount
  <2> QED  BY <1>2, <2>1, AnswerOK DEF Answers
<1> QED  BY <1>3, <1>4

LEMMA ReadObjectInv == ASSUME ImportsInv, NEW r \in Requests, ReadObject(r) PROVE ImportsInv'
<1>1. PICK p \in Process : p = req[r]
  BY DEF ImportsInv
<1>2. p.pc = "object" /\ tenant # r /\ UNCHANGED <<active, store, batches, usage, tenant, notices>>
  BY <1>1 DEF ReadObject, ImportsInv
<1>3. PICK body \in Bodies : body = p.body
  BY DEF Process
<1>4. CASE \E answer \in Answers : Answer(r, answer)
  BY <1>2, <1>4, AnswerOK
<1>5. CASE ~\E answer \in Answers : Answer(r, answer)
  <2>1. /\ store[body.uri] # NoFile
        /\ req' = [req EXCEPT ![r] = [@ EXCEPT !.pc = "begin", !.result = Parse(body, store[body.uri])]]
    <3>1. ~Answer(r, "404") /\ ~Answer(r, "500")
      BY <1>5 DEF Answers
    <3> QED  BY <1>1, <1>3, <3>1, Zenon DEF ReadObject
  <2>2. PICK object \in File : object = store[body.uri]
    BY <2>1, ImportsAssumption DEF ImportsInv
  <2>3. PICK outcome \in Outcome : outcome = Parse(body, object) /\ OutcomeOK(body, outcome)
    BY ParseOK
  <2>4. PICK new \in Process : new = [p EXCEPT !.pc = "begin", !.result = outcome]
    BY DEF Process
  <2>5. new.pc = "begin" /\ new.body = p.body /\ new.result = outcome /\ new.inserted = p.inserted
    BY <2>4 DEF Process
  <2>6. req' = [req EXCEPT ![r] = new]
    BY <1>1, <2>1, <2>2, <2>3, <2>4
  <2>7. new.inserted = 0 /\ new.inserted <= Len(new.result.rows)
    <3>1. p.inserted = 0
      BY <1>1, <1>2 DEF ImportsInv, StageOK
    <3>2. Len(outcome.rows) \in Nat
      BY DEF Outcome
    <3> QED  BY <2>5, <3>1, <3>2
  <2>8. /\ tenant' \in Requests \cup {NoRequest} /\ (new.pc = "insert" <=> tenant' = r)
        /\ \A s \in Requests \ {r} : tenant = s <=> tenant' = s
    BY <1>2, <2>5 DEF ImportsInv
  <2> QED  BY <1>1, <1>2, <1>3, <2>3, <2>5, <2>6, <2>7, <2>8, GoesOn
<1> QED  BY <1>4, <1>5

LEMMA BeginImportInv == ASSUME ImportsInv, NEW r \in Requests, BeginImport(r) PROVE ImportsInv'
<1>1. PICK p \in Process : p = req[r]
  BY DEF ImportsInv
<1>2. /\ p.pc = "begin" /\ tenant = NoRequest /\ tenant' = r
      /\ UNCHANGED <<active, store, batches, usage, notices>>
  BY <1>1 DEF BeginImport
<1>3. PICK new \in Process : new = [p EXCEPT !.pc = "insert"]
  BY DEF Process
<1>4. new.pc = "insert" /\ new.body = p.body /\ new.result = p.result /\ new.inserted = p.inserted
  BY <1>3 DEF Process
<1>5. req' = [req EXCEPT ![r] = new]
  BY <1>1, <1>3 DEF BeginImport
<1>6. p.inserted <= Len(p.result.rows) /\ OutcomeOK(p.body, p.result)
  BY <1>1, <1>2 DEF ImportsInv, StageOK
<1>7. \A s \in Requests \ {r} : tenant = s <=> tenant' = s
  BY <1>2, ImportsAssumption
<1> QED  BY <1>1, <1>2, <1>4, <1>5, <1>6, <1>7, GoesOn

LEMMA InsertRowInv == ASSUME ImportsInv, NEW r \in Requests, InsertRow(r) PROVE ImportsInv'
<1>1. PICK p \in Process : p = req[r]
  BY DEF ImportsInv
<1>2. /\ p.pc = "insert" /\ tenant = r /\ UNCHANGED <<active, store, batches, usage, tenant, notices>>
      /\ p.inserted < Len(p.result.rows)
  BY <1>1 DEF InsertRow, ImportsInv
<1>3. p.inserted \in Nat /\ Len(p.result.rows) \in Nat
  BY DEF Process, Outcome
<1>4. PICK k \in Nat : k = p.inserted + 1
  BY <1>3
<1>5. PICK new \in Process : new = [p EXCEPT !.inserted = k]
  BY DEF Process
<1>6. new.pc = "insert" /\ new.body = p.body /\ new.result = p.result /\ new.inserted = k
  BY <1>2, <1>5 DEF Process
<1>7. req' = [req EXCEPT ![r] = new]
  BY <1>1, <1>5, <1>4 DEF InsertRow
<1>8. new.inserted <= Len(new.result.rows)
  BY <1>2, <1>3, <1>6, <1>4
<1>9. OutcomeOK(p.body, p.result)
  BY <1>1, <1>2 DEF ImportsInv, StageOK
<1>10. /\ tenant' \in Requests \cup {NoRequest} /\ (new.pc = "insert" <=> tenant' = r)
      /\ \A s \in Requests \ {r} : tenant = s <=> tenant' = s
  BY <1>2, <1>6 DEF ImportsInv
<1> QED  BY <1>1, <1>2, <1>6, <1>7, <1>8, <1>9, <1>10, GoesOn

LEMMA RollBackInv == ASSUME ImportsInv, NEW r \in Requests, RollBack(r) PROVE ImportsInv'
<1>1. tenant = r
  BY DEF RollBack, ImportsInv
<1>2. /\ Answer(r, "503") /\ tenant' = NoRequest
      /\ UNCHANGED <<active, store, batches, usage, notices>>
  BY DEF RollBack
<1> QED  BY <1>1, <1>2, AnswerOK DEF Answers

\* What is committed is the outcome of the parser, as a whole.
LEMMA CommitImportInv == ASSUME ImportsInv, NEW r \in Requests, CommitImport(r) PROVE ImportsInv'
<1>1. PICK p \in Process : p = req[r]
  BY DEF ImportsInv
<1>2. p.pc = "insert" /\ tenant = r /\ tenant' = NoRequest /\ UNCHANGED <<active, store, notices>>
  BY <1>1 DEF CommitImport, ImportsInv
<1>3. notices[r] = {} /\ OutcomeOK(p.body, p.result) /\ p.inserted <= Len(p.result.rows)
  BY <1>1, <1>2 DEF ImportsInv, StageOK
<1>4. PICK outcome \in Outcome : outcome = p.result
  BY DEF Process
<1>5. PICK status \in Statuses : status = IF outcome.kind = "parsed" THEN "completed" ELSE "quarantined"
  BY DEF Statuses
<1>6. PICK batch \in Batch : batch = [status |-> status, lines |-> outcome.lines]
  BY DEF Batch, Outcome, Statuses
<1>7. batch.status = status /\ batch.lines = outcome.lines /\ batch # NoBatch
  BY <1>6, ImportsAssumption
<1>8. PICK rows \in Seq(Row) : rows = outcome.rows
  BY DEF Outcome
<1>9. batches' = [batches EXCEPT ![r] = batch] /\ usage' = [usage EXCEPT ![r] = rows]
  BY <1>1, <1>4, <1>5, <1>6, <1>8 DEF CommitImport
<1>10. PICK new \in Process :
         /\ req' = [req EXCEPT ![r] = new] /\ new.pc \in {"notify", "done"}
         /\ new.body = p.body /\ new.result = p.result /\ new.inserted = p.inserted
  <2>1. CASE req' = [req EXCEPT ![r].pc = "notify"]
    <3>1. PICK new \in Process : new = [p EXCEPT !.pc = "notify"]
      BY DEF Process
    <3>2. /\ new.pc = "notify" /\ new.body = p.body /\ new.result = p.result
          /\ new.inserted = p.inserted
      BY <3>1 DEF Process
    <3>3. req' = [req EXCEPT ![r] = new]
      BY <1>1, <2>1, <3>1
    <3> QED  BY <3>2, <3>3
  <2>2. CASE Answer(r, "503")
    <3>1. PICK new \in Process : new = [p EXCEPT !.pc = "done", !.answer = "503"]
      BY DEF Process, Answers
    <3>2. /\ new.pc = "done" /\ new.body = p.body /\ new.result = p.result
          /\ new.inserted = p.inserted
      BY <3>1 DEF Process
    <3>3. req' = [req EXCEPT ![r] = new]
      BY <1>1, <2>2, <3>1 DEF Answer
    <3> QED  BY <3>2, <3>3
  <2> QED  BY <2>1, <2>2 DEF CommitImport
<1>11. StageOK(new, batch, rows, {})
  <2>1. IF batch.status = "completed"
        THEN /\ ControlTotals(rows) = Expected(new.body.totals)
             /\ batch.lines = Len(rows) /\ rows # <<>>
        ELSE rows = <<>>
    <3>1. CASE outcome.kind = "parsed"
      BY <1>3, <1>4, <1>5, <1>7, <1>8, <1>10, <3>1 DEF OutcomeOK
    <3>2. CASE outcome.kind # "parsed"
      BY <1>3, <1>4, <1>5, <1>7, <1>8, <1>10, <3>2 DEF OutcomeOK
    <3> QED  BY <3>1, <3>2
  <2>2. new.inserted <= Len(new.result.rows)
    BY <1>3, <1>10
  <2> QED  BY <1>7, <1>10, <2>1, <2>2 DEF StageOK
<1>12. notices' = [notices EXCEPT ![r] = {}]
  BY <1>2, <1>3 DEF ImportsInv
<1>13. /\ tenant' \in Requests \cup {NoRequest} /\ (new.pc = "insert" <=> tenant' = r)
       /\ \A s \in Requests \ {r} : tenant = s <=> tenant' = s
  BY <1>2, <1>10, ImportsAssumption
<1>14. {} \in SUBSET ({"notification", "event"} \X Statuses)
  OBVIOUS
<1> QED  BY <1>2, <1>9, <1>10, <1>11, <1>12, <1>13, <1>14, ImportMoves

\* A notice is told after the commit, and of the batch that was committed.
LEMMA NotifyInv == ASSUME ImportsInv, NEW r \in Requests, Notify(r) PROVE ImportsInv'
<1>1. PICK p \in Process : p = req[r]
  BY DEF ImportsInv
<1>2. p.pc = "notify" /\ Answer(r, "201") /\ UNCHANGED <<active, store, batches, usage, tenant>>
  BY <1>1 DEF Notify
<1>3. PICK batch \in Batch \cup {NoBatch} : batch = batches[r]
  BY DEF ImportsInv
<1>4. PICK rows \in Seq(Row) : rows = usage[r]
  BY DEF ImportsInv
<1>5. StageOK(p, batch, rows, notices[r]) /\ tenant # r
  BY <1>1, <1>2, <1>3, <1>4 DEF ImportsInv
<1>6. batch # NoBatch /\ batch.status \in Statuses
  BY <1>2, <1>5 DEF StageOK, Batch, Statuses
<1>7. PICK sent \in SUBSET {"notification", "event"} :
        notices' = [notices EXCEPT ![r] = sent \X {batch.status}]
  BY <1>3 DEF Notify
<1>8. PICK told \in SUBSET ({"notification", "event"} \X Statuses) : told = sent \X {batch.status}
  BY <1>6
<1>9. \A n \in told : n[2] = batch.status
  BY <1>8
<1>10. PICK new \in Process : new = [p EXCEPT !.pc = "done", !.answer = "201"]
  BY DEF Process, Answers
<1>11. /\ new.pc = "done" /\ new.body = p.body /\ new.result = p.result /\ new.inserted = p.inserted
  BY <1>10 DEF Process
<1>12. req' = [req EXCEPT ![r] = new]
  BY <1>1, <1>2, <1>10 DEF Answer
<1>13. StageOK(new, batch, rows, told)
  BY <1>5, <1>6, <1>9, <1>11 DEF StageOK
<1>14. /\ batches' = [batches EXCEPT ![r] = batch] /\ usage' = [usage EXCEPT ![r] = rows]
       /\ notices' = [notices EXCEPT ![r] = told]
  BY <1>2, <1>3, <1>4, <1>7, <1>8 DEF ImportsInv
<1>15. /\ tenant' \in Requests \cup {NoRequest} /\ (new.pc = "insert" <=> tenant' = r)
       /\ \A s \in Requests \ {r} : tenant = s <=> tenant' = s
  BY <1>2, <1>5, <1>11 DEF ImportsInv
<1> QED  BY <1>2, <1>12, <1>13, <1>14, <1>15, ImportMoves

LEMMA ReadFailsInv == ASSUME ImportsInv, NEW r \in Requests, ReadFails(r) PROVE ImportsInv'
<1>1. tenant # r
  BY DEF ReadFails, ImportsInv
<1> QED  BY <1>1, AnswerOK DEF ReadFails, Answers

LEMMA CrashInv == ASSUME ImportsInv, NEW r \in Requests, Crash(r) PROVE ImportsInv'
BY AnswerOK DEF Crash, Answers

\* The world around the imports: nothing of them depends on what it does.
LEMMA AroundInv ==
  ASSUME ImportsInv, UNCHANGED <<batches, usage, tenant, req, notices>>,
         active' \subseteq DOMAIN ProviderOf, store' \in [Uris -> Files \cup {NoFile}]
  PROVE  ImportsInv'
BY DEF ImportsInv, StageOK, OutcomeOK

LEMMA ImportsNextInv == ImportsInv /\ [ImportsNext]_importVars => ImportsInv'
<1> SUFFICES ASSUME ImportsInv, [ImportsNext]_importVars PROVE ImportsInv'
  OBVIOUS
<1>1. CASE UNCHANGED importVars
  BY <1>1, AroundInv DEF importVars, ImportsInv
<1>2. ASSUME NEW a \in DOMAIN ProviderOf, DeactivateAccount(a) PROVE ImportsInv'
  BY <1>2, AroundInv DEF DeactivateAccount, ImportsInv
<1>3. ASSUME NEW u \in Uris, NEW f \in Files, PutObject(u, f) PROVE ImportsInv'
  BY <1>3, AroundInv DEF PutObject, ImportsInv
<1> QED  BY <1>1, <1>2, <1>3, ReceiveInv, GetCloudAccountInv, ReadObjectInv, BeginImportInv,
            InsertRowInv, RollBackInv, CommitImportInv, NotifyInv, ReadFailsInv, CrashInv
         DEF ImportsNext, ImportStep

\* A completed batch holds every row of a file that reconciles with the totals of its request and
\* any other holds none, what is inserted respects the constraints of the table, and a notice
\* tells what was committed: for any files, bodies and number of requests, whatever fails, dies,
\* is deactivated or written again in the middle.
THEOREM ImportsKeepTheBooks == ImportsSpec => []ImportsAreSound
<1>1. ImportsInv => ImportsAreSound
  <2> SUFFICES ASSUME ImportsInv PROVE ImportsAreSound
    OBVIOUS
  <2>1. ImportsTypeOK
    <3>1. ASSUME NEW r \in Requests
          PROVE  /\ batches[r] = NoBatch \/ batches[r].status \in Statuses
                 /\ usage[r] # <<>> => batches[r] # NoBatch
                 /\ req[r].pc \in {"idle", "account", "object", "begin", "insert", "notify", "done"}
                 /\ req[r].answer \in Answers
                 /\ req[r].inserted \in 0 .. Len(req[r].result.rows)
                 /\ req[r].pc = "insert" <=> tenant = r
                 /\ notices[r] \subseteq {"notification", "event"} \X Statuses
      <4>1. PICK p \in Process : p = req[r]
        BY DEF ImportsInv
      <4>2. PICK batch \in Batch \cup {NoBatch} : batch = batches[r]
        BY DEF ImportsInv
      <4>3. StageOK(p, batch, usage[r], notices[r]) /\ (p.pc = "insert" <=> tenant = r)
            /\ notices[r] \subseteq {"notification", "event"} \X Statuses
        BY <4>1, <4>2 DEF ImportsInv
      <4>4. batch = NoBatch \/ batch.status \in Statuses
        BY DEF Batch, Statuses
      <4>5. usage[r] # <<>> => batch # NoBatch
        BY <4>3 DEF StageOK
      <4>6. p.inserted \in 0 .. Len(p.result.rows)
        <5>1. p.inserted \in Nat /\ Len(p.result.rows) \in Nat
          BY DEF Process, Outcome
        <5> QED  BY <4>3, <5>1 DEF StageOK
      <4>7. /\ p.pc \in {"idle", "account", "object", "begin", "insert", "notify", "done"}
            /\ p.answer \in Answers
        BY DEF Process
      <4> QED  BY <4>1, <4>2, <4>3, <4>4, <4>5, <4>6, <4>7
    <3> QED  BY <3>1 DEF ImportsTypeOK, ImportsInv
  <2>2. UsageReconciles
    BY DEF ImportsInv, StageOK, UsageReconciles
  <2>3. ParsersMatchConstraints
    BY DEF ImportsInv, StageOK, OutcomeOK, RowOK, ParsersMatchConstraints
  <2>4. NoticesTellTheTruth
    BY DEF ImportsInv, StageOK, NoticesTellTheTruth
  <2> QED  BY <2>1, <2>2, <2>3, <2>4 DEF ImportsAreSound
<1> QED  BY <1>1, ImportsInitInv, ImportsNextInv, PTL DEF ImportsSpec

-----------------------------------------------------------------------------
(* Control totals.  A total over a set of rows is defined by recursion on  *)
(* subsets; induction over it becomes the least size at which a claim      *)
(* about subsets of that size would fail.                                  *)

LEMMA LeastNatural ==
  ASSUME NEW S, S \subseteq Nat, S # {}
  PROVE  \E n \in S : \A m \in S : n <= m
<1> DEFINE less == OpToRel(<, Nat)
<1>1. IsWellFoundedOn(less, Nat)
  BY NatLessThanWellFounded
<1>2. \A x, y \in Nat : x < y => <<x, y>> \in less
  BY DEF OpToRel
<1> HIDE DEF less
<1>3. PICK n \in S : \A m \in S : ~ (<<m, n>> \in less)
  BY <1>1, WFMin
<1>4. ASSUME NEW m \in S PROVE n <= m
  <2>1. m \in Nat /\ n \in Nat
    OBVIOUS
  <2>2. ~(m < n)
    BY <1>2, <1>3, <2>1
  <2> QED  BY <2>1, <2>2
<1> QED  BY <1>4

\* The element of D a total takes next.
Pick(D) == CHOOSE x \in D : TRUE

LEMMA PickIs ==
  ASSUME NEW S, IsFiniteSet(S), NEW D \in SUBSET S
  PROVE  /\ IsFiniteSet(D) /\ Cardinality(D) \in Nat /\ (Cardinality(D) = 0 <=> D = {})
         /\ D # {} => Pick(D) \in D
         /\ \A x \in D : D \ {x} \in SUBSET S /\ Cardinality(D \ {x}) = Cardinality(D) - 1
<1>1. IsFiniteSet(D) /\ Cardinality(D) \in Nat /\ (Cardinality(D) = 0 <=> D = {})
  BY FS_Subset, FS_CardinalityType, FS_EmptySet
<1>2. D # {} => Pick(D) \in D
  BY DEF Pick
<1>3. \A x \in D : D \ {x} \in SUBSET S /\ Cardinality(D \ {x}) = Cardinality(D) - 1
  BY <1>1, FS_RemoveElement
<1> QED  BY <1>1, <1>2, <1>3

\* s is the table of the sums of an amount over the subsets of S with at most n rows.
Sums(s, rows, a, S, n) ==
  /\ s \in [SUBSET S -> Nat] /\ s[{}] = 0
  /\ \A D \in SUBSET S : D # {} /\ Cardinality(D) <= n =>
       s[D] = rows[Pick(D)][a] + s[D \ {Pick(D)}]

LEMMA SumsExist ==
  ASSUME NEW S, IsFiniteSet(S), NEW rows, NEW a, \A i \in S : rows[i][a] \in Nat, NEW n \in Nat
  PROVE  \E s : Sums(s, rows, a, S, n)
<1> DEFINE M == {m \in Nat : ~ \E s : Sums(s, rows, a, S, m)}
<1> SUFFICES ASSUME M # {} PROVE FALSE
  OBVIOUS
<1>0. PICK m \in M : \A l \in M : m <= l
  <2>1. M \subseteq Nat
    OBVIOUS
  <2> HIDE DEF M
  <2> QED  BY <2>1, LeastNatural
<1>1. ASSUME NEW D \in SUBSET S
      PROVE  /\ Cardinality(D) \in Nat /\ (Cardinality(D) = 0 <=> D = {})
             /\ D # {} => /\ Pick(D) \in S /\ D \ {Pick(D)} \in SUBSET S
                          /\ Cardinality(D \ {Pick(D)}) = Cardinality(D) - 1
  BY PickIs
<1>2. CASE m = 0
  <2> DEFINE s == [D \in SUBSET S |-> 0]
  <2>1. s \in [SUBSET S -> Nat] /\ s[{}] = 0
    OBVIOUS
  <2>2. ASSUME NEW D \in SUBSET S, Cardinality(D) <= 0 PROVE D = {}
    <3>1. Cardinality(D) \in Nat /\ (Cardinality(D) = 0 <=> D = {})
      BY <1>1
    <3>2. Cardinality(D) = 0
      BY <2>2, <3>1
    <3> QED  BY <3>1, <3>2
  <2> HIDE DEF s
  <2>3. Sums(s, rows, a, S, 0)
    BY <2>1, <2>2 DEF Sums
  <2> QED  BY <1>0, <1>2, <2>3
<1>3. CASE m # 0
  <2>1. m - 1 \in Nat /\ m - 1 \notin M
    BY <1>0, <1>3
  <2>2. PICK s : Sums(s, rows, a, S, m - 1)
    BY <2>1
  <2> DEFINE t == [D \in SUBSET S |-> IF D = {} \/ Cardinality(D) < m THEN s[D]
                                      ELSE rows[Pick(D)][a] + s[D \ {Pick(D)}]]
  <2>3. s \in [SUBSET S -> Nat] /\ s[{}] = 0
    BY <2>2 DEF Sums
  <2>4. ASSUME NEW D \in SUBSET S, D # {} PROVE rows[Pick(D)][a] + s[D \ {Pick(D)}] \in Nat
    <3>1. Pick(D) \in S /\ D \ {Pick(D)} \in SUBSET S
      BY <1>1, <2>4
    <3>2. rows[Pick(D)][a] \in Nat /\ s[D \ {Pick(D)}] \in Nat
      BY <2>3, <3>1
    <3> QED  BY <3>2
  <2>5. t \in [SUBSET S -> Nat] /\ t[{}] = 0
    BY <2>3, <2>4
  <2>6. ASSUME NEW D \in SUBSET S, D # {}, Cardinality(D) <= m
        PROVE  t[D] = rows[Pick(D)][a] + t[D \ {Pick(D)}]
    <3>1. /\ Cardinality(D) \in Nat /\ Cardinality(D \ {Pick(D)}) = Cardinality(D) - 1
          /\ D \ {Pick(D)} \in SUBSET S
      BY <1>1, <2>6
    <3>2. t[D \ {Pick(D)}] = s[D \ {Pick(D)}]
      BY <2>6, <3>1
    <3>3. CASE Cardinality(D) < m
      <4>1. Cardinality(D) <= m - 1
        BY <3>1, <3>3
      <4>2. s[D] = rows[Pick(D)][a] + s[D \ {Pick(D)}]
        BY <2>2, <2>6, <4>1 DEF Sums
      <4>3. t[D] = s[D]
        BY <3>3
      <4> QED  BY <3>2, <4>2, <4>3
    <3>4. CASE ~(Cardinality(D) < m)
      <4>1. t[D] = rows[Pick(D)][a] + s[D \ {Pick(D)}]
        BY <2>6, <3>4
      <4> QED  BY <3>2, <4>1
    <3> QED  BY <3>3, <3>4
  <2> HIDE DEF t
  <2>7. Sums(t, rows, a, S, m)
    BY <2>5, <2>6 DEF Sums
  <2> QED  BY <1>0, <2>7
<1> QED  BY <1>2, <1>3

\* s sums the amount over every subset of S.
SumsAll(s, rows, a, S) ==
  /\ s[{}] = 0
  /\ \A D \in SUBSET S : D # {} => s[D] = rows[Pick(D)][a] + s[D \ {Pick(D)}]

\* The sums are determined by the amounts.
LEMMA SumsAgree ==
  ASSUME NEW S, IsFiniteSet(S), NEW rows, NEW others, NEW a, NEW s, NEW t,
         SumsAll(s, rows, a, S), SumsAll(t, others, a, S),
         NEW D \in SUBSET S, \A i \in D : rows[i][a] = others[i][a]
  PROVE  s[D] = t[D]
<1> DEFINE M == {m \in Nat : \E E \in SUBSET D : Cardinality(E) = m /\ s[E] # t[E]}
<1>1. ASSUME M # {} PROVE FALSE
  <2>1. PICK m \in M : \A l \in M : m <= l
    <3>1. M \subseteq Nat
      OBVIOUS
    <3> HIDE DEF M
    <3> QED  BY <1>1, <3>1, LeastNatural
  <2>2. PICK E \in SUBSET D : Cardinality(E) = m /\ s[E] # t[E]
    OBVIOUS
  <2>3. E \in SUBSET S /\ E # {}
    BY <2>2 DEF SumsAll
  <2>4. /\ Pick(E) \in E /\ E \ {Pick(E)} \in SUBSET D
        /\ Cardinality(E \ {Pick(E)}) = m - 1 /\ m \in Nat /\ m # 0
    BY <2>2, <2>3, PickIs
  <2>5. s[E \ {Pick(E)}] = t[E \ {Pick(E)}]
    <3>1. m - 1 \in Nat /\ m - 1 \notin M
      BY <2>1, <2>4
    <3> QED  BY <2>4, <3>1
  <2>6. rows[Pick(E)][a] = others[Pick(E)][a]
    BY <2>4
  <2> QED  BY <2>2, <2>3, <2>5, <2>6 DEF SumsAll
<1>2. Cardinality(D) \in Nat
  BY PickIs
<1> QED  BY <1>1, <1>2

\* The sums of natural amounts over the subsets of a finite set of places.
Table(s, rows, a, S) ==
  /\ IsFiniteSet(S) /\ \A i \in S : rows[i][a] \in Nat
  /\ s \in [SUBSET S -> Nat] /\ SumsAll(s, rows, a, S)

\* A total may be taken in any order.
LEMMA AnyOrder ==
  ASSUME NEW S, NEW rows, NEW a, NEW s, Table(s, rows, a, S), NEW D, D \subseteq S, NEW x, x \in D
  PROVE  s[D] = rows[x][a] + s[D \ {x}]
<1>0. /\ IsFiniteSet(S) /\ \A i \in S : rows[i][a] \in Nat
      /\ s \in [SUBSET S -> Nat] /\ SumsAll(s, rows, a, S) /\ D \in SUBSET S
  BY DEF Table
<1> DEFINE Wrong(E) == \E y \in E : s[E] # rows[y][a] + s[E \ {y}]
           M == {m \in Nat : \E E \in SUBSET S : Cardinality(E) = m /\ Wrong(E)}
<1>1. ASSUME M # {} PROVE FALSE
  <2>1. PICK m \in M : \A l \in M : m <= l
    <3>1. M \subseteq Nat
      OBVIOUS
    <3> HIDE DEF M
    <3> QED  BY <1>1, <3>1, LeastNatural
  <2>2. PICK E \in SUBSET S : Cardinality(E) = m /\ Wrong(E)
    OBVIOUS
  <2>3. PICK y \in E : s[E] # rows[y][a] + s[E \ {y}]
    BY <2>2
  <2> DEFINE p == Pick(E)
  <2>4. /\ p \in E /\ m \in Nat /\ m # 0
        /\ E \ {p} \in SUBSET S /\ Cardinality(E \ {p}) = m - 1
        /\ E \ {y} \in SUBSET S /\ Cardinality(E \ {y}) = m - 1
    BY <1>0, <2>2, <2>3, PickIs
  <2>5. s[E] = rows[p][a] + s[E \ {p}]
    BY <1>0, <2>3 DEF SumsAll
  <2> HIDE DEF p
  <2>6. p # y
    BY <2>3, <2>5
  <2>7. m - 1 \in Nat /\ m - 1 \notin M
    BY <2>1, <2>4
  <2> HIDE DEF Wrong
  <2>8. ~Wrong(E \ {p}) /\ ~Wrong(E \ {y})
    BY <2>4, <2>7
  <2>9. y \in E \ {p} /\ p \in E \ {y} /\ (E \ {p}) \ {y} = (E \ {y}) \ {p}
    BY <2>4, <2>6
  <2>10. /\ s[E \ {p}] = rows[y][a] + s[(E \ {p}) \ {y}]
         /\ s[E \ {y}] = rows[p][a] + s[(E \ {p}) \ {y}]
    BY <2>8, <2>9 DEF Wrong
  <2>11. rows[y][a] \in Nat /\ rows[p][a] \in Nat /\ s[(E \ {p}) \ {y}] \in Nat
    <3>1. (E \ {p}) \ {y} \in SUBSET S
      BY <2>4
    <3> QED  BY <1>0, <2>3, <2>4, <3>1
  <2> QED  BY <2>3, <2>5, <2>10, <2>11
<1>2. Cardinality(D) \in Nat
  BY <1>0, PickIs
<1>3. ~Wrong(D)
  <2> HIDE DEF Wrong
  <2> QED  BY <1>0, <1>1, <1>2
<1> QED  BY <1>3

\* How the module of sums defines them.
SumTable(s, rows, a, S) ==
  s = [D \in SUBSET S |-> IF D = {} THEN 0 ELSE rows[CHOOSE x \in D : TRUE][a] + s[D \ {CHOOSE x \in D : TRUE}]]

\* A total is the last entry of the table of sums.
LEMMA TotalIs ==
  ASSUME NEW S, IsFiniteSet(S), NEW rows, NEW a, \A i \in S : rows[i][a] \in Nat
  PROVE  \E s : Table(s, rows, a, S) /\ SumOf(rows, a, S) = s[S]
<1>1. PICK s : Sums(s, rows, a, S, Cardinality(S))
  BY FS_CardinalityType, SumsExist
<1>2. s \in [SUBSET S -> Nat] /\ SumsAll(s, rows, a, S)
  <2>1. \A D \in SUBSET S : Cardinality(D) <= Cardinality(S)
    BY FS_Subset
  <2> QED  BY <1>1, <2>1 DEF Sums, SumsAll
<1>3. SumTable(s, rows, a, S)
  <2> DEFINE e(D) == IF D = {} THEN 0 ELSE rows[Pick(D)][a] + s[D \ {Pick(D)}]
  <2>1. \A D \in SUBSET S : s[D] = e(D)
    BY <1>2 DEF SumsAll
  <2> HIDE DEF e
  <2>2. s = [D \in SUBSET S |-> e(D)]
    BY <1>2, <2>1
  <2> QED  BY <2>2 DEF e, SumTable, Pick
<1> DEFINE t == CHOOSE u : SumTable(u, rows, a, S)
<1>4. SumTable(t, rows, a, S)
  BY <1>3, Zenon
<1>5. SumOf(rows, a, S) = t[S]
  BY DEF SumOf, MapThenSumSet, MapThenFoldSet, SumTable
<1> HIDE DEF t
<1>6. SumsAll(t, rows, a, S)
  <2> DEFINE e(E) == IF E = {} THEN 0 ELSE rows[Pick(E)][a] + t[E \ {Pick(E)}]
  <2>1. t = [E \in SUBSET S |-> e(E)]
    BY <1>4 DEF SumTable, Pick
  <2> HIDE DEF e
  <2>2. \A D \in SUBSET S : t[D] = e(D)
    BY <2>1
  <2> QED  BY <2>2 DEF e, SumsAll
<1>7. s[S] = t[S]
  BY <1>2, <1>6, SumsAgree
<1> QED  BY <1>2, <1>5, <1>7 DEF Table

\* What the totals of a file say of the key of one of its rows.
LEMMA ControlTotalsAre ==
  ASSUME NEW rows, NEW k, k \in {KeyOf(rows[i]) : i \in DOMAIN rows}
  PROVE  LET G == {i \in DOMAIN rows : KeyOf(rows[i]) = k} IN
         /\ k \in DOMAIN ControlTotals(rows)
         /\ ControlTotals(rows)[k].lines = Cardinality(G)
         /\ \A a \in Amounts :
              ControlTotals(rows)[k].sum[a] = SumOf(rows, a, G)
  BY DEF ControlTotals, KeyOf

\* The sum of an amount over the rows G of a key.
LEMMA KeyTotalIs ==
  ASSUME NEW rows, NEW k, k \in {KeyOf(rows[i]) : i \in DOMAIN rows},
         NEW G, G = {i \in DOMAIN rows : KeyOf(rows[i]) = k}, NEW a \in Amounts
  PROVE  ControlTotals(rows)[k].sum[a] = SumOf(rows, a, G)
  BY DEF ControlTotals, KeyOf

\* No row and no two rows of a key of a file that reconciles cost more than the
\* request declared for the key.
LEMMA ReconciledCosts ==
  ASSUME NEW rows, NEW totals, IsFiniteSet(DOMAIN rows),
         \A i \in DOMAIN rows : \A a \in Amounts : rows[i][a] \in Nat,
         Reconciles(rows, totals)
  PROVE  DeclaresCosts(rows, totals)
<1> SUFFICES ASSUME NEW i \in DOMAIN rows, NEW a \in Amounts
             PROVE  LET declared == Expected(totals)[KeyOf(rows[i])].sum[a] IN
                    /\ rows[i][a] <= declared
                    /\ \A j \in DOMAIN rows \ {i} : KeyOf(rows[j]) = KeyOf(rows[i]) =>
                           rows[i][a] + rows[j][a] <= declared
  BY DEF DeclaresCosts
<1> DEFINE k == KeyOf(rows[i])
           G == {j \in DOMAIN rows : KeyOf(rows[j]) = k}
           declared == Expected(totals)[k].sum[a]
<1>1. declared = SumOf(rows, a, G)
  <2>1. k \in {KeyOf(rows[j]) : j \in DOMAIN rows}
    OBVIOUS
  <2>2. ControlTotals(rows)[k].sum[a] = SumOf(rows, a, G)
    <3>1. G = {j \in DOMAIN rows : KeyOf(rows[j]) = k}
      OBVIOUS
    <3> HIDE DEF k, G
    <3> QED  BY <2>1, <3>1, KeyTotalIs
  <2> QED  BY <2>2 DEF Reconciles
<1>2. IsFiniteSet(G) /\ \A j \in G : rows[j][a] \in Nat
  BY FS_Subset
<1>3. i \in G /\ \A j \in DOMAIN rows : KeyOf(rows[j]) = k => j \in G
  OBVIOUS
<1> HIDE DEF G, declared
<1>4. PICK s : Table(s, rows, a, G) /\ SumOf(rows, a, G) = s[G]
  BY <1>2, TotalIs
<1>5. s[G] = rows[i][a] + s[G \ {i}]
  <2>1. G \subseteq G
    OBVIOUS
  <2> QED  BY <1>2, <1>3, <1>4, <2>1, AnyOrder
<1>6. rows[i][a] \in Nat /\ s[G \ {i}] \in Nat
  BY <1>2, <1>3, <1>4 DEF Table
<1>7. rows[i][a] <= declared
  BY <1>1, <1>4, <1>5, <1>6
<1>8. ASSUME NEW j \in DOMAIN rows \ {i}, KeyOf(rows[j]) = k
      PROVE  rows[i][a] + rows[j][a] <= declared
  <2>1. j \in G \ {i} /\ G \ {i} \subseteq G
    BY <1>3, <1>8
  <2>2. s[G \ {i}] = rows[j][a] + s[(G \ {i}) \ {j}]
    BY <1>2, <1>4, <2>1, AnyOrder
  <2>3. rows[j][a] \in Nat /\ s[(G \ {i}) \ {j}] \in Nat
    BY <1>2, <1>4, <2>1 DEF Table
  <2> QED  BY <1>1, <1>4, <1>5, <1>6, <2>2, <2>3
<1> QED  BY <1>7, <1>8 DEF declared

\* However many rows an import has, what it stores costs what its request declared:
\* computeControlTotals counts and adds up every row, validateControlTotals compares all
\* of the totals, and between the comparison and the commit of createImport no row is
\* added, left out or changed.
THEOREM StoredAsDeclared ==
  ImportsSpec => [](\A r \in Requests :
                      usage[r] # <<>> => DeclaresCosts(usage[r], req[r].body.totals))
<1>1. ASSUME ImportsInv
      PROVE  \A r \in Requests : usage[r] # <<>> => DeclaresCosts(usage[r], req[r].body.totals)
  <2> SUFFICES ASSUME NEW r \in Requests, usage[r] # <<>>
               PROVE  DeclaresCosts(usage[r], req[r].body.totals)
    OBVIOUS
  <2> DEFINE rows == usage[r]
  <2>1. rows \in Seq(Row) /\ Reconciles(rows, req[r].body.totals)
    BY <1>1 DEF ImportsInv, StageOK, Reconciles
  <2> HIDE DEF rows
  <2>2. Len(rows) \in Nat /\ DOMAIN rows = 1 .. Len(rows) /\ \A i \in DOMAIN rows : rows[i] \in Row
    BY <2>1
  <2>3. IsFiniteSet(DOMAIN rows)
    <3>1. 1 \in Int /\ Len(rows) \in Int
      BY <2>2
    <3> QED  BY <2>2, <3>1, FS_Interval
  <2>4. \A i \in DOMAIN rows : \A a \in Amounts : rows[i][a] \in Nat
    BY <2>2 DEF Row, Amounts
  <2>5. DeclaresCosts(rows, req[r].body.totals)
    BY <2>1, <2>3, <2>4, ReconciledCosts, Zenon
  <2> QED  BY <2>5 DEF rows
<1> QED  BY <1>1, ImportsInitInv, ImportsNextInv, PTL DEF ImportsSpec

\* An alteration of one row is found: no two files that differ in the key or in an
\* amount of one row both pass the reconciliation with the same declared totals. The
\* moved row is missing from the count of its key, the changed amount from its sum.
THEOREM AlterationsAreFound ==
  ASSUME NEW rows, NEW others, NEW totals, NEW i, IsFiniteSet(DOMAIN rows),
         \A j \in DOMAIN rows : \A a \in Amounts : rows[j][a] \in Nat /\ others[j][a] \in Nat,
         OneRowAltered(rows, others, i), Reconciles(rows, totals)
  PROVE  ~Reconciles(others, totals)
<1> SUFFICES ASSUME Reconciles(others, totals) PROVE FALSE
  OBVIOUS
<1> DEFINE k == KeyOf(rows[i])
           G == {j \in DOMAIN rows : KeyOf(rows[j]) = k}
           H == {j \in DOMAIN others : KeyOf(others[j]) = k}
<1>1. /\ DOMAIN others = DOMAIN rows /\ i \in DOMAIN rows
      /\ \A j \in DOMAIN rows \ {i} : rows[j] = others[j]
  BY DEF OneRowAltered
<1>2. ControlTotals(rows) = ControlTotals(others)
  BY DEF Reconciles
<1>3. /\ k \in DOMAIN ControlTotals(rows)
      /\ ControlTotals(rows)[k].lines = Cardinality(G)
      /\ \A a \in Amounts : ControlTotals(rows)[k].sum[a] = SumOf(rows, a, G)
  BY <1>1, ControlTotalsAre
<1>4. k \in {KeyOf(others[j]) : j \in DOMAIN others}
  BY <1>2, <1>3 DEF ControlTotals, KeyOf
<1>5. /\ ControlTotals(others)[k].lines = Cardinality(H)
      /\ \A a \in Amounts : ControlTotals(others)[k].sum[a] = SumOf(others, a, H)
  BY <1>4, ControlTotalsAre
<1>6. IsFiniteSet(G) /\ i \in G
  BY <1>1, FS_Subset
<1>7. KeyOf(others[i]) = k
  <2> SUFFICES ASSUME KeyOf(others[i]) # k PROVE FALSE
    OBVIOUS
  <2>1. H = G \ {i}
    BY <1>1
  <2>2. Cardinality(G \ {i}) = Cardinality(G) - 1 /\ Cardinality(G) \in Nat
    BY <1>6, FS_RemoveElement, FS_CardinalityType
  <2> HIDE DEF G, H, k
  <2> QED  BY <1>2, <1>3, <1>5, <2>1, <2>2
<1>8. H = G
  BY <1>1, <1>7
<1>9. PICK a \in Amounts : rows[i][a] # others[i][a]
  BY <1>7 DEF OneRowAltered
<1>10. SumOf(rows, a, G) = SumOf(others, a, G)
  BY <1>2, <1>3, <1>5, <1>8
<1>11. \A j \in G : rows[j][a] \in Nat /\ others[j][a] \in Nat
  OBVIOUS
<1>12. \A j \in G \ {i} : rows[j] = others[j]
  BY <1>1
<1> HIDE DEF G, H, k
<1>13. PICK s : Table(s, rows, a, G) /\ SumOf(rows, a, G) = s[G]
  BY <1>6, <1>11, TotalIs
<1>14. PICK t : Table(t, others, a, G) /\ SumOf(others, a, G) = t[G]
  BY <1>6, <1>11, TotalIs
<1>15. s[G] = rows[i][a] + s[G \ {i}] /\ t[G] = others[i][a] + t[G \ {i}]
  <2>1. G \subseteq G
    OBVIOUS
  <2>2. s[G] = rows[i][a] + s[G \ {i}]
    BY <1>6, <1>11, <1>13, <2>1, AnyOrder
  <2>3. t[G] = others[i][a] + t[G \ {i}]
    BY <1>6, <1>11, <1>14, <2>1, AnyOrder
  <2> QED  BY <2>2, <2>3
<1>16. s[G \ {i}] = t[G \ {i}] /\ s[G \ {i}] \in Nat
  <2>1. G \ {i} \in SUBSET G
    OBVIOUS
  <2>2. \A j \in G \ {i} : rows[j][a] = others[j][a]
    BY <1>12
  <2>3. SumsAll(s, rows, a, G) /\ SumsAll(t, others, a, G) /\ s[G \ {i}] \in Nat
    BY <1>13, <1>14, <2>1 DEF Table
  <2> QED  BY <1>6, <2>1, <2>2, <2>3, SumsAgree
<1>17. rows[i][a] \in Nat /\ others[i][a] \in Nat
  BY <1>6, <1>11
<1>18. s[G] = t[G]
  BY <1>10, <1>13, <1>14
<1> QED  BY <1>9, <1>15, <1>16, <1>17, <1>18
=============================================================================
