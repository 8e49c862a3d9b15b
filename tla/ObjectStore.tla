------------------------------ MODULE ObjectStore -----------------------------
(***************************************************************************)
(* The local object store (core/shared/objectStore.ts) at one key, system  *)
(* call by system call: a put writes a temporary file and renames it, a    *)
(* get compares the file it opened with the one the path names before it   *)
(* reads it, a delete removes the path.  Callers of several processes      *)
(* overlap; they fail and die at any point, and the store is closed.       *)
(***************************************************************************)
EXTENDS Naturals

CONSTANTS
  Callers, Values, None,
  MaxFiles      \* files created (bound)

Writing == {"write", "rename", "cleanup"}
Steps == Writing \cup {"create", "find", "open", "compare", "read", "remove", "done"}

ASSUME ObjectStoreAssumption ==
  /\ MaxFiles \in Nat \ {0}
  /\ None \notin Values \cup Steps \cup {"part"} /\ "part" \notin Values

VARIABLES
  files,        \* the content of each file created: a value, "part" of one, or None
  path,         \* the file the key names, or 0
  temporaries,  \* files that have the name of a temporary
  closed,
  pc,           \* of each caller
  op,           \* op[c]: the operation called
  file,         \* the file a caller has open, or 0
  got,          \* what a get answers
  seen          \* the content the key named when a get compared (history)

disk == <<files, path, temporaries>>
vars == <<disk, closed, pc, op, file, got, seen>>

Operations == ({"get", "delete"} \X {None}) \cup ({"put"} \X Values)

Init ==
  /\ files = [f \in 1 .. MaxFiles |-> None] /\ path = 0 /\ temporaries = {}
  /\ closed = FALSE
  /\ pc = [c \in Callers |-> None] /\ op = [c \in Callers |-> <<"get", None>>]
  /\ file = [c \in Callers |-> 0]
  /\ got = [c \in Callers |-> None] /\ seen = [c \in Callers |-> None]

Goto(c, step) == pc' = [pc EXCEPT ![c] = step]

\* assertOpen, which is asked once, at the call.
Start(c) ==
  /\ pc[c] = None /\ ~closed
  /\ \E o \in Operations :
       /\ op' = [op EXCEPT ![c] = o]
       /\ Goto(c, IF o[1] = "put" THEN "create" ELSE "find")
  /\ got' = [got EXCEPT ![c] = None] /\ seen' = [seen EXCEPT ![c] = None]
  /\ UNCHANGED <<disk, closed, file>>

-----------------------------------------------------------------------------
(* put *)

\* Fault: every temporary of the key has the same name and is written over.
CreateShared(c) ==
  /\ pc[c] = "create"
  /\ \E f \in 1 .. MaxFiles :
       /\ \/ f \in temporaries
          \/ temporaries = {} /\ files[f] = None /\ \A g \in 1 .. f - 1 : files[g] # None
       /\ files' = [files EXCEPT ![f] = "part"]
       /\ temporaries' = temporaries \cup {f}
       /\ file' = [file EXCEPT ![c] = f]
  /\ Goto(c, "write")
  /\ UNCHANGED <<path, closed, op, got, seen>>

\* The name of the temporary is unique: writeFile creates it and writes a part.
Create(c) ==
  /\ pc[c] = "create"
  /\ \E f \in 1 .. MaxFiles :
       /\ files[f] = None /\ \A g \in 1 .. f - 1 : files[g] # None
       /\ files' = [files EXCEPT ![f] = "part"]
       /\ temporaries' = temporaries \cup {f}
       /\ file' = [file EXCEPT ![c] = f]
  /\ Goto(c, "write")
  /\ UNCHANGED <<path, closed, op, got, seen>>

\* Fault: the temporary is renamed before all of it is written.
WriteLater(c) ==
  /\ pc[c] = "write"
  /\ Goto(c, "rename")
  /\ UNCHANGED <<disk, closed, op, file, got, seen>>

Write(c) ==
  /\ pc[c] = "write"
  /\ files' = [files EXCEPT ![file[c]] = op[c][2]]
  /\ Goto(c, "rename")
  /\ UNCHANGED <<path, temporaries, closed, op, file, got, seen>>

Rename(c) ==
  /\ pc[c] = "rename"
  /\ path' = file[c] /\ temporaries' = temporaries \ {file[c]}
  /\ Goto(c, "done")
  /\ UNCHANGED <<files, closed, op, file, got, seen>>

\* Writing, the check of the directory or the rename throws.
PutFails(c) ==
  /\ pc[c] \in {"write", "rename"}
  /\ Goto(c, "cleanup")
  /\ UNCHANGED <<disk, closed, op, file, got, seen>>

\* rm takes the temporary away, or leaves it: it fails as the write did, or the directory
\* was moved or replaced, the name holds nothing and force is content with that.
Cleanup(c) ==
  /\ pc[c] = "cleanup"
  /\ \/ temporaries' = temporaries \ {file[c]}
     \/ UNCHANGED temporaries
  /\ Goto(c, None)
  /\ UNCHANGED <<files, path, closed, op, file, got, seen>>

-----------------------------------------------------------------------------
(* get and delete *)

\* resolveExistingObjectPath: a missing path ends both operations, one as not found.
Find(c) ==
  /\ pc[c] = "find"
  /\ Goto(c, IF path = 0 THEN "done" ELSE IF op[c][1] = "get" THEN "open" ELSE "remove")
  /\ UNCHANGED <<disk, closed, op, file, got, seen>>

Open(c) ==
  /\ pc[c] = "open"
  /\ file' = [file EXCEPT ![c] = path]
  /\ Goto(c, IF path = 0 THEN "done" ELSE "compare")
  /\ UNCHANGED <<disk, closed, op, got, seen>>

\* stat of the open file and lstat of the path: another file is OBJECT_KEY_INVALID.
Compare(c) ==
  /\ pc[c] = "compare"
  /\ \/ path = 0 /\ Goto(c, "done")
     \/ path # 0 /\ path = file[c] /\ Goto(c, "read")
     \/ path # 0 /\ path # file[c] /\ Goto(c, None)
  /\ seen' = [seen EXCEPT ![c] = IF path = 0 THEN None ELSE files[path]]
  /\ UNCHANGED <<disk, closed, op, file, got>>

Read(c) ==
  /\ pc[c] = "read"
  /\ got' = [got EXCEPT ![c] = files[file[c]]]
  /\ Goto(c, "done")
  /\ UNCHANGED <<disk, closed, op, file, seen>>

Remove(c) ==
  /\ pc[c] = "remove"
  /\ path' = 0
  /\ Goto(c, "done")
  /\ UNCHANGED <<files, temporaries, closed, op, file, got, seen>>

-----------------------------------------------------------------------------
Return(c) ==
  /\ pc[c] = "done" /\ Goto(c, None)
  /\ UNCHANGED <<disk, closed, op, file, got, seen>>

\* A system call of a get or a delete fails, or the directory of a put cannot be made.
Fail(c) ==
  /\ pc[c] \in {"create", "find", "open", "compare", "read", "remove"} /\ Goto(c, None)
  /\ UNCHANGED <<disk, closed, op, file, got, seen>>

\* The caller's process dies.
Die(c) ==
  /\ pc[c] # None /\ Goto(c, None)
  /\ UNCHANGED <<disk, closed, op, file, got, seen>>

\* Operations under way go on.
Close ==
  /\ ~closed /\ closed' = TRUE
  /\ UNCHANGED <<disk, pc, op, file, got, seen>>

Step(c) ==
  \/ Start(c) \/ Create(c) \/ Write(c) \/ Rename(c) \/ PutFails(c) \/ Cleanup(c)
  \/ Find(c) \/ Open(c) \/ Compare(c) \/ Read(c) \/ Remove(c) \/ Return(c) \/ Fail(c) \/ Die(c)

Next == Close \/ \E c \in Callers : Step(c)
Spec == Init /\ [][Next]_vars
-----------------------------------------------------------------------------
TypeOK ==
  /\ files \in [1 .. MaxFiles -> Values \cup {"part", None}]
  /\ path \in 0 .. MaxFiles /\ (path # 0 => files[path] # None)
  /\ temporaries \subseteq 1 .. MaxFiles /\ path \notin temporaries
  /\ pc \in [Callers -> Steps \cup {None}]
  /\ op \in [Callers -> Operations]
  /\ file \in [Callers -> 0 .. MaxFiles]
  /\ got \in [Callers -> Values \cup {"part", None}]
  /\ seen \in [Callers -> Values \cup {"part", None}]

\* The temporary of a put is there until its rename, holds what the put wrote, and is no
\* other caller's, whatever failed and dead writers have left (randomUUID, flag "wx", and
\* putLocalObject renames and removes its own only); what a get serves is never one.
TemporariesArePrivate ==
  \A c \in Callers :
    /\ pc[c] \in Writing =>
         /\ file[c] \in temporaries
         /\ \A d \in Callers \ {c} : pc[d] \in Writing \cup {"read"} => file[d] # file[c]
    /\ pc[c] = "write" => files[file[c]] = "part"
    /\ pc[c] = "rename" => files[file[c]] = op[c][2]
    /\ pc[c] = "read" => file[c] \notin temporaries

\* What the map has of a caller: its operation, until it takes effect, and its answer.
CallAt(c) ==
  IF pc[c] = None THEN <<"idle", None>>
  ELSE IF pc[c] \in {"read", "done"} THEN <<"done", None>> ELSE op[c]
AnswerAt(c) == IF pc[c] = "read" THEN seen[c] ELSE got[c]

MapObject == IF path = 0 THEN None ELSE files[path]
MapCall == [c \in Callers |-> CallAt(c)]
MapAnswer == [c \in Callers |-> AnswerAt(c)]

\* The store is the atomic map of ObjectMap: a put takes effect at its rename, a delete at
\* its rm, a get at its lstat, and a path that is missing when it is looked for at that
\* lookup.  A reader never gets a part of an object, an object of before its call, or two.
Map == INSTANCE ObjectMap WITH object <- MapObject, call <- MapCall, answer <- MapAnswer
AtomicObjects == Map!Spec
=============================================================================
