------------------------------- MODULE ObjectMap ------------------------------
(***************************************************************************)
(* What an object store promises of one key (core/shared/objectStore.ts,   *)
(* interface ObjectStore): every put, get and delete takes effect at one   *)
(* moment between its call and its answer, or fails and changes nothing.   *)
(***************************************************************************)
CONSTANTS Callers, Values, None

VARIABLES
  object,   \* the object stored under the key, or None
  call,     \* call[c]: the operation under way, Done, or Idle
  answer    \* answer[c]: of the last operation that took effect: an object, or None

vars == <<object, call, answer>>

Operations == ({"get", "delete"} \X {None}) \cup ({"put"} \X Values)
Idle == <<"idle", None>>
Done == <<"done", None>>

Init ==
  /\ object = None
  /\ call = [c \in Callers |-> Idle] /\ answer = [c \in Callers |-> None]

Call(c) ==
  /\ call[c] = Idle
  /\ \E o \in Operations : call' = [call EXCEPT ![c] = o]
  /\ answer' = [answer EXCEPT ![c] = None]
  /\ UNCHANGED object

Finish(c) == call' = [call EXCEPT ![c] = Done]

Put(c) ==
  /\ \E v \in Values : call[c] = <<"put", v>> /\ object' = v
  /\ Finish(c) /\ UNCHANGED answer

Get(c) ==
  /\ call[c] = <<"get", None>>
  /\ answer' = [answer EXCEPT ![c] = object]
  /\ Finish(c) /\ UNCHANGED object

Delete(c) ==
  /\ call[c] = <<"delete", None>> /\ object' = None
  /\ Finish(c) /\ UNCHANGED answer

\* The answer is given, the operation fails, or its caller dies.
Return(c) ==
  /\ call[c] # Idle /\ call' = [call EXCEPT ![c] = Idle]
  /\ UNCHANGED object
  /\ answer' = answer \/ answer' = [answer EXCEPT ![c] = None]

Next == \E c \in Callers : Call(c) \/ Put(c) \/ Get(c) \/ Delete(c) \/ Return(c)
Spec == Init /\ [][Next]_vars
=============================================================================
