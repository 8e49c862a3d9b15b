------------------------------ MODULE MCStorage -----------------------------
(***************************************************************************)
(* What tenants bring and keep, for TLC.  component says what moves in a   *)
(* behaviour: callers of one key of the object store; an import of any     *)
(* file; two imports that race and fail; or patches and deactivations of   *)
(* a cloud account.                                                        *)
(***************************************************************************)
EXTENDS ObjectStore, Imports, CloudAccounts, TLC

VARIABLE component

-----------------------------------------------------------------------------
Good(key, cost) ==
    [provider |-> "aws", key |-> key, period |-> TRUE, text |-> TRUE, numbers |-> TRUE,
     secret |-> FALSE, quantity |-> 1, onDemand |-> cost, realized |-> 1, applied |-> 1]

\* A row of each kind.  Cheap costs less than one cent on demand in an AWS report, and Big
\* does not fit its column.
Jan == Good("jan", 2)
Feb == Good("feb", 1)
Gcp == [Jan EXCEPT !.provider = "gcp"]
Backwards == [Jan EXCEPT !.period = FALSE]
Fifteen == [Jan EXCEPT !.onDemand = 15, !.realized = 4]
Cheap == [Jan EXCEPT !.onDemand = 4, !.realized = 15]
Big == [Jan EXCEPT !.onDemand = 9]
AllRows == {Jan, Feb, Gcp, Backwards, Fifteen, Cheap, Big,
            [Jan EXCEPT !.text = FALSE], [Jan EXCEPT !.numbers = FALSE],
            [Jan EXCEPT !.secret = TRUE], [Jan EXCEPT !.applied = 3]}

Holding(rows) == [readable |-> TRUE, columns |-> TRUE, rows |-> rows]
Unreadable == [Holding(<<Jan>>) EXCEPT !.readable = FALSE]

RichFiles ==
    {Holding(s) : s \in {<<>>} \cup {<<x>> : x \in AllRows} \cup {<<Jan, x>> : x \in AllRows}
                        \cup {<<Jan, Feb, Jan>>}}
    \cup {[Holding(<<Jan>>) EXCEPT !.columns = FALSE], Unreadable}
RacingFiles == {Holding(<<Jan, Feb>>), Holding(<<Jan, Backwards>>), Holding(<<Jan, Big>>), Unreadable}

\* The control total of some rows, all of one key.
Total(rows) ==
    [key |-> <<rows[1].provider, rows[1].key>>,
     total |-> [lines |-> Len(rows), sum |-> [a \in {"quantity", "onDemand", "realized", "applied"} |->
                  IF Len(rows) = 1 THEN rows[1][a] ELSE rows[1][a] + rows[2][a]]]]
Cents(onDemand, realized, applied) ==
    [Jan EXCEPT !.onDemand = onDemand, !.realized = realized, !.applied = applied]

\* The last totals are those of Fifteen and Cheap in cents, and a wrong one.
RichTotals ==
    {<<>>, <<Total(<<Jan>>)>>, <<Total(<<Gcp>>)>>, <<Total(<<Jan>>), Total(<<Feb>>)>>,
     <<Total(<<Jan, Jan>>)>>, <<Total(<<Jan, Jan>>), Total(<<Jan>>)>>, <<Total(<<Big>>)>>,
     <<Total(<<Cents(2, 0, 2)>>)>>, <<Total(<<Cents(0, 2, 0)>>)>>, <<Total(<<Cents(1, 1, 1)>>)>>}

RichBodies ==
    [source : {"synthetic", "aws_cur", "gcp_export"},
     format : {"csv", "parquet", "json_api_snapshot", "native_cur", "manual_override"},
     uri : {"u1"}, account : {"a1", "g1"}, totals : RichTotals]
RacingBodies ==
    [source : {"synthetic"}, format : {"csv", "parquet"}, uri : {"u1"}, account : {"a1"},
     totals : {<<Total(<<Jan>>), Total(<<Feb>>)>>, <<Total(<<Jan, Big>>)>>}]

TheUris == {"u1"}
TheProviders == [a1 |-> "aws", g1 |-> "gcp"]
TheFiles == RichFiles \cup RacingFiles
TheBodies == RichBodies \cup RacingBodies

\* What is stored costs what was declared: a file that reconciles does.
ASSUME CostsAreDeclared ==
    \A f \in TheFiles, totals \in RichTotals :
        Reconciles(f.rows, totals) => DeclaresCosts(f.rows, totals)

\* No two files that differ in one row reconcile with the same totals.
ASSUME AlterationsAreFound ==
    \A f, g \in TheFiles, totals \in RichTotals : \A i \in DOMAIN f.rows :
        OneRowAltered(f.rows, g.rows, i) =>
            ~(Reconciles(f.rows, totals) /\ Reconciles(g.rows, totals))

-----------------------------------------------------------------------------
MCInit ==
    /\ Init /\ ImportsInit /\ AccountsInit
    /\ component \in {"objects", "parsing", "racing", "patching"}
    /\ component = "parsing" => store \in [Uris -> RichFiles \cup {NoFile}]
    /\ component = "racing" => store \in [Uris -> RacingFiles \cup {NoFile}]
    /\ component \notin {"parsing", "racing"} => store = [u \in Uris |-> NoFile]

\* One request, whose process lives, reads once: any file is there from the start.
OneImport ==
    \/ \E r \in Requests :
        /\ \A s \in Requests \ {r} : req[s].pc = "idle"
        /\ \/ \E b \in RichBodies : Receive(r, b)
           \/ ImportStep(r) /\ ~Crash(r) /\ ~ReadFails(r)
    \/ \E a \in DOMAIN ProviderOf : DeactivateAccount(a)

\* Two imports into one account, and files that are replaced.
TwoImports ==
    \/ \E r \in Requests : ImportStep(r) \/ \E b \in RacingBodies : Receive(r, b)
    \/ DeactivateAccount("a1")
    \/ \E u \in Uris, f \in RacingFiles : PutObject(u, f)

MCNext ==
    /\ UNCHANGED component
    /\ \/ component = "objects" /\ Next /\ UNCHANGED <<importVars, accountVars>>
       \/ /\ \/ component = "parsing" /\ OneImport
             \/ component = "racing" /\ TwoImports
          /\ UNCHANGED <<vars, accountVars>>
       \/ component = "patching" /\ AccountsNext /\ UNCHANGED <<vars, importVars>>

MCSpec == MCInit /\ [][MCNext]_<<component, vars, importVars, accountVars>>

Symmetric == Permutations(Callers) \cup Permutations(Requests) \cup Permutations(Clients)
=============================================================================
