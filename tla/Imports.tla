-------------------------------- MODULE Imports --------------------------------
(***************************************************************************)
(* Billing imports (core/imports): POST /api/imports reads a file from the *)
(* object store, parses it with one of three parsers, reconciles it with   *)
(* the control totals of the request, and writes the batch and its usage   *)
(* rows in one transaction that holds the tenant row.  Notices follow the  *)
(* commit.  Several requests, a store whose objects change, accounts that  *)
(* are deactivated, calls that fail and processes that die.                *)
(***************************************************************************)
EXTENDS Naturals, FiniteSets, Sequences, FiniteSetsExt

CONSTANTS
    Requests,    \* POST /api/imports, one batch each
    NoRequest,   \* the holder of a free tenant row
    NoFile,      \* what a key without an object has
    NoBatch,     \* the batch of a request that has none
    Bodies,      \* valid bodies: [source, format, uri, account, totals]
    Files,       \* what an object may hold
    Uris,        \* keys of the object store
    ProviderOf,  \* ProviderOf[a]: the provider of cloud account a
    ManualLimit, \* rows of a manual override (100)
    MaxBigint,   \* the largest amount a BIGINT column holds
    ImportsFail  \* whether calls fail and processes die

\* A row of a file.  Amounts are cents, in an AWS cost and usage report tenths
\* of a cent.  key: service, region and month.  text, numbers: whether the other
\* columns match their patterns; a number of nineteen digits does.
Row == [provider : {"aws", "azure", "gcp"}, key : STRING, period : BOOLEAN,
        text : BOOLEAN, numbers : BOOLEAN, secret : BOOLEAN, quantity : Nat,
        onDemand : Nat, realized : Nat, applied : Nat]

File == [readable : BOOLEAN, columns : BOOLEAN, rows : Seq(Row)]
Batch == [status : {"completed", "quarantined"}, lines : Nat]

ASSUME ImportsAssumption ==
    /\ NoRequest \notin Requests /\ Bodies # {}
    /\ Files \subseteq File /\ NoBatch \notin Batch
    /\ \A b \in Bodies : b.uri \in Uris /\ b.account \in DOMAIN ProviderOf
    /\ ManualLimit \in Nat /\ MaxBigint \in Nat /\ ImportsFail \in BOOLEAN

VARIABLES
    active,   \* accounts that are active
    store,    \* store[u]: the file at u, or NoFile
    batches,  \* batches[r]: the committed row of the batch of request r, or NoBatch
    usage,    \* usage[r]: its committed usage rows
    tenant,   \* the transaction that holds the tenant row
    req,      \* req[r]: the process of request r
    notices   \* notices[r]: <<channel, status>> of the notices enqueued for r

importVars == <<active, store, batches, usage, tenant, req, notices>>

-----------------------------------------------------------------------------
(* Parsing *)

\* isAllowedSourceFormat
AllowedSourceFormat(source, format) ==
    CASE format = "native_cur" -> source = "aws_cur"
      [] format = "manual_override" -> source = "synthetic"
      [] OTHER -> source \in {"synthetic", "aws_cur", "azure_export", "gcp_export"}

\* moneyCents: half up.
MoneyCents(tenths) == (tenths + 5) \div 10

Amounts == {"quantity", "onDemand", "realized", "applied"}

\* An amount of the rows at these places, summed up.
SumOf(rows, a, places) == MapThenSumSet(LAMBDA i : rows[i][a], places)

\* The totals of rows, for each provider, service, region and month.
ControlTotals(rows) ==
    [k \in {<<rows[i].provider, rows[i].key>> : i \in DOMAIN rows} |->
        LET of == {i \in DOMAIN rows : <<rows[i].provider, rows[i].key>> = k}
        IN [lines |-> Cardinality(of),
            sum |-> [a \in Amounts |-> SumOf(rows, a, of)]]]

\* The control totals of a body by key; a repeated key keeps its last total.
Expected(totals) ==
    [k \in {totals[i].key : i \in DOMAIN totals} |->
        totals[Max({i \in DOMAIN totals : totals[i].key = k})].total]

\* validateControlTotals
Reconciles(rows, totals) == ControlTotals(rows) = Expected(totals)

KeyOf(row) == <<row.provider, row.key>>

\* Reference: the totals a body declares, in the way a reader would check them: no row and
\* no two rows of a key cost more than the total that was declared for the key.
DeclaresCosts(rows, totals) ==
    \A i \in DOMAIN rows, a \in Amounts :
        LET declared == Expected(totals)[KeyOf(rows[i])].sum[a] IN
        /\ rows[i][a] <= declared
        /\ \A j \in DOMAIN rows \ {i} : KeyOf(rows[j]) = KeyOf(rows[i]) =>
               rows[i][a] + rows[j][a] <= declared

\* Two files that differ in the key or an amount of one row.
OneRowAltered(rows, others, i) ==
    /\ DOMAIN rows = DOMAIN others /\ i \in DOMAIN rows
    /\ \A j \in DOMAIN rows \ {i} : rows[j] = others[j]
    /\ \/ KeyOf(rows[i]) # KeyOf(others[i])
       \/ \E a \in Amounts : rows[i][a] # others[i][a]

Quarantined(code, lines) == [kind |-> "quarantined", code |-> code, rows |-> <<>>, lines |-> lines]
Throws == [kind |-> "throws", code |-> "INTERNAL_ERROR", rows |-> <<>>, lines |-> 0]

\* parseUsageRow of the canonical and the synthetic parser.
ValidRow(row, provider) ==
    /\ row.provider = provider
    /\ row.period
    /\ row.numbers /\ row.applied <= row.onDemand
    /\ ~row.secret
    /\ row.text

\* parseUsageRow of the AWS parser: whatever the row says of its provider and
\* its commitment; the tags are taken as they are.
ValidAwsRow(row) == row.period /\ row.numbers /\ row.text

AwsRow(row) ==
    LET onDemand == MoneyCents(row.onDemand)  realized == MoneyCents(row.realized)
    IN [row EXCEPT !.provider = "aws", !.onDemand = onDemand, !.realized = realized,
                   !.applied = IF onDemand > realized THEN onDemand - realized ELSE 0]

\* The rows are all good, or the first bad one quarantines the file.
RowsOrQuarantine(rows, lines, totals) ==
    IF Reconciles(rows, totals)
    THEN [kind |-> "parsed", code |-> "none", rows |-> rows, lines |-> lines]
    ELSE Quarantined("IMPORT_CONTROL_TOTAL_MISMATCH", lines)

ParseAws(object, provider, totals) ==
    LET lines == Len(object.rows) IN
    IF provider # "aws" THEN Quarantined("IMPORT_ACCOUNT_PROVIDER_MISMATCH", 0)
    ELSE IF lines = 0 THEN Quarantined("IMPORT_EMPTY", 0)
    ELSE IF ~object.columns THEN Quarantined("IMPORT_SCHEMA_DRIFT", lines)
    ELSE IF \E i \in 1 .. lines : ~ValidAwsRow(object.rows[i])
        THEN Quarantined("IMPORT_ROW_INVALID", lines)
    ELSE RowsOrQuarantine([i \in 1 .. lines |-> AwsRow(object.rows[i])], lines, totals)

ParseSynthetic(object, provider, totals) ==
    LET lines == Len(object.rows) IN
    IF lines = 0 THEN Quarantined("IMPORT_EMPTY", 0)
    ELSE IF ~object.columns THEN Quarantined("IMPORT_SCHEMA_DRIFT", lines)
    ELSE IF \E i \in 1 .. lines : ~ValidRow(object.rows[i], provider)
        THEN Quarantined("IMPORT_ROW_INVALID", lines)
    ELSE RowsOrQuarantine(object.rows, lines, totals)

\* CSV, Parquet (whose reader throws), JSON snapshot, manual override.
ParseCanonical(object, provider, totals, format) ==
    LET lines == Len(object.rows)
        json == format \in {"json_api_snapshot", "manual_override"} IN
    IF ~object.readable /\ format = "parquet" THEN Throws
    ELSE IF json /\ (~object.readable \/ ~object.columns)
        THEN Quarantined("IMPORT_SCHEMA_DRIFT", 0)
    ELSE IF format = "manual_override" /\ lines > ManualLimit
        THEN Quarantined("IMPORT_MANUAL_OVERRIDE_TOO_LARGE", 0)
    ELSE IF lines = 0 THEN Quarantined("IMPORT_EMPTY", 0)
    ELSE IF format = "csv" /\ ~object.columns THEN Quarantined("IMPORT_SCHEMA_DRIFT", lines)
    ELSE IF ~object.columns \/ \E i \in 1 .. lines : ~ValidRow(object.rows[i], provider)
        THEN Quarantined("IMPORT_ROW_INVALID", lines)
    ELSE RowsOrQuarantine(object.rows, lines, totals)

\* The dispatch of createImport.
Parse(body, object) ==
    LET provider == ProviderOf[body.account] IN
    IF body.format = "native_cur" \/ (body.source = "aws_cur" /\ body.format = "csv")
    THEN ParseAws(object, provider, body.totals)
    ELSE IF body.source = "synthetic" /\ body.format = "csv"
    THEN ParseSynthetic(object, provider, body.totals)
    ELSE ParseCanonical(object, provider, body.totals, body.format)

\* Columns of usage_line_items: BIGINT, and the CHECK constraints.
Storable(row) ==
    /\ \A a \in Amounts : row[a] <= MaxBigint
    /\ row.applied <= row.onDemand
    /\ row.period

-----------------------------------------------------------------------------
(* States *)

Statuses == {"completed", "quarantined"}
Answers == {"none", "201", "404", "409", "500", "503"}

Unasked == [pc |-> "account", body |-> CHOOSE b \in Bodies : TRUE, result |-> Throws,
            inserted |-> 0, answer |-> "none"]

ImportsTypeOK ==
    /\ active \subseteq DOMAIN ProviderOf
    /\ store \in [Uris -> Files \cup {NoFile}]
    /\ \A r \in Requests :
        /\ batches[r] = NoBatch \/ batches[r].status \in Statuses
        /\ usage[r] # <<>> => batches[r] # NoBatch
        /\ req[r].pc \in {"idle", "account", "object", "begin", "insert", "notify", "done"}
        /\ req[r].answer \in Answers
        /\ req[r].inserted \in 0 .. Len(req[r].result.rows)
        /\ req[r].pc = "insert" <=> tenant = r
        /\ notices[r] \subseteq {"notification", "event"} \X Statuses
    /\ tenant \in Requests \cup {NoRequest}

ImportsInit ==
    /\ active = DOMAIN ProviderOf
    /\ store \in [Uris -> Files \cup {NoFile}]
    /\ batches = [r \in Requests |-> NoBatch]
    /\ usage = [r \in Requests |-> <<>>]
    /\ tenant = NoRequest
    /\ req = [r \in Requests |-> [Unasked EXCEPT !.pc = "idle"]]
    /\ notices = [r \in Requests |-> {}]

Answer(r, answer) == req' = [req EXCEPT ![r] = [@ EXCEPT !.pc = "done", !.answer = answer]]

-----------------------------------------------------------------------------
(* The environment *)

\* PATCH /api/cloud-accounts/{id} by an administrator.
DeactivateAccount(a) ==
    /\ a \in active
    /\ active' = active \ {a}
    /\ UNCHANGED <<store, batches, usage, tenant, req, notices>>

\* An export is written again under its key.
PutObject(u, f) ==
    /\ store[u] # f
    /\ store' = [store EXCEPT ![u] = f]
    /\ UNCHANGED <<active, batches, usage, tenant, req, notices>>

-----------------------------------------------------------------------------
(* createImport *)

\* parseImportCreateBody
Receive(r, body) ==
    /\ req[r].pc = "idle"
    /\ AllowedSourceFormat(body.source, body.format)
    /\ req' = [req EXCEPT ![r] = [@ EXCEPT !.pc = "account", !.body = body]]
    /\ UNCHANGED <<active, store, batches, usage, tenant, notices>>

\* getCloudAccount; an account of another tenant reads as none (404).
GetCloudAccount(r) ==
    /\ req[r].pc = "account"
    /\ IF req[r].body.account \in active
       THEN req' = [req EXCEPT ![r].pc = "object"] ELSE Answer(r, "409")
    /\ UNCHANGED <<active, store, batches, usage, tenant, notices>>

\* The object is read and parsed; what is read stays with the request.
ReadObject(r) ==
    /\ req[r].pc = "object"
    /\ LET object == store[req[r].body.uri]  result == Parse(req[r].body, object) IN
       IF object = NoFile THEN Answer(r, "404")
       ELSE IF result.kind = "throws" THEN Answer(r, "500")
       ELSE req' = [req EXCEPT ![r] = [@ EXCEPT !.pc = "begin", !.result = result]]
    /\ UNCHANGED <<active, store, batches, usage, tenant, notices>>

\* BEGIN, the tenant row FOR UPDATE, and the batch row.
BeginImport(r) ==
    /\ req[r].pc = "begin"
    /\ tenant = NoRequest
    /\ tenant' = r
    /\ req' = [req EXCEPT ![r].pc = "insert"]
    /\ UNCHANGED <<active, store, batches, usage, notices>>

\* Fault: the rows are inserted outside the transaction.
InsertRowCommitted(r) ==
    /\ req[r].pc = "insert"
    /\ req[r].inserted < Len(req[r].result.rows)
    /\ Storable(req[r].result.rows[req[r].inserted + 1])
    /\ req' = [req EXCEPT ![r].inserted = @ + 1]
    /\ batches' = [batches EXCEPT ![r] = [status |-> "completed", lines |-> req[r].result.lines]]
    /\ usage' = [usage EXCEPT ![r] = Append(@, req[r].result.rows[req[r].inserted + 1])]
    /\ UNCHANGED <<active, store, tenant, notices>>

\* One INSERT for each row.
InsertRow(r) ==
    /\ req[r].pc = "insert"
    /\ req[r].inserted < Len(req[r].result.rows)
    /\ Storable(req[r].result.rows[req[r].inserted + 1])
    /\ req' = [req EXCEPT ![r].inserted = @ + 1]
    /\ UNCHANGED <<active, store, batches, usage, tenant, notices>>

\* Any other statement fails, or the row does not fit: ROLLBACK, 503.
RollBack(r) ==
    /\ req[r].pc = "insert"
    /\ \/ ImportsFail
       \/ /\ req[r].inserted < Len(req[r].result.rows)
          /\ ~Storable(req[r].result.rows[req[r].inserted + 1])
    /\ tenant' = NoRequest
    /\ Answer(r, "503")
    /\ UNCHANGED <<active, store, batches, usage, notices>>

\* updateBatch and COMMIT.  When the answer of COMMIT is lost the client reads
\* 503 and the batch is there.
CommitImport(r) ==
    /\ req[r].pc = "insert"
    /\ req[r].inserted = Len(req[r].result.rows)
    /\ tenant' = NoRequest
    /\ batches' = [batches EXCEPT ![r] =
          [status |-> IF req[r].result.kind = "parsed" THEN "completed" ELSE "quarantined",
           lines |-> req[r].result.lines]]
    /\ usage' = [usage EXCEPT ![r] = req[r].result.rows]
    /\ \/ req' = [req EXCEPT ![r].pc = "notify"]
       \/ ImportsFail /\ Answer(r, "503")
    /\ UNCHANGED <<active, store, notices>>

\* emitImportProcessedEvents: two writes that settle on their own; a failure
\* of either is swallowed (runHook), and the answer is 201.
Notify(r) ==
    /\ req[r].pc = "notify"
    /\ \E sent \in SUBSET {"notification", "event"} :
        /\ ImportsFail \/ sent = {"notification", "event"}
        /\ notices' = [notices EXCEPT ![r] = sent \X {batches[r].status}]
    /\ Answer(r, "201")
    /\ UNCHANGED <<active, store, batches, usage, tenant>>

\* A read fails (503), or the process dies (no answer).
ReadFails(r) ==
    /\ ImportsFail
    /\ req[r].pc \in {"account", "object", "begin"}
    /\ Answer(r, "503")
    /\ UNCHANGED <<active, store, batches, usage, tenant, notices>>

Crash(r) ==
    /\ ImportsFail
    /\ req[r].pc \notin {"idle", "done"}
    /\ Answer(r, "none")
    /\ tenant' = IF tenant = r THEN NoRequest ELSE tenant
    /\ UNCHANGED <<active, store, batches, usage, notices>>

-----------------------------------------------------------------------------
(* Specification *)

ImportStep(r) ==
    \/ GetCloudAccount(r) \/ ReadObject(r) \/ BeginImport(r) \/ InsertRow(r)
    \/ RollBack(r) \/ CommitImport(r) \/ Notify(r) \/ ReadFails(r) \/ Crash(r)

ImportsNext ==
    \/ \E r \in Requests : ImportStep(r) \/ \E b \in Bodies : Receive(r, b)
    \/ \E a \in DOMAIN ProviderOf : DeactivateAccount(a)
    \/ \E u \in Uris, f \in Files : PutObject(u, f)

ImportsSpec == ImportsInit /\ [][ImportsNext]_importVars

-----------------------------------------------------------------------------
(* Properties *)

\* A batch that is completed holds every row of its file, reconciled with the
\* totals of its request; any other has none (the transaction of createImport).
UsageReconciles ==
    \A r \in Requests :
        IF batches[r] # NoBatch /\ batches[r].status = "completed"
        THEN /\ ControlTotals(usage[r]) = Expected(req[r].body.totals)
             /\ batches[r].lines = Len(usage[r])
             /\ usage[r] # <<>>
        ELSE usage[r] = <<>>

\* Whatever the parser, a stored row is of the provider of its account, ends
\* after it starts, and does not commit more than its on-demand cost: the
\* parsers leave nothing for the CHECK constraints to refuse.
ParsersMatchConstraints ==
    \A r \in Requests : req[r].pc \in {"begin", "insert"} =>
        \A i \in DOMAIN req[r].result.rows :
            LET row == req[r].result.rows[i] IN
            /\ row.provider = ProviderOf[req[r].body.account]
            /\ row.period /\ row.text
            /\ row.applied <= row.onDemand

\* A notice tells of a batch that is there, and of the status it has: a rolled
\* back import is never announced (the hook runs after COMMIT).
NoticesTellTheTruth ==
    \A r \in Requests : \A n \in notices[r] :
        batches[r] # NoBatch /\ batches[r].status = n[2]

\* What is stored is what was declared, and what is told is what was stored.
ImportsAreSound ==
    ImportsTypeOK /\ UsageReconciles /\ ParsersMatchConstraints /\ NoticesTellTheTruth
=============================================================================
