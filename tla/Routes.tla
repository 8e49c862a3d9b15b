--------------------------------- MODULE Routes ---------------------------------
(***************************************************************************)
(* The protected endpoints (apps/api/routes): for each, the actions its    *)
(* preHandlers require, the bucket its limiter draws on, whom it admits    *)
(* besides, and the operations of the services its handler calls.          *)
(* And who may perform which action (core/tenant/rbac.ts).                 *)
(***************************************************************************)
EXTENDS Naturals

RoleNames == {"tenant_admin", "finops_analyst", "finance_approver", "read_only_auditor"}
API_KEY_ROLE == "finops_analyst"

-----------------------------------------------------------------------------
(* Policy: the actions that are "allow_p1" *)

FinopsAnalystActions ==
    {"tenant_profile.read", "cloud_accounts.read", "cloud_accounts.create_update", "imports.read",
     "imports.write", "price_tables.read", "forecast_models.read", "forecast_models.write",
     "forecast_runs.read", "forecast_runs.run", "scenarios.read_write", "optimizer_policies.read",
     "optimizer_runs.read", "optimizer_runs.run", "recommendations.read",
     "recommendations.request_approval", "reports.read", "backtests.read_run",
     "notifications.read", "notification_preferences.write"}

FinanceApproverActions ==
    {"scenarios.read_write", "recommendations.read", "recommendations.approve_reject",
     "approvals.read", "backtests.read_run", "notifications.read",
     "notification_preferences.write"}

ReadOnlyAuditorActions ==
    {"scenarios.read_write", "backtests.read_run", "audit_log.read", "notifications.read"}

TenantAdminActions ==
    FinopsAnalystActions \cup FinanceApproverActions \cup ReadOnlyAuditorActions \cup
    {"cloud_accounts.deactivate", "users.read_manage", "api_keys.read_manage",
     "api_keys.read_rotate", "price_tables.create_activate", "optimizer_policies.write",
     "tenant_settings.write", "ecosystem_adapters.configure"}

ApiKeyActions ==
    FinopsAnalystActions \ {"scenarios.read_write", "optimizer_policies.read",
                            "notifications.read", "notification_preferences.write"}

RoleActions ==
    [tenant_admin |-> TenantAdminActions, finops_analyst |-> FinopsAnalystActions,
     finance_approver |-> FinanceApproverActions, read_only_auditor |-> ReadOnlyAuditorActions]

\* canPerformAuthAction
CanPerformAuthAction(ofRole, action, actorType) ==
    IF actorType = "api_key" THEN ofRole = API_KEY_ROLE /\ action \in ApiKeyActions
    ELSE action \in RoleActions[ofRole]

-----------------------------------------------------------------------------
(* Registrations *)

NoBucket == <<"none", "none">>

\* An endpoint of the API: app.authenticate, app.requireAction(action), a
\* limiter with its own method and path, and the handler.
\* target: the bucket is one per :id.  keys, roles: whom the handler takes.
Api(method, path, action, op) ==
    [method |-> method, path |-> path, actions |-> {action}, bucket |-> <<method, path>>,
     target |-> FALSE, keys |-> TRUE, roles |-> RoleNames, ops |-> {op}]

\* A page has the preHandlers of an endpoint of the API and calls the same.
Page(method, path, api) == [api EXCEPT !.method = method, !.path = path]

\* userContext(), of the route or of the service it calls: an API key is FORBIDDEN.
UserOnly(route) == [route EXCEPT !.keys = FALSE]
TargetScoped(route) == [route EXCEPT !.target = TRUE]

TenantProfileRoutes ==
    {[Api("GET", "/tenants/me", "tenant_profile.read", "profile.get") EXCEPT !.bucket = NoBucket]}

UsersRoutes ==
    {UserOnly(r) : r \in
       {Api("GET", "/api/users", "users.read_manage", "users.list"),
        Api("POST", "/api/users", "users.read_manage", "users.create"),
        Api("PATCH", "/api/users/{id}", "users.read_manage", "users.patch"),
        TargetScoped(Api("PUT", "/api/users/{id}/credentials/password",
                         "users.read_manage", "users.setPassword"))}}

ApiKeyMetadataRoute == {UserOnly(Api("GET", "/api/api-keys", "api_keys.read_manage", "apiKeys.list"))}
ApiKeyRotationRoute ==
    {UserOnly(Api("POST", "/api/api-keys/rotate", "api_keys.read_rotate", "apiKeys.rotate"))}

CloudAccountsRoutes ==
    LET list == Api("GET", "/api/cloud-accounts", "cloud_accounts.read", "accounts.list") IN
    {list, Page("GET", "/accounts", list),
     Api("POST", "/api/cloud-accounts", "cloud_accounts.create_update", "accounts.create"),
     TargetScoped(Api("PATCH", "/api/cloud-accounts/{id}",
                      "cloud_accounts.create_update", "accounts.patch")),
     TargetScoped(Api("POST", "/api/cloud-accounts/{id}/deactivate",
                      "cloud_accounts.deactivate", "accounts.deactivate"))}

DashboardRoute ==
    {[Api("GET", "/dashboard", "imports.read", "dashboard.summary")
        EXCEPT !.actions = {"imports.read", "recommendations.read"}, !.bucket = NoBucket]}

ImportsRoutes ==
    LET list == Api("GET", "/api/imports", "imports.read", "imports.list") IN
    {list, Page("GET", "/imports", list),
     Api("POST", "/api/imports", "imports.write", "imports.create"),
     Api("GET", "/api/imports/{id}", "imports.read", "imports.get")}

PriceTablesRoutes ==
    LET list == Api("GET", "/api/price-tables", "price_tables.read", "priceTables.list") IN
    {list, Page("GET", "/price-tables", list),
     Api("POST", "/api/price-tables", "price_tables.create_activate", "priceTables.create"),
     Api("POST", "/api/price-tables/{id}/activate",
         "price_tables.create_activate", "priceTables.activate")}

\* The page requires its second action after the limiter, for roles that all
\* have both.
ForecastRoutes ==
    LET models == Api("GET", "/api/forecast-models", "forecast_models.read", "forecasts.listModels")
        runs == Api("GET", "/api/forecast-runs", "forecast_runs.read", "forecasts.listRuns") IN
    {models, runs,
     [Page("GET", "/forecasts", models) EXCEPT !.actions = models.actions \cup runs.actions,
                                               !.ops = models.ops \cup runs.ops],
     Api("POST", "/api/forecast-models", "forecast_models.write", "forecasts.createModel"),
     Api("POST", "/api/forecast-runs", "forecast_runs.run", "forecasts.createRun"),
     Api("GET", "/api/forecast-runs/{id}", "forecast_runs.read", "forecasts.getRun")}

OptimizerPoliciesRoutes ==
    {Api("GET", "/api/optimizer-policies", "optimizer_policies.read", "policies.list"),
     Api("POST", "/api/optimizer-policies", "optimizer_policies.write", "policies.create"),
     Api("PATCH", "/api/optimizer-policies/{id}", "optimizer_policies.write", "policies.patch")}

OptimizerRunsRoutes ==
    LET list == Api("GET", "/api/optimizer-runs", "optimizer_runs.read", "optimizerRuns.list") IN
    {list, Page("GET", "/optimizer-runs", list),
     Api("POST", "/api/optimizer-runs", "optimizer_runs.run", "optimizerRuns.create"),
     Api("GET", "/api/optimizer-runs/{id}", "optimizer_runs.read", "optimizerRuns.get")}

RecommendationsRoutes ==
    LET get == Api("GET", "/api/recommendations/{id}", "recommendations.read", "recommendations.get") IN
    {get, Page("GET", "/recommendations/{id}", get),
     Api("GET", "/api/recommendations", "recommendations.read", "recommendations.list")}

ApprovalsRoutes ==
    LET list == Api("GET", "/api/approvals", "approvals.read", "approvals.list")
        get == Api("GET", "/api/approvals/{id}", "approvals.read", "approvals.get")
        approve == Api("POST", "/api/approvals/{id}/approve",
                       "recommendations.approve_reject", "approvals.approve")
        reject == Api("POST", "/api/approvals/{id}/reject",
                      "recommendations.approve_reject", "approvals.reject") IN
    {Api("POST", "/api/recommendations/{id}/request-approval",
         "recommendations.request_approval", "approvals.requestApproval"),
     list, get, approve, reject,
     Page("GET", "/approvals", list), Page("GET", "/approvals/{id}", get),
     Page("POST", "/approvals/{id}/approve", approve), Page("POST", "/approvals/{id}/reject", reject)}

\* requireBacktestMutationActor
BacktestsRoutes ==
    LET list == Api("GET", "/api/backtests", "backtests.read_run", "backtests.list")
        get == Api("GET", "/api/backtests/{id}", "backtests.read_run", "backtests.get") IN
    {list, get, Page("GET", "/backtests", list), Page("GET", "/backtests/{id}", get),
     [Api("POST", "/api/backtests", "backtests.read_run", "backtests.create")
        EXCEPT !.roles = {"tenant_admin", "finops_analyst"}]}

NotificationsRoutes ==
    LET preferences == UserOnly(Api("GET", "/api/settings/notifications",
                                    "notification_preferences.write", "notifications.listPreferences"))
        update == UserOnly(Api("PUT", "/api/settings/notifications",
                               "notification_preferences.write", "notifications.updatePreferences")) IN
    {UserOnly(Api("GET", "/api/notifications", "notifications.read", "notifications.list")),
     UserOnly(Api("POST", "/api/notifications/{id}/read", "notifications.read", "notifications.markRead")),
     preferences, update,
     Page("GET", "/settings/notifications", preferences),
     Page("POST", "/settings/notifications", update)}

IntegrationsRoutes ==
    LET status == UserOnly(Api("GET", "/api/integrations/status",
                               "ecosystem_adapters.configure", "integrations.statuses"))
        test == UserOnly(Api("POST", "/api/integrations/test-event",
                             "ecosystem_adapters.configure", "integrations.testEvent")) IN
    {status, test,
     Page("GET", "/integrations", status), Page("POST", "/integrations/test-event", test)}

\* scenarioMutationBoundary
ScenarioMutation(route) ==
    [UserOnly(route) EXCEPT !.roles = {"tenant_admin", "finops_analyst"}]

ScenariosRoutes ==
    LET list == Api("GET", "/api/scenarios", "scenarios.read_write", "scenarios.list")
        get == Api("GET", "/api/scenarios/{id}", "scenarios.read_write", "scenarios.get")
        create == ScenarioMutation(Api("POST", "/api/scenarios", "scenarios.read_write",
                                       "scenarios.create")) IN
    {list, get, create, Page("GET", "/scenarios", list), Page("GET", "/scenarios/{id}", get),
     Page("POST", "/scenarios", create)}

AuditLogRoutes ==
    LET list == UserOnly(Api("GET", "/api/audit-log", "audit_log.read", "audit.list")) IN
    {list, Page("GET", "/audit-log", list)}

ReportsRoutes == {Api("GET", "/api/reports/{source_type}/{source_id}", "reports.read", "reports.get")}

\* The page shows three lists, and draws on the bucket of the users' one.
SettingsRoute ==
    {[UserOnly(Api("GET", "/settings", "users.read_manage", "users.list"))
        EXCEPT !.actions = {"tenant_profile.read", "users.read_manage", "api_keys.read_manage"},
               !.bucket = <<"GET", "/api/users">>,
               !.ops = {"profile.get", "users.list", "apiKeys.list"}]}

\* registerApplicationRoutes
AllRoutes ==
    UNION {TenantProfileRoutes, UsersRoutes, ApiKeyMetadataRoute, ApiKeyRotationRoute,
           CloudAccountsRoutes, DashboardRoute, ImportsRoutes, PriceTablesRoutes, ForecastRoutes,
           OptimizerPoliciesRoutes, OptimizerRunsRoutes, RecommendationsRoutes, ApprovalsRoutes,
           BacktestsRoutes, NotificationsRoutes, IntegrationsRoutes, ScenariosRoutes,
           AuditLogRoutes, ReportsRoutes, SettingsRoute}

-----------------------------------------------------------------------------
(* protectedRouteLimit, for the buckets that no prefix decides *)

ProtectedRouteLimit(bucket) ==
    CASE bucket \in {<<"POST", "/api/api-keys/rotate">>,
                     <<"PUT", "/api/users/{id}/credentials/password">>} -> 5
      [] bucket \in {<<"POST", "/api/integrations/test-event">>, <<"POST", "/api/backtests">>} -> 10
      [] bucket \in {<<"POST", "/api/cloud-accounts/{id}/deactivate">>, <<"POST", "/api/imports">>,
                     <<"POST", "/api/price-tables">>, <<"POST", "/api/price-tables/{id}/activate">>,
                     <<"POST", "/api/optimizer-runs">>} -> 20
      [] bucket \in {<<"POST", "/api/forecast-runs">>, <<"POST", "/api/optimizer-policies">>,
                     <<"PATCH", "/api/optimizer-policies/{id}">>,
                     <<"POST", "/api/approvals/{id}/approve">>,
                     <<"POST", "/api/approvals/{id}/reject">>,
                     <<"PUT", "/api/settings/notifications">>,
                     <<"POST", "/api/users">>, <<"PATCH", "/api/users/{id}">>} -> 30
      [] bucket \in {<<"POST", "/api/cloud-accounts">>, <<"PATCH", "/api/cloud-accounts/{id}">>,
                     <<"POST", "/api/forecast-models">>, <<"POST", "/api/notifications/{id}/read">>,
                     <<"POST", "/api/scenarios">>, <<"GET", "/api/settings/notifications">>,
                     <<"GET", "/api/integrations/status">>, <<"GET", "/api/audit-log">>,
                     <<"GET", "/api/users">>, <<"GET", "/api/api-keys">>} -> 60
      [] OTHER -> 120
=============================================================================
