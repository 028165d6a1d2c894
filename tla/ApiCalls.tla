------------------------------ MODULE ApiCalls ------------------------------
(* The handlers of the REST API: whom each admits, the steps of its body and *)
(* what it does behind the end of its transaction.  Then any one call, from  *)
(* the checks of the request to its answer, with every way its handler can   *)
(* go, and the thread it started.                                            *)
EXTENDS Naturals, Sequences, FiniteSets

(* A handler demands a role, and a CSRF token for whatever changes          *)
(* something; its body runs inside safe_call, and `after` once this has     *)
(* committed.  The steps:                                                   *)
(*   check  the payload is read and validated, a rule of the service checked*)
(*   read   the database is read                                            *)
(*   write  rows are changed and flushed                                    *)
(*   try    rows are changed in a savepoint that may fail alone             *)
(*   commit the service commits by itself                                   *)
(*   ask    another server is asked                                         *)
(*   act    something outside the transaction changes: a job, a mail, the   *)
(*          cookie of the session                                           *)
(*   clear  a cache is emptied, which may fail without a sign                *)
(*   refuse the handler may return an error response without raising        *)
(*   done   the handler may have finished here                              *)
(*   launch a thread is started for the run written before                  *)
Handler(need, csrf, body, after) == [need |-> need, csrf |-> csrf, body |-> body, after |-> after]

Query(need, body) == Handler(need, FALSE, body, <<>>)
Command(need, body) == Handler(need, TRUE, body, <<>>)

\* prepare_background_... inside safe_call, launch_background_... behind it.
Background(need, body) == Handler(need, TRUE, body \o <<"write">>, <<"launch">>)

\* Frequent bodies: look one thing up; list what a validated query asks for.
Look == <<"read">>
List == <<"check", "read">>

----------------------------------------------------------------------------
\* has_permission and is_admin: an administrator may do everything, another
\* user may view.
Roles == {"nobody", "user", "admin"}
Allowed(role, need) ==
    CASE need = "open" -> TRUE
      [] need \in {"login", "view"} -> role # "nobody"
      [] OTHER -> role = "admin"

\* require_csrf lets safe methods pass and demands a valid token of the others.
SafeMethods == {"get"}

Writing == {"write", "try"}
Positions(body, kinds) == {k \in 1..Len(body) : body[k] \in kinds}

-----------------------------------------------------------------------------
\* The API handlers about accounts, their classification, users and login.

AccountsLedgersResource == [get |-> Query("view", List)]
AccountsLedgersPermissionsResource == [get |-> Query("view", Look)]
AccountsLedgersChangeHistoryResource == [get |-> Query("view", Look)]
AccountsLedgersExportResource == [get |-> Query("view", List)]
AccountsStatisticsResource == [get |-> Query("view", Look)]
AccountsStatisticsSummaryResource == [get |-> Query("view", List)]
AccountsStatisticsByDbTypeResource == [get |-> Query("view", Look)]
AccountsStatisticsByClassificationResource == [get |-> Query("view", Look)]
AccountsStatisticsRulesResource == [get |-> Query("view", List)]
AccountClassificationTrendsResource == [get |-> Query("view", List)]
AccountClassificationTrendResource == [get |-> Query("view", List)]
AccountClassificationRuleTrendResource == [get |-> Query("view", List)]
AccountClassificationRuleContributionsResource == [get |-> Query("view", List)]
AccountClassificationRulesOverviewResource == [get |-> Query("view", List)]

\* A created or updated rule also empties the cache of the rules.
AccountClassificationsResource ==
    [get |-> Query("view", Look), post |-> Command("create", <<"check", "read", "write">>)]
AccountClassificationDetailResource ==
    [get |-> Query("view", Look),
     put |-> Command("update", <<"check", "read", "check", "write">>),
     delete |-> Command("delete", <<"read", "check", "write">>)]
AccountClassificationRulesResource ==
    [get |-> Query("view", Look), post |-> Command("create", <<"check", "read", "write", "clear">>)]
AccountClassificationRulesFilterResource == [get |-> Query("view", List)]
AccountClassificationRuleExpressionValidateResource == [post |-> Command("view", <<"check">>)]
AccountClassificationRuleDetailResource ==
    [get |-> Query("view", Look),
     put |-> Command("update", <<"check", "read", "write", "clear">>),
     delete |-> Command("delete", <<"read", "write">>)]
AccountClassificationAssignmentsResource == [get |-> Query("view", Look)]
AccountClassificationAssignmentResource == [delete |-> Command("delete", <<"read", "write">>)]
AccountClassificationPermissionsResource == [get |-> Query("view", Look)]
AccountClassificationAutoClassifyActionResource == [post |-> Background("update", <<"check">>)]

AccountChangeLogsResource == [get |-> Query("view", List)]
AccountChangeLogsStatisticsResource == [get |-> Query("view", List)]
AccountChangeLogDetailResource == [get |-> Query("view", Look)]

\* The service commits; the list of configurations is read after that.
AdDomainConfigsResource ==
    [get |-> Query("admin", Look),
     post |-> Command("admin", <<"check", "read", "write", "commit", "read">>)]
AdDomainConfigResource ==
    [put |-> Command("admin", <<"check", "read", "write", "commit", "read">>),
     delete |-> Command("admin", <<"read", "write", "commit", "read">>)]
AdDomainConfigEnabledResource ==
    [post |-> Command("admin", <<"check", "read", "write", "commit", "read">>)]
AdDomainConfigTestConnectionResource == [post |-> Command("admin", <<"read", "ask">>)]

\* The task runs inside the call, in a session of its own.
AdDomainSyncResource == [post |-> Command("admin", <<"act">>)]

UsersResource ==
    [get |-> Query("view", List), post |-> Command("create", <<"check", "read", "write">>)]
UserDetailResource ==
    [get |-> Query("view", Look),
     put |-> Command("update", <<"read", "check", "read", "write">>),
     delete |-> Command("delete", <<"read", "check", "write">>)]
UsersStatsResource == [get |-> Query("view", Look)]

\* Logging in and out changes the cookie of the session only.
CsrfTokenResource == [get |-> Query("open", <<>>)]
LoginResource == [post |-> Command("open", <<"check", "read", "check", "act">>)]
LogoutResource == [post |-> Command("login", <<"act">>)]
SessionResource == [get |-> Query("open", <<>>)]
ChangePasswordResource == [post |-> Command("login", <<"check", "write">>)]
MeResource == [get |-> Query("login", Look)]

-----------------------------------------------------------------------------
\* The API handlers about instances, their credentials and tags, databases
\* and capacity.

InstancesOptionsResource == [get |-> Query("view", List)]
AccountScopeOptionsResource == [get |-> Query("view", List)]
InstancesResource ==
    [get |-> Query("view", List), post |-> Command("create", <<"check", "read", "write">>)]
InstancesExportResource == [get |-> Query("view", List)]
InstancesImportTemplateResource == [get |-> Query("view", <<>>)]
InstanceDetailResource ==
    [get |-> Query("view", Look),
     put |-> Command("update", <<"read", "check", "read", "write">>),
     delete |-> Command("delete", <<"read", "write">>)]

(* sync_instance_capacity: the list of databases is kept when the sizes     *)
(* cannot be collected, and without databases there is nothing to collect;  *)
(* a failing aggregation is only logged.                                    *)
InstanceSyncCapacityActionResource ==
    [post |-> Command("update", <<"read", "ask", "refuse", "write", "done", "ask", "refuse", "write", "write", "try">>)]
InstanceRestoreActionResource == [post |-> Command("update", <<"read", "write">>)]
InstancesBatchCreateResource == [post |-> Command("create", <<"check", "read", "write">>)]
InstancesBatchDeleteResource == [post |-> Command("delete", <<"check", "read", "write">>)]
InstancesStatisticsResource == [get |-> Query("view", Look)]
InstanceAgAccountsResource == [get |-> Query("view", List)]

(* sync_instance_accounts: the accounts are kept when their permissions     *)
(* cannot be stored.                                                        *)
InstancesSyncAccountsActionResource == [post |-> Background("update", <<"read">>)]
InstancesSyncInstanceAccountsActionResource ==
    [post |-> Command("update", <<"read", "ask", "refuse", "write", "ask", "refuse", "try", "refuse", "write">>)]

\* The record of the attempt is kept when it fails.
InstanceAuditInfoResource == [get |-> Query("view", Look)]
InstanceAuditSyncActionResource ==
    [post |-> Command("update", <<"read", "refuse", "write", "write", "ask", "refuse", "write", "write">>)]
InstanceBackupInfoResource == [get |-> Query("view", Look)]

\* The time of the attempt is written whether or not the server answers.
InstancesConnectionsTestResource ==
    [post |-> Command("view", <<"check", "read", "ask", "write", "refuse">>)]
InstancesConnectionsValidateParamsResource == [post |-> Command("view", <<"check", "read">>)]
InstancesConnectionsBatchTestResource == [post |-> Command("view", <<"check", "read", "ask", "write">>)]
InstancesConnectionsStatusResource == [get |-> Query("view", Look)]

CredentialsResource ==
    [get |-> Query("view", List), post |-> Command("create", <<"check", "read", "write">>)]
CredentialDetailResource ==
    [get |-> Query("view", Look),
     put |-> Command("update", <<"read", "check", "read", "write">>),
     delete |-> Command("delete", <<"read", "write">>)]

TagsResource ==
    [get |-> Query("view", List), post |-> Command("create", <<"check", "read", "write">>)]
TagOptionsResource == [get |-> Query("view", List)]
TagCategoriesResource == [get |-> Query("view", Look)]
TagDetailResource ==
    [get |-> Query("view", Look),
     put |-> Command("update", <<"read", "check", "read", "write">>),
     delete |-> Command("delete", <<"read", "check", "write">>)]
TagBatchDeleteResource == [post |-> Command("delete", <<"check", "read", "try">>)]
TagsBulkInstancesResource == [get |-> Query("view", Look)]
TagsBulkTagsResource == [get |-> Query("view", List)]
TagsBulkAssignResource == [post |-> Command("create", <<"check", "read", "check", "write">>)]
TagsBulkRemoveResource == [post |-> Command("create", <<"check", "read", "check", "write">>)]
TagsBulkInstanceTagsResource == [post |-> Command("view", <<"check", "read">>)]
\* Mutant of TagsBulkRemoveAllResource: the decorator require_csrf is forgotten.
TagsBulkRemoveAllUnprotected ==
    [post |-> Handler("create", FALSE, <<"check", "read", "check", "write">>, <<>>)]
TagsBulkRemoveAllResource == [post |-> Command("create", <<"check", "read", "check", "write">>)]

DatabasesOptionsResource == [get |-> Query("view", <<"check", "read", "check", "read">>)]
DatabaseLedgersResource == [get |-> Query("view", List)]
DatabaseStatisticsResource == [get |-> Query("view", Look)]
DatabaseLedgersExportResource == [get |-> Query("view", List)]
DatabaseLedgersSyncAllActionResource == [post |-> Background("update", <<"read">>)]
DatabasesSizesResource == [get |-> Query("view", <<"check", "read", "read">>)]
DatabaseTableSizesSnapshotResource == [get |-> Query("view", <<"check", "read", "read", "read">>)]

\* refresh_snapshot writes after all has been collected.
DatabaseTableSizesRefreshResource ==
    [post |-> Command("update", <<"check", "read", "check", "ask", "refuse", "ask", "refuse", "write", "read">>)]

CapacityCurrentAggregationResource == [post |-> Background("admin", <<"check">>)]
CapacityDatabasesAggregationsResource == [get |-> Query("view", List)]
CapacityDatabasesSummaryResource == [get |-> Query("view", List)]
CapacityInstancesAggregationsResource == [get |-> Query("view", List)]
CapacityInstancesSummaryResource == [get |-> Query("view", List)]

-----------------------------------------------------------------------------
\* The API handlers about tasks, schedules, backups, asset sources, alerts,
\* clusters and the state of the system.

TaskRunsListResource == [get |-> Query("view", List)]
TaskRunDetailResource == [get |-> Query("view", Look)]
TaskRunErrorLogsResource == [get |-> Query("view", Look)]
TaskRunCancelResource == [post |-> Command("admin", <<"read", "check", "write">>)]
HistorySessionsListResource == [get |-> Query("view", List)]
HistorySessionDetailResource == [get |-> Query("view", Look)]
HistorySessionErrorLogsResource == [get |-> Query("view", Look)]
HistorySessionCancelResource == [post |-> Command("admin", <<"read", "check", "write">>)]

\* The scheduler keeps its jobs in a store of its own.
SchedulerJobsResource == [get |-> Query("view", Look)]
SchedulerJobDetailResource ==
    [get |-> Query("view", Look),
     put |-> Command("admin", <<"check", "read", "check", "act">>),
     delete |-> Command("admin", <<"check", "read", "act">>)]
SchedulerJobPauseResource == [post |-> Command("admin", <<"check", "act">>)]
SchedulerJobResumeResource == [post |-> Command("admin", <<"check", "act">>)]
SchedulerJobRunResource == [post |-> Command("admin", <<"check", "read", "act">>)]
SchedulerJobsReloadResource == [post |-> Command("admin", <<"check", "act", "act">>)]

\* prepare_background_sync and launch_background_sync are both inside
\* safe_call; that of JumpServer commits before it starts the thread.
JumpServerSourceResource ==
    [get |-> Query("admin", Look),
     put |-> Command("admin", <<"check", "read", "check", "write", "commit", "read">>),
     delete |-> Command("admin", <<"read", "write", "commit", "read">>)]
\* Mutant of JumpServerSyncActionResource: the run is left to the end of the request.
JumpServerSyncUncommitted ==
    [post |-> Command("admin", <<"read", "check", "write", "launch">>)]

JumpServerSyncActionResource ==
    [post |-> Command("admin", <<"read", "check", "write", "commit", "launch">>)]
VeeamSourceResource ==
    [get |-> Query("admin", Look),
     put |-> Command("admin", <<"check", "read", "check", "write", "commit", "read">>),
     delete |-> Command("admin", <<"read", "write", "commit", "read">>)]
VeeamSourcesResource ==
    [get |-> Query("admin", Look),
     post |-> Command("admin", <<"check", "read", "check", "write", "commit", "read">>)]
VeeamSourceItemResource ==
    [put |-> Command("admin", <<"check", "read", "check", "write", "commit", "read">>),
     delete |-> Command("admin", <<"read", "write", "commit", "read">>)]
VeeamSourceEnableActionResource == [post |-> Command("admin", <<"read", "write", "commit", "read">>)]
VeeamSourceDisableActionResource == [post |-> Command("admin", <<"read", "write", "commit", "read">>)]
VeeamSyncActionResource == [post |-> Command("admin", <<"check", "read", "write", "launch">>)]
VeeamSyncInstanceActionResource ==
    [get |-> Query("admin", <<"read", "done", "read">>),
     post |-> Command("admin", <<"read", "check", "ask", "done", "ask", "write", "read">>)]
VeeamSourceInstanceSyncActionResource ==
    [post |-> Command("admin", <<"read", "check", "ask", "done", "ask", "write", "read">>)]

AlertEmailSettingsResource ==
    [get |-> Query("admin", Look),
     put |-> Command("admin", <<"check", "read", "write", "check", "commit", "read">>)]
AlertEmailTestResource == [post |-> Command("admin", <<"check", "act">>)]
AlertFeishuTestResource == [post |-> Command("admin", <<"check", "read", "act">>)]
RiskCenterRulesResource ==
    [get |-> Query("admin", Look),
     put |-> Command("admin", <<"check", "write", "commit", "read">>)]
RiskCenterSummaryResource == [get |-> Query("login", Look)]
RiskCenterCardsResource == [get |-> Query("login", List)]

PartitionInfoResource == [get |-> Query("view", Look)]
PartitionStatusResource == [get |-> Query("view", Look)]
PartitionsResource ==
    [get |-> Query("view", List), post |-> Command("admin", <<"check", "try", "check">>)]
PartitionCleanupResource == [post |-> Command("admin", <<"check", "try", "check">>)]
PartitionStatisticsResource == [get |-> Query("view", Look)]
PartitionCoreMetricsResource == [get |-> Query("view", List)]

MySQLClustersResource ==
    [get |-> Query("view", List), post |-> Command("admin", <<"check", "read", "write">>)]
MySQLClusterInstanceOptionsResource == [get |-> Query("view", Look)]
MySQLClusterDetailResource ==
    [get |-> Query("view", Look), patch |-> Command("admin", <<"read", "check", "write">>)]
MySQLClusterInstancesResource == [put |-> Command("admin", <<"read", "check", "write">>)]
MySQLClusterTopologySyncResource == [post |-> Command("admin", <<"read", "check", "ask", "write">>)]

\* A cluster whose groups cannot be listed by any of its instances is an
\* error; accounts of a group that cannot be read are left out.
SQLServerClustersResource ==
    [get |-> Query("view", List), post |-> Command("admin", <<"check", "read", "write">>)]
SQLServerClusterInstanceOptionsResource == [get |-> Query("view", Look)]
SQLServerClusterDetailResource ==
    [get |-> Query("view", Look), patch |-> Command("admin", <<"read", "check", "write">>)]
SQLServerClusterInstancesResource == [put |-> Command("admin", <<"read", "check", "write">>)]
SQLServerAvailabilityGroupsResource == [post |-> Command("admin", <<"read", "check", "write">>)]
SQLServerAvailabilityGroupDashboardResource == [get |-> Query("view", Look)]
SQLServerAvailabilityGroupsSyncResource == [post |-> Command("admin", <<"read", "check", "ask", "write">>)]
SQLServerAvailabilityGroupAccountsSyncResource ==
    [post |-> Command("admin", <<"read", "check", "done", "ask", "try">>)]
SQLServerClusterStatusSyncResource == [post |-> Command("admin", <<"read", "ask", "write">>)]
SQLServerAvailabilityGroupResource == [patch |-> Command("admin", <<"read", "check", "write">>)]

HistoryLogsResource == [get |-> Query("admin", List)]
HistoryLogStatisticsResource == [get |-> Query("admin", List)]
HistoryLogModulesResource == [get |-> Query("admin", Look)]
HistoryLogDetailResource == [get |-> Query("admin", Look)]
DashboardOverviewResource == [get |-> Query("login", Look)]
DashboardChartsResource == [get |-> Query("login", List)]
DashboardActivitiesResource == [get |-> Query("login", <<>>)]
DashboardStatusResource == [get |-> Query("login", Look)]
CacheStatsResource == [get |-> Query("login", <<"ask">>)]
CacheClearClassificationActionResource == [post |-> Command("update", <<"check", "clear", "check">>)]
CacheClassificationStatsResource == [get |-> Query("view", <<"ask">>)]
HealthPingResource == [get |-> Query("open", <<>>)]
HealthBasicResource == [get |-> Query("open", <<>>)]
HealthCheckResource == [get |-> Query("open", Look)]
HealthCacheResource == [get |-> Query("login", <<>>)]
HealthDetailedResource == [get |-> Query("open", Look)]

-----------------------------------------------------------------------------
(* The calls                                                                *)

VARIABLES
    call,     \* whose call of which handler it is, and whether its token is valid
    phase,    \* where the call is: "gate", "body", "after", "answered"
    at,       \* how many steps of the body are done
    pending,  \* the steps of the body whose rows the session has flushed
    stored,   \* the steps whose rows are committed
    acted,    \* whether something outside the database was changed
    answer,   \* "none", "denied", "ok", "refused" or "error"
    worker    \* the thread: "none", "started", "found" its run or "lost" it

callVars == <<call, phase, at, pending, stored, acted, answer, worker>>

Api ==
    [AccountsLedgers |-> AccountsLedgersResource,
     AccountsLedgersPermissions |-> AccountsLedgersPermissionsResource,
     AccountsLedgersChangeHistory |-> AccountsLedgersChangeHistoryResource,
     AccountsLedgersExport |-> AccountsLedgersExportResource,
     AccountsStatistics |-> AccountsStatisticsResource,
     AccountsStatisticsSummary |-> AccountsStatisticsSummaryResource,
     AccountsStatisticsByDbType |-> AccountsStatisticsByDbTypeResource,
     AccountsStatisticsByClassification |-> AccountsStatisticsByClassificationResource,
     AccountsStatisticsRules |-> AccountsStatisticsRulesResource,
     AccountClassificationTrends |-> AccountClassificationTrendsResource,
     AccountClassificationTrend |-> AccountClassificationTrendResource,
     AccountClassificationRuleTrend |-> AccountClassificationRuleTrendResource,
     AccountClassificationRuleContributions |-> AccountClassificationRuleContributionsResource,
     AccountClassificationRulesOverview |-> AccountClassificationRulesOverviewResource,
     AccountClassifications |-> AccountClassificationsResource,
     AccountClassificationDetail |-> AccountClassificationDetailResource,
     AccountClassificationRules |-> AccountClassificationRulesResource,
     AccountClassificationRulesFilter |-> AccountClassificationRulesFilterResource,
     AccountClassificationRuleExpressionValidate |-> AccountClassificationRuleExpressionValidateResource,
     AccountClassificationRuleDetail |-> AccountClassificationRuleDetailResource,
     AccountClassificationAssignments |-> AccountClassificationAssignmentsResource,
     AccountClassificationAssignment |-> AccountClassificationAssignmentResource,
     AccountClassificationPermissions |-> AccountClassificationPermissionsResource,
     AccountClassificationAutoClassifyAction |-> AccountClassificationAutoClassifyActionResource,
     AccountChangeLogs |-> AccountChangeLogsResource,
     AccountChangeLogsStatistics |-> AccountChangeLogsStatisticsResource,
     AccountChangeLogDetail |-> AccountChangeLogDetailResource, AdDomainConfigs |-> AdDomainConfigsResource,
     AdDomainConfig |-> AdDomainConfigResource, AdDomainConfigEnabled |-> AdDomainConfigEnabledResource,
     AdDomainConfigTestConnection |-> AdDomainConfigTestConnectionResource,
     AdDomainSync |-> AdDomainSyncResource, Users |-> UsersResource, UserDetail |-> UserDetailResource,
     UsersStats |-> UsersStatsResource, CsrfToken |-> CsrfTokenResource, Login |-> LoginResource,
     Logout |-> LogoutResource, Session |-> SessionResource, ChangePassword |-> ChangePasswordResource,
     Me |-> MeResource, InstancesOptions |-> InstancesOptionsResource,
     AccountScopeOptions |-> AccountScopeOptionsResource, Instances |-> InstancesResource,
     InstancesExport |-> InstancesExportResource, InstancesImportTemplate |-> InstancesImportTemplateResource,
     InstanceDetail |-> InstanceDetailResource,
     InstanceSyncCapacityAction |-> InstanceSyncCapacityActionResource,
     InstanceRestoreAction |-> InstanceRestoreActionResource,
     InstancesBatchCreate |-> InstancesBatchCreateResource,
     InstancesBatchDelete |-> InstancesBatchDeleteResource,
     InstancesStatistics |-> InstancesStatisticsResource, InstanceAgAccounts |-> InstanceAgAccountsResource,
     InstancesSyncAccountsAction |-> InstancesSyncAccountsActionResource,
     InstancesSyncInstanceAccountsAction |-> InstancesSyncInstanceAccountsActionResource,
     InstanceAuditInfo |-> InstanceAuditInfoResource,
     InstanceAuditSyncAction |-> InstanceAuditSyncActionResource,
     InstanceBackupInfo |-> InstanceBackupInfoResource,
     InstancesConnectionsTest |-> InstancesConnectionsTestResource,
     InstancesConnectionsValidateParams |-> InstancesConnectionsValidateParamsResource,
     InstancesConnectionsBatchTest |-> InstancesConnectionsBatchTestResource,
     InstancesConnectionsStatus |-> InstancesConnectionsStatusResource, Credentials |-> CredentialsResource,
     CredentialDetail |-> CredentialDetailResource, Tags |-> TagsResource, TagOptions |-> TagOptionsResource,
     TagCategories |-> TagCategoriesResource, TagDetail |-> TagDetailResource,
     TagBatchDelete |-> TagBatchDeleteResource, TagsBulkInstances |-> TagsBulkInstancesResource,
     TagsBulkTags |-> TagsBulkTagsResource, TagsBulkAssign |-> TagsBulkAssignResource,
     TagsBulkRemove |-> TagsBulkRemoveResource, TagsBulkInstanceTags |-> TagsBulkInstanceTagsResource,
     TagsBulkRemoveAll |-> TagsBulkRemoveAllResource, DatabasesOptions |-> DatabasesOptionsResource,
     DatabaseLedgers |-> DatabaseLedgersResource, DatabaseStatistics |-> DatabaseStatisticsResource,
     DatabaseLedgersExport |-> DatabaseLedgersExportResource,
     DatabaseLedgersSyncAllAction |-> DatabaseLedgersSyncAllActionResource,
     DatabasesSizes |-> DatabasesSizesResource,
     DatabaseTableSizesSnapshot |-> DatabaseTableSizesSnapshotResource,
     DatabaseTableSizesRefresh |-> DatabaseTableSizesRefreshResource,
     CapacityCurrentAggregation |-> CapacityCurrentAggregationResource,
     CapacityDatabasesAggregations |-> CapacityDatabasesAggregationsResource,
     CapacityDatabasesSummary |-> CapacityDatabasesSummaryResource,
     CapacityInstancesAggregations |-> CapacityInstancesAggregationsResource,
     CapacityInstancesSummary |-> CapacityInstancesSummaryResource, TaskRunsList |-> TaskRunsListResource,
     TaskRunDetail |-> TaskRunDetailResource, TaskRunErrorLogs |-> TaskRunErrorLogsResource,
     TaskRunCancel |-> TaskRunCancelResource, HistorySessionsList |-> HistorySessionsListResource,
     HistorySessionDetail |-> HistorySessionDetailResource,
     HistorySessionErrorLogs |-> HistorySessionErrorLogsResource,
     HistorySessionCancel |-> HistorySessionCancelResource, SchedulerJobs |-> SchedulerJobsResource,
     SchedulerJobDetail |-> SchedulerJobDetailResource, SchedulerJobPause |-> SchedulerJobPauseResource,
     SchedulerJobResume |-> SchedulerJobResumeResource, SchedulerJobRun |-> SchedulerJobRunResource,
     SchedulerJobsReload |-> SchedulerJobsReloadResource, JumpServerSource |-> JumpServerSourceResource,
     JumpServerSyncAction |-> JumpServerSyncActionResource, VeeamSource |-> VeeamSourceResource,
     VeeamSources |-> VeeamSourcesResource, VeeamSourceItem |-> VeeamSourceItemResource,
     VeeamSourceEnableAction |-> VeeamSourceEnableActionResource,
     VeeamSourceDisableAction |-> VeeamSourceDisableActionResource,
     VeeamSyncAction |-> VeeamSyncActionResource, VeeamSyncInstanceAction |-> VeeamSyncInstanceActionResource,
     VeeamSourceInstanceSyncAction |-> VeeamSourceInstanceSyncActionResource,
     AlertEmailSettings |-> AlertEmailSettingsResource, AlertEmailTest |-> AlertEmailTestResource,
     AlertFeishuTest |-> AlertFeishuTestResource, RiskCenterRules |-> RiskCenterRulesResource,
     RiskCenterSummary |-> RiskCenterSummaryResource, RiskCenterCards |-> RiskCenterCardsResource,
     PartitionInfo |-> PartitionInfoResource, PartitionStatus |-> PartitionStatusResource,
     Partitions |-> PartitionsResource, PartitionCleanup |-> PartitionCleanupResource,
     PartitionStatistics |-> PartitionStatisticsResource,
     PartitionCoreMetrics |-> PartitionCoreMetricsResource, MySQLClusters |-> MySQLClustersResource,
     MySQLClusterInstanceOptions |-> MySQLClusterInstanceOptionsResource,
     MySQLClusterDetail |-> MySQLClusterDetailResource,
     MySQLClusterInstances |-> MySQLClusterInstancesResource,
     MySQLClusterTopologySync |-> MySQLClusterTopologySyncResource,
     SQLServerClusters |-> SQLServerClustersResource,
     SQLServerClusterInstanceOptions |-> SQLServerClusterInstanceOptionsResource,
     SQLServerClusterDetail |-> SQLServerClusterDetailResource,
     SQLServerClusterInstances |-> SQLServerClusterInstancesResource,
     SQLServerAvailabilityGroups |-> SQLServerAvailabilityGroupsResource,
     SQLServerAvailabilityGroupDashboard |-> SQLServerAvailabilityGroupDashboardResource,
     SQLServerAvailabilityGroupsSync |-> SQLServerAvailabilityGroupsSyncResource,
     SQLServerAvailabilityGroupAccountsSync |-> SQLServerAvailabilityGroupAccountsSyncResource,
     SQLServerClusterStatusSync |-> SQLServerClusterStatusSyncResource,
     SQLServerAvailabilityGroup |-> SQLServerAvailabilityGroupResource, HistoryLogs |-> HistoryLogsResource,
     HistoryLogStatistics |-> HistoryLogStatisticsResource, HistoryLogModules |-> HistoryLogModulesResource,
     HistoryLogDetail |-> HistoryLogDetailResource, DashboardOverview |-> DashboardOverviewResource,
     DashboardCharts |-> DashboardChartsResource, DashboardActivities |-> DashboardActivitiesResource,
     DashboardStatus |-> DashboardStatusResource, CacheStats |-> CacheStatsResource,
     CacheClearClassificationAction |-> CacheClearClassificationActionResource,
     CacheClassificationStats |-> CacheClassificationStatsResource, HealthPing |-> HealthPingResource,
     HealthBasic |-> HealthBasicResource, HealthCheck |-> HealthCheckResource,
     HealthCache |-> HealthCacheResource, HealthDetailed |-> HealthDetailedResource]

Calls == UNION {[resource : {r}, method : DOMAIN Api[r], role : Roles, token : BOOLEAN] : r \in DOMAIN Api}
Called == Api[call.resource][call.method]

CallInit ==
    /\ call \in Calls
    /\ phase = "gate" /\ at = 0
    /\ pending = {} /\ stored = {} /\ acted = FALSE
    /\ answer = "none" /\ worker = "none"

----------------------------------------------------------------------------
\* api_login_required, api_permission_required, api_admin_required and
\* require_csrf raise before the handler is called.
Admitted(c) ==
    /\ Allowed(c.role, Api[c.resource][c.method].need)
    /\ Api[c.resource][c.method].csrf /\ c.method \notin SafeMethods => c.token

Gate ==
    /\ phase = "gate"
    /\ IF Admitted(call)
         THEN phase' = "body" /\ UNCHANGED answer
         ELSE phase' = "answered" /\ answer' = "denied"
    /\ UNCHANGED <<call, at, pending, stored, acted, worker>>

\* safe_route_call: whatever escapes from the handler rolls its session back.
Rollback ==
    /\ phase = "body"
    /\ pending' = {} /\ phase' = "answered" /\ answer' = "error"

\* The handler returned: what its session holds is committed, or, when that
\* fails, rolled back.
Commit(a) ==
    \/ /\ stored' = stored \cup pending /\ pending' = {}
       /\ answer' = a
       /\ phase' = IF Called.after = <<>> \/ a # "ok" THEN "answered" ELSE "after"
    \/ Rollback /\ UNCHANGED stored

Kind == Called.body[at + 1]
Ready(kinds) == phase = "body" /\ at < Len(Called.body) /\ Kind \in kinds

\* A step that can only succeed or raise.
Fail ==
    /\ Ready({"check", "read", "write", "ask", "act", "commit"})
    /\ Rollback
    /\ UNCHANGED <<call, at, stored, acted, worker>>

Pass ==
    /\ Ready({"check", "read", "ask", "refuse", "done"})
    /\ at' = at + 1
    /\ UNCHANGED <<call, phase, pending, stored, acted, answer, worker>>

Flush ==
    /\ Ready(Writing)
    /\ at' = at + 1
    /\ \/ pending' = pending \cup {at + 1}
       \/ Kind = "try" /\ UNCHANGED pending
    /\ UNCHANGED <<call, phase, stored, acted, answer, worker>>

\* db.session.commit() in a service.
CommitInside ==
    /\ Ready({"commit"})
    /\ at' = at + 1
    /\ stored' = stored \cup pending /\ pending' = {}
    /\ UNCHANGED <<call, phase, acted, answer, worker>>

Act ==
    /\ Ready({"act", "clear"})
    /\ at' = at + 1
    /\ \/ acted' = TRUE
       \/ Kind = "clear" /\ UNCHANGED acted
    /\ UNCHANGED <<call, phase, pending, stored, answer, worker>>

\* thread.start() inside safe_call.
LaunchInside ==
    /\ Ready({"launch"})
    /\ at' = at + 1
    /\ worker' = "started"
    /\ UNCHANGED <<call, phase, pending, stored, acted, answer>>

\* The handler returns an error response, success, or comes to its end.
Refuse ==
    /\ Ready({"refuse"})
    /\ Commit("refused")
    /\ UNCHANGED <<call, at, acted, worker>>

Return ==
    /\ phase = "body"
    /\ at = Len(Called.body) \/ Ready({"done"})
    /\ Commit("ok")
    /\ UNCHANGED <<call, at, acted, worker>>

\* launch_background_...: behind safe_call, when the run was prepared.
LaunchAfter ==
    /\ phase = "after"
    /\ worker' = "started" /\ phase' = "answered"
    /\ UNCHANGED <<call, at, pending, stored, acted, answer>>

\* The thread works with sessions of its own and looks its run up.
LookUpRun ==
    /\ worker = "started"
    /\ worker' = IF stored = {} THEN "lost" ELSE "found"
    /\ UNCHANGED <<call, phase, at, pending, stored, acted, answer>>

CallNext ==
    \/ Gate \/ Fail \/ Pass \/ Flush \/ CommitInside \/ Act \/ LaunchInside
    \/ Refuse \/ Return \/ LaunchAfter \/ LookUpRun

CallSpec == CallInit /\ [][CallNext]_callVars

----------------------------------------------------------------------------
CallTypeOK ==
    /\ call \in Calls
    /\ phase \in {"gate", "body", "after", "answered"}
    /\ at \in 0..Len(Called.body)
    /\ pending \subseteq 1..at /\ stored \subseteq 1..at
    /\ acted \in BOOLEAN
    /\ answer \in {"none", "denied", "ok", "refused", "error"}
    /\ worker \in {"none", "started", "found", "lost"}

Done(kinds) == Positions(Called.body, kinds) \cap 1..at

\* The handlers whose service commits before the rest of the call is done.
CommitsEarly == Positions(Called.body, {"commit"}) # {}

(* A caller who was not admitted changed nothing.  Success and a refusal    *)
(* returned as a response keep what the handler wrote ("业务结果失败");        *)
(* an exception keeps nothing, unless the service had committed by itself.  *)
AnswerTells ==
    /\ answer = "denied" => stored = {} /\ ~acted /\ worker = "none"
    /\ answer \in {"ok", "refused"} => Done({"write"}) \subseteq stored
    /\ answer = "error" /\ ~CommitsEarly => stored = {}
    /\ phase = "answered" => pending = {}

(* Nothing changes, in the database or outside of it, but by a call that    *)
(* carries a valid token; a call of a safe method never changes anything.   *)
OnlyCommandsChange ==
    stored # {} \/ pending # {} \/ acted \/ worker # "none" => call.token /\ call.method \notin SafeMethods

\* Both: what an answer says, and which calls may do anything at all.
AnswersAreTrue == AnswerTells /\ OnlyCommandsChange

(* A thread finds the run it was started for; only that of the backup       *)
(* synchronisation is started while its run is not committed yet.           *)
ThreadsFindRuns == worker = "lost" => call.resource = "VeeamSyncAction"

(* What an answer says, which calls may do anything at all, and that a      *)
(* thread is started for a run it can find.                                 *)
CallsHold == AnswersAreTrue /\ ThreadsFindRuns
=============================================================================
