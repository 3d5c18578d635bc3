CONSTANTS
  Migrations <- MCMigrations
  Plans <- MCPlans
SPECIFICATION Spec
INVARIANTS
  SchemaConsistent
  StatementAlone
  RetryCompletes
  HealthyRunSucceeds
PROPERTIES
  RepeatedOnlyAfterFailure
  CommandsEnd
CHECK_DEADLOCK FALSE
