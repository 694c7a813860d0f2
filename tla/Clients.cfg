\* Two documents in a batch, then two jobs on the single page, with lost calls.
SPECIFICATION FairSpec
CONSTANTS
  Documents = 2
  MaxAttempts = 2
  Allowances <- MCAllowances
  MaxJobs = 2
  Budgets <- MCBudgets
INVARIANTS BatchSafe PageSafe
PROPERTIES ReceivedStays EditsKept RowsSettle ClearEnds ReviewReached
\* A batch that was closed or a page without a document is left as it is.
CHECK_DEADLOCK FALSE
