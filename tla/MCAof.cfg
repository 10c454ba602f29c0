SPECIFICATION Spec
CONSTANT Setups <- SafetySetups
INVARIANTS FileHoldsData TransactionsAtomic AckedIsDurable
CHECK_DEADLOCK FALSE
