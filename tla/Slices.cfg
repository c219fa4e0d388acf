CONSTANTS
    Amounts = {2, 5, 8}
    MinOuts = {0, 1, 3, 4}
    Prices <- MCPrices
    MaxSlices = 3
    MaxAllowance = 9
    MaxExecs = 2
    MaxErrors = 2
SPECIFICATION Spec
INVARIANTS TypeOK SlicesEven WholeDecisionSent SizeRejectedFirst QuoteRejectsOnlyTight MaxApprovalNeverShort ShortOnlyBehindPending
CHECK_DEADLOCK FALSE
