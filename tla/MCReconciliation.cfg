CONSTANTS
    t1 = t1
    t2 = t2
    None = None
    Threads = {t1, t2}
    Settlements <- MCSettlements
    Disputes <- MCDisputes
    Payments <- MCPayments
    Refunds <- MCRefunds
    MaxEntries = 4
SPECIFICATION Spec
SYMMETRY ThreadSymmetry
INVARIANTS
    TypeOK
    OneEntryPerWebhook
    AuditFollowsLedger
    NetWithinGross
    SummaryFollowsEvents
PROPERTIES
    ImplementsOnce
