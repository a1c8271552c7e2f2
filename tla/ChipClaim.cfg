SPECIFICATION Spec
CONSTANTS
    Requesters = {r1, r2}
    Transactors = {t1, t2, t3}
    Monitors = {m1}
    Updaters = {u1}
    Senders = {s1}
    NULL = NULL
INVARIANTS TypeOK OneUser UserKeepsClaim QuietMeansFree
