SPECIFICATION Spec
CONSTANTS
    auth = auth
    Runs = {p1, p2}
    Attempts = {a1, a2}
    Authorities = {auth}
    AuthorityOf <- OneAuthority
INVARIANTS ProviderStartsOnce PublishedIsSettled FailedLeftNothing
CHECK_DEADLOCK FALSE
