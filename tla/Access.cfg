\* Three requests of one user, or in one team, from each of the workloads.
SPECIFICATION AccessSpec
CONSTANTS
    r1 = r1
    r2 = r2
    r3 = r3
    earlier = earlier
    phone = phone
    Requests = {r1, r2, r3}
    OldSessions = {earlier}
    NoSession = NoSession
    None = None
    MaxAttempts = 1
    AccountWorkloads <- MCAccountWorkloads
    t1 = t1
    t2 = t2
    t3 = t3
    ann = ann
    bob = bob
    cy = cy
    TeamRequests = {t1, t2, t3}
    TeamUsers = {ann, bob, cy}
    OldRow = OldRow
    Absent = Absent
    TeamWorkloads <- MCTeamWorkloads
    c1 = c1
    c2 = c2
    c3 = c3
    once = once
    u1 = u1
    u2 = u2
    u3 = u3
    d1 = d1
    d2 = d2
    a1 = a1
    a2 = a2
    ApiRequests = {c1, c2, c3}
    Nobody = Nobody
    Limits <- MCLimits
    BatchSize = 1
    MaxTurns = 1
    ApiWorkloads <- MCApiWorkloads
    HookUsers = {u1, u2, u3}
    Deliveries = {d1, d2}
    Attempts = {a1, a2}
    NoRow = NoRow
    MaxRetries = 2
    MaxFailures = 2
    MaxFaults = 1
    HookWorkloads <- MCHookWorkloads
INVARIANTS LogoutAllLeavesNone FlagStaleOnlyIfRaced OneOwnerUnlessOverwritten CachedRoleIsCurrent RevokedKeyIsRefused CountersNeverLead KeptAnswersAreReplayed EntriesKeptUnlessABatchFails GivesUpOnlyAfterRetries
PROPERTIES VerifiedStaysVerified SettledStaysSettled
CHECK_DEADLOCK FALSE
