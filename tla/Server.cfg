SPECIFICATION ServerSpec
CONSTANTS
    c1 = c1  c2 = c2  r1 = r1  p = p  q = q
    NoRole = NoRole  NoPassword = NoPassword
    Conns = {c1, c2}
    MaxConnections = 2
    RoleNames = {r1}
    Passwords = {p, q}
    MaxChanges = 3
    SessionNames = {"a"}
    MaxRuns = 2
    MaxSaves = 1
    MaxAlters = 1
    SmallInts = {0, 1}
    Depth = 1
    BaseTable = BaseTable
    OtherTable = OtherTable
    Grantable <- SomeGrants
    MaxClauses = 3
    MaxBatchClauses = 1
    t1 = t1  t2 = t2
    SchemaTables = {t1, t2}
    Encodable = {t1}
    MaxCatalogFaults = 2
SYMMETRY ServerSymmetry
INVARIANT GrantsHaveRoleUnlessCut
 
PROPERTY AdmitsAsConfigured
 
INVARIANT FilterExactUnlessForeign
INVARIANT AnsweredInFullUnlessLoose
INVARIANT TouchesWhatItMay
 
CHECK_DEADLOCK FALSE
