SPECIFICATION FairSpec
CONSTANTS
    Nobody = Nobody
    None = None
    Ids = {a, b}
    Requests = {r1, r2}
    Tools = {t1}
    MaxCrashes = 1
INVARIANT TypeOK
INVARIANT FailsClosed
INVARIANT SecretsAreTimed
PROPERTY KeepsFiles
PROPERTY SecretUntilDue
PROPERTY LoginsEnd
