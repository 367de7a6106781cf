SPECIFICATION RegistrySpec
CONSTANTS
    Clients = {t1, t2, t3}
    Names = {"default", "app"}
    Default = "default"
    MaxLoggers = 4
    MaxRemoves = 3
    None = None
INVARIANTS
    RegistryTypeOK
    ReferencesAgree
