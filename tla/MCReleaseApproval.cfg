CONSTANTS
    r1 = r1
    r2 = r2
    op = op
    Runs <- MCRuns
    Operators <- MCOperators
    Clients <- MCClients
    Crates <- MCCrates
    Versions <- MCVersions
    Publishable = {"crypto", "response"}
    Manifest <- MCManifest
    Tags <- MCTags
    Requires <- MCRequires
    Attempts = 2
    Retries = 2
    MaxPolls = 1
SPECIFICATION Spec
INVARIANTS CheckedBeforeApproval
