SPECIFICATION FairSpec
CONSTANTS
    c1 = c1
    c2 = c2
    r1 = r1
    r2 = r2
    Commits = {c1, c2}
    Releases = {r1, r2}
    Toolchain <- Compilers
    Contexts = {"go1.25"}
    GoVersion = "go1.25"
    OldEnvds <- OldEnvd
    Deps <- Linked
    MaxMishaps = 2
INVARIANT OneFlattenCtl
INVARIANT NoticesCoverPayloads
INVARIANT SelectedOnly
PROPERTY ReleaseCompletes
