CONSTANTS
    jq = jq
    rg = rg
    raw = raw
    lib = lib
    boot = boot
    again = again
    add = add
    more = more
    Packages = {jq, rg, raw, lib}
    Named = {jq, rg}
    Boots = {boot, again}
    NoVM = none
    Adds = {add, more}
    Readers <- MCReaders
    MaxSelected = 3
    MaxLoads = 3
SPECIFICATION FairSpec
INVARIANTS TypeOK AddsHaveVM MountedIsShare ReloadKeepsPackages
PROPERTY ButtonComesBack
CHECK_DEADLOCK FALSE
