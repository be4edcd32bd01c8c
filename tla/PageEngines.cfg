CONSTANTS
    jq = jq
    rg = rg
    raw = raw
    lib = lib
    boot = boot
    again = again
    add = add
    more = more
    Packages = {jq, rg, raw, lib}
    Named = {jq, rg}
    Boots = {boot, again}
    NoVM = none
    Adds = {add, more}
    Readers <- MCReaders
    MaxSelected = 1
    MaxLoads = 1
SPECIFICATION Spec
INVARIANT AtMostOneEngine
CHECK_DEADLOCK FALSE
