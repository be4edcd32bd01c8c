---------------------------- MODULE MCClosureWalk ----------------------------
(* A diamond with a self reference above a shared library, which itself    *)
(* references its own path, as glibc does.                                 *)
EXTENDS ClosureWalk

MCDigests == {"app", "left", "right", "libc"}
MCRefs ==
    [d \in MCDigests |->
        CASE d = "app"   -> {"app", "left", "right"}
          [] d = "left"  -> {"libc"}
          [] d = "right" -> {"left", "libc"}
          [] d = "libc"  -> {"libc"}]
MCSelections == {{"app"}, {"left", "right"}, {"libc"}}
=============================================================================
