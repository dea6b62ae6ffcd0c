--------------------------- MODULE MC_GuestChannel --------------------------
(***************************************************************************)
(* Instances of GuestChannel for TLC.                                      *)
(***************************************************************************)
EXTENDS GuestChannelInv

CONSTANTS good, bad, script, x

Do(kind, files) == [kind |-> kind, files |-> files]

\* A directory with a file the guest cannot take, in both directions, an empty one,
\* and commands.
SomeActions == {Do("copyto", {}), Do("copyto", {good, bad}), Do("copyfrom", {good, bad}),
                Do("exec", {script})}

AllFiles == {good, bad, script}
BadFiles == {bad}
OneName == {x}
TwoValues == {1, 2}

=============================================================================
