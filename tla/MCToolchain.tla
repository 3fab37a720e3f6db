----------------------------- MODULE MCToolchain ----------------------------
(* A small instance of Toolchain.                                          *)
EXTENDS Toolchain

\* A good archive, one with an entry that is refused, and one of the same version as
\* the good one with other bytes.
MCBodies == {"good", "unsafe", "other"}
MCVersionOf == [b \in MCBodies |-> IF b = "unsafe" THEN "v2" ELSE "v1"]

\* The two pins name the good archive, or one of them names a bad archive or another
\* version than the archive has.
Pin(a, v) == [archive |-> a, version |-> v]
MCPins ==
  {[node |-> n, npm |-> p] :
     n \in {Pin("good", "v1"), Pin("good", "v2"), Pin("unsafe", "v2")},
     p \in {Pin("good", "v1"), Pin("other", "v1")}}
=============================================================================
