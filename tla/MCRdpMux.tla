------------------------------ MODULE MCRdpMux ------------------------------
(***************************************************************************)
(* RdpMux on small framebuffers, for TLC.  ALIGN is 2 where a box has to   *)
(* be rounded and 1 where it does not matter.                              *)
(***************************************************************************)
EXTENDS RdpMux, TLC

Size(w, h)         == [w |-> w, h |-> h]
At(x, y, w, h)     == [x |-> x, y |-> y, w |-> w, h |-> h]

\* Two framebuffers that the region can hold, neither of which contains the
\* other, and one that it cannot; single pixels far apart.
DisplaySurfaces == {Size(3, 3), Size(4, 1), Size(4, 3)}
FarPixels       == {At(0, 0, 1, 1), At(2, 2, 1, 1)}

\* The smallest pair of framebuffers that can each outgrow the other.
TwoSurfaces  == {Size(1, 2), Size(2, 1)}
UnitPixels   == {At(1, 0, 1, 1), At(0, 1, 1, 1)}

\* One pixel, where geometry plays no part.
PointSurface == {Size(1, 1)}
PointRegion  == {At(0, 0, 1, 1)}

\* A guest that draws nothing: no thread competes with the out loop for shm_lock.
NoRegion     == {}

OnlyTwenty   == {20}

\* g_malloc0 gives any unused address, and addresses are told apart by nothing
\* but equality; or, where symmetry would be unsound (liveness) or costs more
\* than it saves, one fixed address of the unused ones, which changes a
\* behaviour by a renaming of addresses only.
AnyOf(S)     == S
FirstOf(S)   == IF S = {} THEN {} ELSE {CHOOSE p \in S : TRUE}
PtrSymmetry  == Permutations(Ptr)
=============================================================================
