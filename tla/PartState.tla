----------------------------- MODULE PartState ------------------------------
(***************************************************************************)
(* The state of a behaviour that explores one component of several, named  *)
(* by part.  The component's variables are x1, x2, ...; those it has no    *)
(* use for hold Unused.                                                    *)
(***************************************************************************)
CONSTANTS
  Parts,   \* the components a behaviour may be of
  Unused, Sessions, NoSession, MaxRequests, MaxRows

VARIABLES
  part,   \* the component explored
  x1, x2, x3, x4, x5, x6, x7, x8, x9, x10, x11, x12, x13, x14, x15, x16,
  x17, x18, x19, x20, x21, x22, x23, x24

\* The variables past the n-th, which a component of n variables leaves unused.
Past16 == <<x17, x18, x19, x20, x21, x22, x23, x24>>
Past15 == <<x16, Past16>>
Past14 == <<x15, Past15>>
Past13 == <<x14, Past14>>
Past12 == <<x13, Past13>>
Past11 == <<x12, Past12>>
Past10 == <<x11, Past11>>
Past9 == <<x10, Past10>>
Past8 == <<x9, Past9>>
Past7 == <<x8, Past8>>
Past4 == <<x5, x6, x7, Past7>>

Unused16 ==
  /\ x17 = Unused /\ x18 = Unused /\ x19 = Unused /\ x20 = Unused
  /\ x21 = Unused /\ x22 = Unused /\ x23 = Unused /\ x24 = Unused
Unused15 == x16 = Unused /\ Unused16
Unused14 == x15 = Unused /\ Unused15
Unused13 == x14 = Unused /\ Unused14
Unused12 == x13 = Unused /\ Unused13
Unused11 == x12 = Unused /\ Unused12
Unused10 == x11 = Unused /\ Unused11
Unused9 == x10 = Unused /\ Unused10
Unused8 == x9 = Unused /\ Unused9
Unused7 == x8 = Unused /\ Unused8
Unused4 == x5 = Unused /\ x6 = Unused /\ x7 = Unused /\ Unused7

vars == <<part, x1, x2, x3, x4, x5, x6, x7, x8, x9, x10, x11, x12, x13, x14, x15, x16,
          x17, x18, x19, x20, x21, x22, x23, x24>>
=============================================================================
