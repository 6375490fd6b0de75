------------------------- MODULE MCServerMembership -------------------------
(***************************************************************************)
(* Small instances of ServerMembership: one member, and a second server    *)
(* that joins or that is outside the ring.                                 *)
(***************************************************************************)
EXTENDS ServerMembership

CONSTANTS s1, s2

OneMember == <<s1>>
OneMode == <<"CRAQ">>
TwoModes == <<"CHAIN", "CRAQ">>

=============================================================================
