----------------------------- MODULE MCAnnounce -----------------------------
(* Model checking of the registration of a group: a probed record u and a    *)
(* shared record s on two interfaces, and a unique record x, neither probed  *)
(* nor announced, on one of them.                                            *)
EXTENDS Announce

CONSTANTS u, s, x, i1, i2

MCMatch == {<<u, i1>>, <<u, i2>>, <<s, i1>>, <<s, i2>>, <<x, i1>>}
=============================================================================
