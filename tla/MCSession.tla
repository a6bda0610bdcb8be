------------------------------ MODULE MCSession ------------------------------
(* An administrator and a user, one tab of a browser; the other tabs act on local storage. *)
EXTENDS Session
CONSTANTS u1, u2

MCUser == {u1, u2}
MCAdmins == {u1}
=============================================================================
