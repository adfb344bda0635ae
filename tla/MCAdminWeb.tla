----------------------------- MODULE MCAdminWeb -----------------------------
(* One login at a time, two users and one AWG address.                     *)
EXTENDS AdminWeb
=============================================================================
