------------------------------ MODULE MCWebAuth ------------------------------
(***************************************************************************)
(* WebAuth for TLC: one browser with two requests in flight, so that a     *)
(* page and a login, or two pages, overlap.                                *)
(***************************************************************************)
EXTENDS WebAuth, TLC

\* core.Role: RoleBanned, RoleUser, RoleAdmin.
CoreRoles == {-2, 0, 3}

\* A public page, a member page, and one for exactly the admin role.
Routes == {[how |-> "soft", role |-> 0], [how |-> "atLeast", role |-> 0],
           [how |-> "exactly", role |-> 3]}

RequestsAlike == Permutations(Requests)
AddressesAlike == Permutations(IPs)
Alike == RequestsAlike \cup AddressesAlike
=============================================================================
