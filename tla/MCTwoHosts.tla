------------------------------ MODULE MCTwoHosts ------------------------------
(***************************************************************************)
(* Two hosts, of which a behaviour follows one: "bare" hashes with bare    *)
(* bcrypt, and people type a name in two spellings; "rotating" goes from   *)
(* pepper a to pepper b.                                                   *)
(***************************************************************************)
EXTENDS MCAuthFlow

VARIABLE host

MCHosts == MCBare \o MCRotation
RotatingFrom == Len(MCBare) + 1

BareInputs == [usernames |-> {"bob", "Bob", ""}, emails |-> {""},
               identifiers |-> {"", "bob", "Bob"}, passwords |-> Passwords]
RotatingInputs == [usernames |-> {"bob"}, emails |-> {"bob@x"},
                   identifiers |-> {"", "bob", "bob@x"}, passwords |-> Passwords \ {"short"}]

HostInit ==
    \/ host = "bare" /\ Init
    \/ /\ host = "rotating"
       /\ NoUsers /\ flow = [r \in Requests |-> Idle] /\ deployed = RotatingFrom

HostNext ==
    \/ host = "bare" /\ Serve(BareInputs) /\ UNCHANGED host
    \/ host = "rotating" /\ Serve(RotatingInputs) /\ UNCHANGED host
    \/ host = "rotating" /\ Deploy /\ UNCHANGED host

HostSpec == HostInit /\ [][HostNext]_<<vars, host>>
=============================================================================
