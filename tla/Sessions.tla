------------------------------ MODULE Sessions ------------------------------
(***************************************************************************)
(* What the sessions of an account promise, whatever the requests that     *)
(* rotate and revoke refresh tokens do to each other: a session is opened  *)
(* once, by one sign-in, and once it has ended it never comes back.        *)
(***************************************************************************)
CONSTANT Session

VARIABLES
    live,       \* sessions that hold a token which can still be rotated
    over        \* sessions that have ended

Init ==
    /\ live \in SUBSET Session
    /\ over \in SUBSET (Session \ live)

\* A transaction ends sessions, opens some, or both (a change of the address
\* ends those of the other devices and opens one).
Change(ended, opened) ==
    /\ live' = (live \ ended) \cup opened
    /\ over' = over \cup ended

Next ==
    \E ended \in SUBSET live, opened \in SUBSET (Session \ (live \cup over)) :
        Change(ended, opened)

SessionsSpec == Init /\ [][Next]_<<live, over>>
=============================================================================
