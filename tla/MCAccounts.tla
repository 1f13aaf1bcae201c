----------------------------- MODULE MCAccounts -----------------------------
(***************************************************************************)
(* Instances of Accounts for TLC: an account as requests that are not in   *)
(* the instance have left it, and the requests to come.                    *)
(***************************************************************************)
EXTENDS Accounts, TLC

CONSTANTS d1, d2, t1, t2, t3, t4

AccountDevice == {d1, d2}
AccountTok    == {t1, t2, t3, t4}
AccountSymmetry == Permutations(Conn)

Account(status, ver) == (User :> [status |-> status, gone |-> FALSE, ver |-> ver])

\* Signed in on one device, or on two.
Signed(t, d) == (t :> [dev |-> d, fam |-> t, rev |-> FALSE, next |-> Nil]
                 @@ d :> [off |-> FALSE])
Code1 == (1 :> [used |-> FALSE, tries |-> 0])

Counts(s) == [k \in {s[i] : i \in DOMAIN s} |->
                 Cardinality({i \in DOMAIN s : s[i] = k})]

Given(rows, n, s) == [db |-> rows, codes |-> n, menu |-> Counts(s)]

OneDevice == Account("active", TRUE) @@ Signed(t1, d1)
TwoDevices == OneDevice @@ Signed(t2, d2)
Pending == Account("pending", FALSE) @@ Code1

\* Two refreshes, or a refresh of each device, among any two requests that may
\* come from an account that is signed in.
Among == {"login", "apple", "logout", "logout_device", "logout_all", "force_logout",
          "reset", "password", "email_change", "revoke_device", "suspend",
          "reactivate", "schedule", "cancel", "delete", "refresh"}

\* A code is guessed, sent again and overtaken by what an administrator does.
Unverified == {<<"verify", "verify", "resend">>, <<"verify", "resend", "resend">>,
               <<"verify", "verify", "verify", "verify">>,
               <<"verify", "resend", "suspend", "reactivate">>,
               <<"verify", "verify", "delete">>}

AccountStart ==
    {Given(rows, 0, <<"refresh", "refresh", a, b>>) :
        rows \in {OneDevice, TwoDevices}, a, b \in Among}
    \cup {Given(Pending, 1, s) : s \in Unverified}

ResetStart == {Given(OneDevice, 0, <<"refresh", "reset">>)}
VerifyStart == {Given(Pending, 1, <<"verify", "suspend", "reactivate">>)}
=============================================================================
