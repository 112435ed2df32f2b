---------------------------- MODULE MCAccounts ------------------------------
(* The values of the constants of Accounts for TLC. *)
EXTENDS Accounts, TLC

\* Two spellings of one address, the one of another customer, and nothing.
Lower == [e \in Emails |-> IF e = "A" THEN "a" ELSE e]

Call(b, op, e, p) == [browser |-> b, op |-> op, email |-> e, password |-> p, order |-> "o"]

\* Two browsers.  The second also tries the first one's address.
SomeCalls ==
    {Call("one", "signup", e, "pa") : e \in {"a", "A", ""}}
    \union {Call("one", "login", "A", "pa"), Call("one", "logout", "", "")}
    \union {Call("two", op, e, "pb") : op \in SetsSession, e \in {"a", "b"}}
    \union {Call(b, op, "", "") : b \in Browsers, op \in {"checkout", "read"}}
    \union {Call("two", "me", "", "")}

Symmetric == Permutations(Requests)

=============================================================================
