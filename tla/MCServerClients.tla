-------------------------- MODULE MCServerClients ---------------------------
(* One window that may fall silent; a client of two windows; two accounts   *)
(* that select one system through two handlers; two administrators, and     *)
(* SeAT using an operation and a key twice.                                 *)
EXTENDS ServerClients

CONSTANTS w1, jita, s1, a1, a2, h1, h2,
    admin1, admin2, token1, token2, caller1, caller2, window1, window2, key1, key2, op1, op2

MCClients == {w1}

MCSystems == {jita}

MCReplaces == [c \in Clients |-> {}]

MCQualities == {"complete", "truncated"}

MCMaxStamp == [c \in Clients |-> 3]

MCMaxEpoch == [c \in Clients |-> 2]

MCScopeSystems == {s1}

MCWindows == {window1, window2}

MCRestless == {window1}

MCAccounts == {a1, a2}

MCHandlers == {h1, h2}

MCUsers == {admin1, admin2}

MCSessions == {token1, token2}

MCCallers == {caller1, caller2}

MCSeatRequests ==
    {[operation |-> op1, key |-> key1, text |-> 1],
     [operation |-> op1, key |-> key2, text |-> 2],
     [operation |-> op2, key |-> key1, text |-> 3]}
=============================================================================
