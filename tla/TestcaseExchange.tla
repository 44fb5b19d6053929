--------------------------- MODULE TestcaseExchange ---------------------------
(***************************************************************************)
(* What the sync directory promises the clients that exchange testcases over    *)
(* it, without files, names or times.  A testcase may be taken as soon as it is  *)
(* complete and has to be taken once it is offered; it is withdrawn only after    *)
(* its finder has died; an import that ends has taken all that it owed; and      *)
(* what is settled is not taken again.                                         *)
(***************************************************************************)
CONSTANTS
    Clients,
    Testcases    \* records with the client that found it

VARIABLES
    complete,   \* the testcases that can be read
    offered,    \* those of them that every import has to see
    died,       \* the clients that have died at least once
    fresh,      \* the clients that have ended no import in this life
    importing,  \* the clients that are importing
    owed,       \* what their imports have to take
    taken,      \* what they have taken
    settled     \* what a client will not take again in this life

vars == <<complete, offered, died, fresh, importing, owed, taken, settled>>

Nothing == [c \in Clients |-> {}]

Init ==
    /\ complete = {} /\ offered = {}
    /\ died = {} /\ fresh = Clients /\ importing = {}
    /\ owed = Nothing /\ taken = Nothing /\ settled = Nothing

Complete(t) ==
    /\ complete' = complete \cup {t}
    /\ UNCHANGED <<offered, died, fresh, importing, owed, taken, settled>>

\* An offer may replace others that its finder made before it died.
Offer(t) ==
    /\ t \in complete
    /\ \E gone \in SUBSET {u \in offered : u.client = t.client} :
         /\ gone = {} \/ t.client \in died
         /\ offered' = (offered \ gone) \cup {t}
         /\ complete' = complete \ (gone \ {t})
    /\ UNCHANGED <<died, fresh, importing, owed, taken, settled>>

\* What was complete when its finder died, and not offered, may be lost.
Lose(t) ==
    /\ t \in complete \ offered
    /\ t.client \in died
    /\ complete' = complete \ {t}
    /\ UNCHANGED <<offered, died, fresh, importing, owed, taken, settled>>

\* The first import owes everything that is on offer. Later ones owe of it what they
\* take for new, and that is nothing that is settled.
Begin(c) ==
    /\ c \notin importing
    /\ importing' = importing \cup {c}
    /\ \E new \in SUBSET offered :
         /\ IF c \in fresh THEN new = offered ELSE new \cap settled[c] = {}
         /\ owed' = [owed EXCEPT ![c] = new]
    /\ UNCHANGED <<complete, offered, died, fresh, taken, settled>>

Take(c, t) ==
    /\ c \in importing
    /\ t \in complete \ settled[c]
    /\ taken' = [taken EXCEPT ![c] = @ \cup {t}]
    /\ UNCHANGED <<complete, offered, died, fresh, importing, owed, settled>>

End(c) ==
    /\ c \in importing
    /\ owed[c] \cap offered \subseteq taken[c]
    /\ importing' = importing \ {c}
    /\ fresh' = fresh \ {c}
    /\ \E kept \in SUBSET taken[c] :
         /\ owed[c] \cap taken[c] \subseteq kept
         /\ settled' = [settled EXCEPT ![c] = @ \cup kept]
    /\ owed' = [owed EXCEPT ![c] = {}]
    /\ taken' = [taken EXCEPT ![c] = {}]
    /\ UNCHANGED <<complete, offered, died>>

Die(c) ==
    /\ died' = died \cup {c}
    /\ fresh' = fresh \cup {c}
    /\ importing' = importing \ {c}
    /\ owed' = [owed EXCEPT ![c] = {}]
    /\ taken' = [taken EXCEPT ![c] = {}]
    /\ settled' = [settled EXCEPT ![c] = {}]
    /\ UNCHANGED <<complete, offered>>

Next ==
    \/ \E t \in Testcases : Complete(t) \/ Offer(t) \/ Lose(t)
    \/ \E c \in Clients :
         \/ Begin(c) \/ End(c) \/ Die(c)
         \/ \E t \in Testcases : Take(c, t)

Spec == Init /\ [][Next]_vars
=============================================================================
