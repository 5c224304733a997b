------------------------------ MODULE LivePolicy -------------------------------
(***************************************************************************)
(* What the console promises about a Live, its line-up contexts and its    *)
(* setlist, as if every request were one step: a condition holds when the  *)
(* change is made, not just when it was checked.                           *)
(***************************************************************************)
EXTENDS Naturals

CONSTANTS Lives, Bands, Today

VARIABLES live, setlist, context

policyVars == <<live, setlist, context>>

NoContext == [name |-> 0, base |-> 0, next |-> 0]
WithContext(contexts) == {b \in Bands : contexts[b] # NoContext}

PolicyInit ==
    /\ \A l \in Lives : setlist[l] = {} /\ WithContext(context[l]) = live[l].bands

\* Only this Live changes.
Only(l) ==
    /\ \A k \in Lives \ {l} : live'[k] = live[k] /\ setlist'[k] = setlist[k] /\ context'[k] = context[k]

CreateLive(l) ==
    /\ Only(l)
    /\ live[l].status = "none"
    /\ WithContext(context'[l]) = live'[l].bands
    /\ setlist'[l] = setlist[l]

\* A Live with a setlist keeps its day and its contexts and is not cancelled.
UpdateLive(l) ==
    /\ Only(l)
    /\ live[l].status # "none" /\ live'[l].status # "none"
    /\ setlist'[l] = setlist[l]
    /\ IF setlist[l] # {}
       THEN live'[l].day = live[l].day /\ live'[l].status # "cancelled" /\ context'[l] = context[l]
       ELSE WithContext(context'[l]) = live'[l].bands

\* A setlist is saved for a Live that takes place and is not in the future.
SaveSetlist(l) ==
    /\ Only(l)
    /\ live[l].status \notin {"none", "cancelled"} /\ live[l].day <= Today
    /\ live'[l] = live[l]
    /\ {p.band : p \in setlist'[l]} \subseteq WithContext(context'[l])
    /\ \A b \in WithContext(context[l]) : context'[l][b] = context[l][b]

\* The next line-up version of a band is recorded in its context at a Live.
RecordHandOver(l, b) ==
    /\ Only(l)
    /\ live'[l] = live[l] /\ setlist'[l] = setlist[l]
    /\ context[l][b].next = 0 /\ context'[l][b].next = context'[l][b].base + 1
    /\ context'[l] = [context[l] EXCEPT ![b] = context'[l][b]]

\* A band hands over at a Live that takes place and at which it plays.
Effective(l) == IF setlist[l] = {} THEN live[l].bands ELSE {p.band : p \in setlist[l]}
HandOver(l) ==
    /\ live[l].status \notin {"none", "cancelled"}
    /\ \E b \in Effective(l) : RecordHandOver(l, b)

PolicyNext == \E l \in Lives : CreateLive(l) \/ UpdateLive(l) \/ SaveSetlist(l) \/ HandOver(l)

PolicySpec == PolicyInit /\ [][PolicyNext]_policyVars
===============================================================================
