---------------------------- MODULE MailDelivery ----------------------------
(***************************************************************************)
(* What mail-proxy promises about the deliveries of a mail, without queues,*)
(* workers or stores.  A mail that is admitted is one live copy.  A live   *)
(* copy is accepted by the provider once, or abandoned.  Another copy      *)
(* appears for two reasons only: an answer of the provider was not seen, or*)
(* a fault made the broker deliver a message again.                        *)
(***************************************************************************)
EXTENDS Naturals

CONSTANT Mails

VARIABLES
    open,   \* mails whose submission has not been decided yet
    live,   \* of each mail, the copies that may still reach the provider
    done,   \* of each mail, the copies the provider accepted
    last,   \* of each mail, the number of its newest copy
    faults  \* crashes and lost connections so far

dVars == <<open, live, done, last, faults>>

DInit ==
    /\ open = Mails
    /\ live = [m \in Mails |-> {}]
    /\ done = [m \in Mails |-> {}]
    /\ last = [m \in Mails |-> 0]
    /\ faults = 0

Admit(m) ==
    /\ m \in open
    /\ open' = open \ {m}
    /\ live' = [live EXCEPT ![m] = {0}]
    /\ UNCHANGED <<done, last, faults>>

\* The request fails, or its message is lost on the way to the queue.
Refuse(m) ==
    /\ m \in open
    /\ open' = open \ {m}
    /\ UNCHANGED <<live, done, last, faults>>

Accept(m) ==
    \E t \in live[m] :
        /\ live' = [live EXCEPT ![m] = @ \ {t}]
        /\ done' = [done EXCEPT ![m] = @ \cup {t}]
        /\ UNCHANGED <<open, last, faults>>

\* The provider accepts a copy, but its answer is not seen: the mail goes on
\* as a new copy, if at all.
AcceptUnseen(m) ==
    \E t \in live[m] :
        /\ done' = [done EXCEPT ![m] = @ \cup {t}]
        /\ last' = [last EXCEPT ![m] = @ + 1]
        /\ \/ live' = [live EXCEPT ![m] = (@ \ {t}) \cup {last[m] + 1}]
           \/ live' = [live EXCEPT ![m] = @ \ {t}]
        /\ UNCHANGED <<open, faults>>

\* Cancelled, out of retries, or lost with an unsuccessful publish.
Abandon(m) ==
    \E t \in live[m] :
        /\ live' = [live EXCEPT ![m] = @ \ {t}]
        /\ UNCHANGED <<open, done, last, faults>>

\* A fault ends requests and live copies; of one mail at most, decided before,
\* it brings a new copy.
Fault ==
    /\ faults' = faults + 1
    /\ open' \subseteq open
    /\ \E again \in SUBSET (Mails \ open) :
          /\ \A m, n \in again : m = n
          /\ last' = [m \in Mails |-> IF m \in again THEN last[m] + 1
                                                     ELSE last[m]]
          /\ live' = [m \in Mails |-> live'[m]]
          /\ \A m \in Mails :
                IF m \in again
                  THEN /\ last[m] + 1 \in live'[m]
                       /\ live'[m] \subseteq live[m] \cup {last[m] + 1}
                  ELSE live'[m] \subseteq live[m]
    /\ UNCHANGED done

DNext ==
    \/ \E m \in Mails : \/ Admit(m) \/ Refuse(m) \/ Accept(m)
                        \/ AcceptUnseen(m) \/ Abandon(m)
    \/ Fault

DSpec == DInit /\ [][DNext]_dVars
=============================================================================
