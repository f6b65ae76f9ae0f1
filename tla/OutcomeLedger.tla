--------------------------- MODULE OutcomeLedger ---------------------------
(***************************************************************************)
(* What outcome submission promises an agent: the first payload submitted  *)
(* under an outcome_id is the only one ever accepted under it; once the    *)
(* outcome is settled it stays settled; and whoever is told of a success   *)
(* submitted the accepted payload of a settled outcome.  Concurrent and    *)
(* repeated submissions, the stores and crashes are invisible.             *)
(* AgentOutcome implements this specification.                             *)
(***************************************************************************)
CONSTANTS Outcomes, Payloads, NoPayload

VARIABLES accepted,   \* accepted[o]: the payload the outcome_id stands for
          settled,    \* the outcomes whose submission is complete
          granted     \* the <<o, p>> some agent was told has succeeded

ledgerVars == <<accepted, settled, granted>>

LedgerInit ==
    /\ accepted = [o \in Outcomes |-> NoPayload]
    /\ settled = {}
    /\ granted = {}

Accept(o, p) ==
    /\ accepted[o] = NoPayload
    /\ accepted' = [accepted EXCEPT ![o] = p]
    /\ UNCHANGED <<settled, granted>>

Settle(o) ==
    /\ accepted[o] # NoPayload
    /\ settled' = settled \cup {o}
    /\ UNCHANGED <<accepted, granted>>

Grant(o) ==
    /\ o \in settled
    /\ granted' = granted \cup {<<o, accepted[o]>>}
    /\ UNCHANGED <<accepted, settled>>

LedgerNext ==
    \E o \in Outcomes :
        \/ \E p \in Payloads : Accept(o, p)
        \/ Settle(o)
        \/ Grant(o)

LedgerSpec == LedgerInit /\ [][LedgerNext]_ledgerVars
=============================================================================
