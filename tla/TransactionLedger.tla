-------------------------- MODULE TransactionLedger --------------------------
(***************************************************************************)
(* What the ingest path promises about the transactions it captures: a     *)
(* bank message is recorded at most once, a withdrawn record stays         *)
(* withdrawn however often the message is sent again, and a record is      *)
(* announced to the rest of the system at most once, never before it       *)
(* exists.  That it is announced at all is not promised.                   *)
(***************************************************************************)
EXTENDS Naturals

CONSTANT Entry            \* what identifies one bank message

VARIABLES ledger,         \* the record of each entry
          announcements   \* how often each entry has been announced

TypeOK ==
    /\ ledger \in [Entry -> {"absent", "live", "deleted"}]
    /\ announcements \in [Entry -> 0 .. 1]

Init ==
    /\ ledger = [e \in Entry |-> "absent"]
    /\ announcements = [e \in Entry |-> 0]

Record(e) ==
    /\ ledger[e] = "absent"
    /\ ledger' = [ledger EXCEPT ![e] = "live"]
    /\ UNCHANGED announcements

Withdraw(e) ==
    /\ ledger[e] = "live"
    /\ ledger' = [ledger EXCEPT ![e] = "deleted"]
    /\ UNCHANGED announcements

Announce(e) ==
    /\ ledger[e] # "absent"
    /\ announcements[e] = 0
    /\ announcements' = [announcements EXCEPT ![e] = 1]
    /\ UNCHANGED ledger

Next == \E e \in Entry : Record(e) \/ Withdraw(e) \/ Announce(e)

Spec == Init /\ [][Next]_<<ledger, announcements>>
=============================================================================
