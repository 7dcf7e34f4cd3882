-------------------------- MODULE TransferLifecycle --------------------------
(***************************************************************************)
(* What the bridge promises about one transfer, stated without any of the  *)
(* machinery that implements it (spec.md section 3 and section 4.7):       *)
(*                                                                         *)
(*   NONE --Create--> WAITING --Confirm--> CONFIRMING --Finish--> FINISHED *)
(*                       |                                                 *)
(*                       +--Cancel--> CANCELLED                            *)
(*                                                                         *)
(* plus the two money movements that the statuses stand for: the release   *)
(* of funds on the destination chain (at most once, only while WAITING)    *)
(* and the cancel signature that lets the user take the deposit back on    *)
(* the source chain (only for a transfer that was never released).         *)
(***************************************************************************)
EXTENDS Naturals

CONSTANT Deposit   \* the deposits (triggering transactions) of the model

VARIABLES
  status,    \* status of the transfer created for each deposit
  released,  \* number of releases made on the destination chain
  refunded   \* deposits for which a cancel signature was handed out

vars == <<status, released, refunded>>

Status == {"NONE", "WAITING", "CONFIRMING", "CANCELLED", "FINISHED"}

TypeOK ==
  /\ status \in [Deposit -> Status]
  /\ released \in [Deposit -> 0..1]
  /\ refunded \subseteq Deposit

Init ==
  /\ status = [d \in Deposit |-> "NONE"]
  /\ released = [d \in Deposit |-> 0]
  /\ refunded = {}

Create(d) ==
  /\ status[d] = "NONE"
  /\ status' = [status EXCEPT ![d] = "WAITING"]
  /\ UNCHANGED <<released, refunded>>

\* The contest window elapsed without a cancel: funds leave on the
\* destination chain, exactly once.
Release(d) ==
  /\ status[d] = "WAITING"
  /\ released[d] = 0
  /\ released' = [released EXCEPT ![d] = 1]
  /\ UNCHANGED <<status, refunded>>

Confirm(d) ==
  /\ status[d] = "WAITING"
  /\ released[d] = 1
  /\ status' = [status EXCEPT ![d] = "CONFIRMING"]
  /\ UNCHANGED <<released, refunded>>

Finish(d) ==
  /\ status[d] = "CONFIRMING"
  /\ status' = [status EXCEPT ![d] = "FINISHED"]
  /\ UNCHANGED <<released, refunded>>

\* A cancel is only possible while the funds have not been released.
Cancel(d) ==
  /\ status[d] = "WAITING"
  /\ released[d] = 0
  /\ status' = [status EXCEPT ![d] = "CANCELLED"]
  /\ refunded' = refunded \cup {d}
  /\ UNCHANGED released

Next == \E d \in Deposit :
          Create(d) \/ Release(d) \/ Confirm(d) \/ Finish(d) \/ Cancel(d)

Spec == Init /\ [][Next]_vars

=============================================================================
