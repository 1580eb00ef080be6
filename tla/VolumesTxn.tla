----------------------------- MODULE VolumesTxn -----------------------------
(***************************************************************************)
(* What GetVolumes promises its caller about the resources it takes on a   *)
(* build's behalf, with the option parsing, the mount lists and the        *)
(* overlay directories hidden.  A build resolving its mounts takes cache   *)
(* locks and image mounts one at a time; it then either fails, holding     *)
(* nothing, or is handed everything it took, which it gives back when its  *)
(* step ends.  No build takes a lock another build holds, and nothing a    *)
(* build holds is released while it is still resolving.                    *)
(***************************************************************************)
EXTENDS Naturals

CONSTANTS
    Builds,    \* concurrent builds, one GetVolumes call each
    Keys,      \* cache lock files
    Images,    \* images a bind mount can be taken from
    NoOwner    \* holder of a free lock

VARIABLES
    status,    \* [Builds -> {"resolving", "running", "done", "failed"}]
    owner,     \* [Keys -> Builds \cup {NoOwner}]: holder of each lock file
    mounts     \* [Builds -> [Images -> Nat]]: image mounts taken by each build

txnVars == <<status, owner, mounts>>

Status == {"resolving", "running", "done", "failed"}

TxnTypeOK ==
    /\ status \in [Builds -> Status]
    /\ owner \in [Keys -> Builds \cup {NoOwner}]
    /\ mounts \in [Builds -> [Images -> Nat]]

TxnInit ==
    /\ status = [b \in Builds |-> "resolving"]
    /\ owner = [k \in Keys |-> NoOwner]
    /\ mounts = [b \in Builds |-> [i \in Images |-> 0]]

(* Everything build b holds is given back.                                 *)
Release(b) ==
    /\ owner' = [k \in Keys |-> IF owner[k] = b THEN NoOwner ELSE owner[k]]
    /\ mounts' = [mounts EXCEPT ![b] = [i \in Images |-> 0]]

TakeLock(b, k) ==
    /\ status[b] = "resolving"
    /\ owner[k] = NoOwner
    /\ owner' = [owner EXCEPT ![k] = b]
    /\ UNCHANGED <<status, mounts>>

TakeImage(b, i) ==
    /\ status[b] = "resolving"
    /\ mounts' = [mounts EXCEPT ![b][i] = @ + 1]
    /\ UNCHANGED <<status, owner>>

Fail(b) ==
    /\ status[b] = "resolving"
    /\ status' = [status EXCEPT ![b] = "failed"]
    /\ Release(b)

Return(b) ==
    /\ status[b] = "resolving"
    /\ status' = [status EXCEPT ![b] = "running"]
    /\ UNCHANGED <<owner, mounts>>

Finish(b) ==
    /\ status[b] = "running"
    /\ status' = [status EXCEPT ![b] = "done"]
    /\ Release(b)

TxnNext ==
    \E b \in Builds :
        \/ \E k \in Keys : TakeLock(b, k)
        \/ \E i \in Images : TakeImage(b, i)
        \/ Fail(b)
        \/ Return(b)
        \/ Finish(b)

(* Every resolution ends, in failure or with the mounts handed over, and   *)
(* every step that was handed its mounts ends and gives them back.         *)
TxnFairness ==
    \A b \in Builds : WF_txnVars(Fail(b) \/ Return(b)) /\ WF_txnVars(Finish(b))

TxnSpec == TxnInit /\ [][TxnNext]_txnVars /\ TxnFairness
====
