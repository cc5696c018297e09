----------------------------- MODULE TurnLedger -----------------------------
(***************************************************************************)
(* What conversation ingestion promises about a turn, whoever does the     *)
(* work and however often it is interrupted: a submitted turn is dropped   *)
(* or taken up once; what is extracted from it is published in one go; it  *)
(* ends once, and as "done" only when everything published for it has been *)
(* decided.  Workers, claims, attempts, tools and crashes are not visible  *)
(* here.                                                                   *)
(***************************************************************************)
CONSTANTS Jobs, Records

VARIABLES
    turn,   \* where each turn is
    item,   \* whether each extracted candidate is open, closed or given up
    origin  \* the turns each candidate was extracted from

vars == <<turn, item, origin>>

TurnState == {"none", "queued", "taken", "reviewing", "done", "failed", "dropped"}
ItemState == {"none", "open", "closed", "failed"}

TypeOK ==
    /\ turn \in [Jobs -> TurnState]
    /\ item \in [Records -> ItemState]
    /\ origin \in [Records -> SUBSET Jobs]

ItemsOf(j) == {r \in Records : j \in origin[r]}

Init ==
    /\ turn = [j \in Jobs |-> "none"]
    /\ item = [r \in Records |-> "none"]
    /\ origin = [r \in Records |-> {}]

\* The turns S go from state `from` to state `to`.
Move(S, from, to) ==
    /\ \A j \in S : turn[j] = from
    /\ turn' = [j \in Jobs |-> IF j \in S THEN to ELSE turn[j]]
    /\ UNCHANGED <<item, origin>>

Submit(j) == Move({j}, "none", "queued")
DropTurns(S) == Move(S, "queued", "dropped")
TakeUp(S) == Move(S, "queued", "taken")
Abandon(j) == Move({j}, "taken", "failed") \/ Move({j}, "reviewing", "failed")

\* Candidates come from turns that have none yet, or from no turn at all.
Publish(B, S) ==
    /\ \A r \in B : item[r] = "none"
    /\ \A j \in S : turn[j] = "taken" /\ ItemsOf(j) = {}
    /\ item' = [r \in Records |-> IF r \in B THEN "open" ELSE item[r]]
    /\ origin' = [r \in Records |-> IF r \in B THEN S ELSE origin[r]]
    /\ UNCHANGED turn

AwaitReview(j) == ItemsOf(j) # {} /\ Move({j}, "taken", "reviewing")

\* A turn ends well when nothing was published for it, or all of it is closed.
Settle(j) ==
    \/ ItemsOf(j) = {} /\ Move({j}, "taken", "done")
    \/ (\A r \in ItemsOf(j) : item[r] = "closed") /\ Move({j}, "reviewing", "done")

\* Candidates are decided, or given up on.  What is closed stays closed.
Close(R) ==
    /\ \A r \in R : item[r] # "none"
    /\ item' = [r \in Records |-> IF r \in R THEN "closed" ELSE item[r]]
    /\ UNCHANGED <<turn, origin>>

GiveUp(R) ==
    /\ \A r \in R : item[r] = "open"
    /\ item' = [r \in Records |-> IF r \in R THEN "failed" ELSE item[r]]
    /\ UNCHANGED <<turn, origin>>

Next ==
    \/ \E j \in Jobs : Submit(j) \/ Abandon(j) \/ AwaitReview(j) \/ Settle(j)
    \/ \E S \in SUBSET Jobs : DropTurns(S) \/ TakeUp(S)
    \/ \E B \in SUBSET Records : \E S \in SUBSET Jobs : Publish(B, S)
    \/ \E R \in SUBSET Records : Close(R) \/ GiveUp(R)

Spec == Init /\ [][Next]_vars
=============================================================================
