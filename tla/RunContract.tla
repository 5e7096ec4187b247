----------------------------- MODULE RunContract -----------------------------
(***************************************************************************)
(* What the server and one agent promise together about command runs,      *)
(* without saying how.  The server decides on what it reads in the ledger   *)
(* and records the decision later, with others in between; the agent says   *)
(* what it holds when it registers, and is heard later or not at all.       *)
(***************************************************************************)

CONSTANT Runs      \* run ids

VARIABLES
  ledger,          \* run -> state recorded in the Runs table
  ended,           \* runs whose end has been recorded, whatever was recorded after it
  decided,         \* what was decided and is not recorded yet: <<run, state>>
  held,            \* runs the agent tracks: executing, or the result is undelivered
  claims           \* what the agent said it held, where that has not been read yet

vars == <<ledger, ended, decided, held, claims>>

Reported == {"Succeeded", "Failed", "TimedOut", "Cancelled"}
Active   == {"Pending", "Running"}
Finished == Reported \cup {"Orphaned"}

Init ==
  /\ ledger = [r \in Runs |-> "None"]
  /\ ended = {} /\ decided = {} /\ held = {} /\ claims = {}

\* Decisions and claims may be lost, with a connection or with the server.
Kept == claims' \subseteq claims /\ decided' \subseteq decided

\* A request is recorded: waiting for its agent, or failed at once (offline).
Submit(r) ==
  /\ ledger[r] = "None"
  /\ \/ ledger' = [ledger EXCEPT ![r] = "Pending"] /\ UNCHANGED ended
     \/ ledger' = [ledger EXCEPT ![r] = "Failed"] /\ ended' = ended \cup {r}
  /\ UNCHANGED <<decided, held, claims>>

\* The agent accepts a run of the ledger, once.
Accept(r) ==
  /\ ledger[r] # "None"
  /\ r \notin held
  /\ held' = held \cup {r}
  /\ UNCHANGED <<ledger, ended, decided, claims>>

\* A report or a cancel is taken for a run that has no end: never for one that has.
Take(r, to) ==
  /\ IF to = "Running" THEN ledger[r] = "Pending" ELSE ledger[r] \in Active
  /\ UNCHANGED <<ledger, ended, held>>
  /\ decided' \subseteq decided \cup {<<r, to>>}
  /\ claims' \subseteq claims

\* On a claim, all runs without an end are given up that the agent did not claim.
GiveUp ==
  /\ UNCHANGED <<ledger, ended, held>>
  /\ \E known \in claims :
       decided' \subseteq
         decided \cup ({r \in Runs : ledger[r] \in Active /\ r \notin known} \X {"Orphaned"})
  /\ claims' \subseteq claims

\* What was decided is recorded.
Record(to) ==
  /\ UNCHANGED held
  /\ \E S \in SUBSET {r \in Runs : <<r, to>> \in decided} :
       /\ ledger' = [r \in Runs |-> IF r \in S THEN to ELSE ledger[r]]
       /\ ended' = IF to \in Finished THEN ended \cup S ELSE ended
  /\ Kept

\* The agent lets a run go only when an end of it has been recorded.
Release(r) ==
  /\ r \in held
  /\ r \in ended
  /\ held' = held \ {r}
  /\ UNCHANGED <<ledger, ended, decided, claims>>

\* The agent registers and says what it holds.
Claim ==
  /\ UNCHANGED <<ledger, ended, held>>
  /\ claims' \subseteq claims \cup {held}
  /\ UNCHANGED decided

\* The agent process dies and forgets what it held.
Crash ==
  /\ held' = {}
  /\ UNCHANGED <<ledger, ended>>
  /\ Kept

Lose == UNCHANGED <<ledger, ended, held>> /\ Kept

Next ==
  \/ Lose \/ Crash \/ Claim \/ GiveUp
  \/ \E r \in Runs : Submit(r) \/ Accept(r) \/ Release(r)
  \/ \E to \in {"Running"} \cup Finished : Record(to)
  \/ \E r \in Runs, to \in {"Running"} \cup Reported : Take(r, to)

Spec == Init /\ [][Next]_vars
=============================================================================
