--------------------------- MODULE AlertLifecycle ---------------------------
(***************************************************************************)
(* What the service promises about alerts, whoever writes the table: an    *)
(* alert is raised once, under a fresh id; it may be resolved only by its  *)
(* own source and only while open; an operator may acknowledge it only     *)
(* while open; a closed alert never changes again; and an open alert is    *)
(* never deleted.  (FEATURES.md section 4: open, acknowledged, resolved.)  *)
(*                                                                         *)
(* An alert carries its source (src) and the number of the batch that      *)
(* raised it (seq).                                                        *)
(***************************************************************************)
EXTENDS Naturals

CONSTANT Sources

VARIABLES status,   \* alert -> "open" | "acknowledged" | "resolved"
          next      \* number of the next batch that raises alerts

avars == <<status, next>>

Init == status = [a \in {} |-> "open"] /\ next = 1

Raised == DOMAIN status' \ DOMAIN status

\* A batch from source s raises some alerts and resolves some of its open ones.
Detect(s) ==
    /\ DOMAIN status \subseteq DOMAIN status'
    /\ \A a \in DOMAIN status :
          \/ status'[a] = status[a]
          \/ a.src = s /\ status[a] = "open" /\ status'[a] = "resolved"
    /\ \A a \in Raised :
          a.src = s /\ a.seq = next /\ status'[a] \in {"open", "resolved"}
    /\ next' \in {next, next + 1}
    /\ Raised # {} => next' = next + 1

Acknowledge(a) ==
    /\ status[a] = "open"
    /\ status' = [status EXCEPT ![a] = "acknowledged"]
    /\ UNCHANGED next

Delete(S) ==
    /\ \A a \in S : status[a] # "open"
    /\ status' = [a \in DOMAIN status \ S |-> status[a]]
    /\ UNCHANGED next

Next ==
    \/ \E s \in Sources : Detect(s)
    \/ \E a \in DOMAIN status : Acknowledge(a)
    \/ \E S \in SUBSET DOMAIN status : Delete(S)

Spec == Init /\ [][Next]_avars
=============================================================================
