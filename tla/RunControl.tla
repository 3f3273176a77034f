----------------------------- MODULE RunControl ------------------------------
(***************************************************************************)
(* What the server promises about one data-taking run, without threads,    *)
(* joins, messages or clients.  A run is begun with a number of events     *)
(* (Endless for none), commits itself to one event after the other and     *)
(* delivers each; it ends when all are delivered or when a stop request is *)
(* pending between two events.  A request is consumed by at most one run,  *)
(* and no event is committed while one is pending.                         *)
(***************************************************************************)
EXTENDS Integers

\* The number of events of a run that only a stop ends.
Endless == -1

VARIABLES
  phase,    \* "idle", "running" or "ending"
  left,     \* events still to be delivered, or Endless
  inflight, \* an event has been committed and not delivered
  req       \* a stop request is pending

rcVars == <<phase, left, inflight, req>>

RCTypeOK ==
  /\ phase \in {"idle", "running", "ending"}
  /\ left \in Nat \cup {Endless}
  /\ inflight \in BOOLEAN
  /\ req \in BOOLEAN

Init ==
  /\ phase = "idle"
  /\ left = 0
  /\ inflight = FALSE
  /\ req = FALSE

Begin ==
  /\ phase = "idle"
  /\ phase' = "running"
  /\ left' \in Nat \cup {Endless}
  /\ UNCHANGED <<inflight, req>>

\* A stop may be requested at any time, also without a run.
Request ==
  /\ req' = TRUE
  /\ UNCHANGED <<phase, left, inflight>>

Commit ==
  /\ phase = "running"
  /\ ~inflight /\ ~req /\ left # 0
  /\ inflight' = TRUE
  /\ UNCHANGED <<phase, left, req>>

Deliver ==
  /\ inflight
  /\ inflight' = FALSE
  /\ left' = IF left = Endless THEN Endless ELSE left - 1
  /\ UNCHANGED <<phase, req>>

\* All events are delivered: the pending request, if any, stays pending.
Expire ==
  /\ phase = "running"
  /\ ~inflight /\ left = 0
  /\ phase' = "ending"
  /\ UNCHANGED <<left, inflight, req>>

\* The pending request ends the run and is consumed.
Cut ==
  /\ phase = "running"
  /\ ~inflight /\ req /\ left # 0
  /\ phase' = "ending"
  /\ req' = FALSE
  /\ left' = 0
  /\ UNCHANGED inflight

Close ==
  /\ phase = "ending"
  /\ phase' = "idle"
  /\ left' = 0
  /\ UNCHANGED <<inflight, req>>

\* The process dies: whatever was going on is forgotten.
Abort ==
  /\ phase' = "idle"
  /\ left' = 0
  /\ inflight' = FALSE
  /\ req' = FALSE

Next ==
  Begin \/ Request \/ Commit \/ Deliver \/ Expire \/ Cut \/ Close \/ Abort

Safety == Init /\ [][Next]_rcVars

\* A run under way keeps moving.
Spec == Safety /\ WF_rcVars(Commit \/ Deliver \/ Expire \/ Cut \/ Close)
=============================================================================
