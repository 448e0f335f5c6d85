------------------------------ MODULE DelayLine ------------------------------
(***************************************************************************)
(* What the simulator's dispatcher promises to its callers, without        *)
(* threads, locks or queues: a MAD that was accepted travels for its       *)
(* random delay and is then handed to the routing code, once, and never    *)
(* before a MAD that was accepted earlier and was due no later.            *)
(***************************************************************************)
EXTENDS Integers, Sequences

CONSTANTS Mads,       \* the MADs that are sent, each one a distinct packet
          MaxTime     \* bound of the clock

VARIABLES clock,      \* the time of day
          accepted,   \* the items accepted so far, in order of acceptance
          delivered   \* the MADs that were handed to the routing code

lineVars == <<clock, accepted, delivered>>

LineInit == clock = 0 /\ accepted = <<>> /\ delivered = {}

\* A MAD enters the line, with the time at which it is due.
Accept(m, wake) ==
  /\ \A i \in DOMAIN accepted : accepted[i].mad # m
  /\ accepted' = Append(accepted, [mad |-> m, wake |-> wake])
  /\ UNCHANGED <<clock, delivered>>

\* Item i leaves the line.
Deliver(i) ==
  /\ accepted[i].mad \notin delivered
  /\ accepted[i].wake <= clock
  /\ \A j \in 1 .. i - 1 :
        accepted[j].wake <= accepted[i].wake => accepted[j].mad \in delivered
  /\ delivered' = delivered \cup {accepted[i].mad}
  /\ UNCHANGED <<clock, accepted>>

PassTime == clock' = clock + 1 /\ UNCHANGED <<accepted, delivered>>

LineNext ==
  \/ \E m \in Mads, wake \in 0 .. MaxTime : Accept(m, wake)
  \/ \E i \in DOMAIN accepted : Deliver(i)
  \/ PassTime

LineSafety == LineInit /\ [][LineNext]_lineVars
==============================================================================
