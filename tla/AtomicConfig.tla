---------------------------- MODULE AtomicConfig ----------------------------
(***************************************************************************)
(* What the configuration services promise a client that has no            *)
(* competitor: every operation is one atomic step on one configuration,    *)
(* a rejected or failed operation changes nothing, and a request whose     *)
(* answer was lost took effect entirely or not at all.  There is no file,  *)
(* no temporary file, no "missing" file and no partial write here.         *)
(***************************************************************************)
EXTENDS ConfigRules

CONSTANTS Requests, InitialConfigs

VARIABLES config, outcome

Init ==
  /\ config \in InitialConfigs
  /\ outcome = [r \in Requests |-> "none"]

Settle(r, from, to) ==
  /\ outcome[r] \in from
  /\ outcome' = [outcome EXCEPT ![r] = to]

\* The operation takes effect, though its client does not know yet.
Apply(r, o) ==
  /\ Settle(r, {"none"}, "applied")
  /\ Verdict(config, o) = "ok"
  /\ ~ReadOnly(o)
  /\ \E k \in Targets(config, o) : config' = Rewrite(config, o, k)

Acknowledge(r) == Settle(r, {"applied"}, "ok") /\ UNCHANGED config

Read(r, o) ==
  /\ ReadOnly(o)
  /\ Settle(r, {"none"}, Verdict(config, o))
  /\ UNCHANGED config

Reject(r, o) ==
  /\ Verdict(config, o) # "ok"
  /\ Settle(r, {"none"}, Verdict(config, o))
  /\ UNCHANGED config

Unreachable(r, o) ==
  /\ NeedsProbe(o)
  /\ Verdict(config, o) = "ok"
  /\ Settle(r, {"none"}, "unreachable")
  /\ UNCHANGED config

Fail(r) == Settle(r, {"none"}, "failed") /\ UNCHANGED config

Lose(r) == Settle(r, {"none", "applied"}, "lost") /\ UNCHANGED config

Next ==
  \E r \in Requests :
    \/ \E o \in Operations :
         Apply(r, o) \/ Read(r, o) \/ Reject(r, o) \/ Unreachable(r, o)
    \/ Acknowledge(r) \/ Fail(r) \/ Lose(r)

Spec == Init /\ [][Next]_<<config, outcome>>
=============================================================================
