---------------------------- MODULE StageLedger ----------------------------
(***************************************************************************)
(* What the stage directories of one patch promise, with the processes,    *)
(* the crashes and the files taken away: a write-once ledger.  Stages are  *)
(* entered in order, each once, with a result computed from the results    *)
(* already entered.  It is one until somebody gives --force.               *)
(***************************************************************************)
EXTENDS Integers

CONSTANTS NStages, Reads(_), Configs, Value, Build(_, _, _), Absent, Torn

VARIABLES ledger, forced

Stages == 1..NStages
Contents == [Stages -> Value \cup {Absent, Torn}]

Init == ledger = [s \in Stages |-> Absent] /\ forced = FALSE

Enter(s) ==
    /\ UNCHANGED forced /\ ledger[s] = Absent
    /\ \A t \in 1..(s - 1) : ledger[t] # Absent
    /\ \E c \in Configs :
          ledger' = [ledger EXCEPT ![s] =
                        Build(s, c, [r \in Reads(s) |-> ledger[r]])]

Force == forced' = TRUE /\ ledger' \in Contents

Next == Force \/ \E s \in Stages : Enter(s)

Spec == Init /\ [][Next]_<<ledger, forced>>
=============================================================================
