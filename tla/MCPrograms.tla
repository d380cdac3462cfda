----------------------------- MODULE MCPrograms -----------------------------
(***************************************************************************)
(* One run of TLC for the programs of NetPrograms and ClassPrograms: one   *)
(* of them is launched.                                                    *)
(***************************************************************************)
EXTENDS NetPrograms, ClassPrograms

MCNumbers == <<2, 4, 5, 7>>
MCBook == <<[name |-> 1, number |-> 1], [name |-> 4, number |-> 4], [name |-> 3, number |-> 3],
            [name |-> 2, number |-> 2], [name |-> 3, number |-> 2]>>
MCLetters == {[letter |-> 1, upper |-> FALSE], [letter |-> 1, upper |-> TRUE],
              [letter |-> 2, upper |-> FALSE]}

Init == \/ NetInit /\ ClassLaunched("none")
        \/ ClassInit /\ NetLaunched("none")

Next == \/ NetNext /\ UNCHANGED classVars
        \/ ClassNext /\ UNCHANGED netVars

Spec == Init /\ [][Next]_<<netVars, classVars>> /\ NetFairness

-----------------------------------------------------------------------------
\* The programs' state is of its type.
TypeOK == NetTypeOK /\ ClassTypeOK
=============================================================================
