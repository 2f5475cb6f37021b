------------------------------ MODULE StateStore ------------------------------
(***************************************************************************)
(* What a validator expects of its database: it holds nothing, or the      *)
(* complete state that the execution of one block left, and only the state *)
(* after a later block ever takes its place, whatever crashes and failed   *)
(* writes happen.                                                          *)
(***************************************************************************)
EXTENDS Naturals

CONSTANT NoState

VARIABLES
    executed,  \* the states that the executions of blocks have left
    store      \* NoState, or the state that a restart reads

Height(s) == IF s = NoState THEN 0 ELSE s.height

Init == executed = {} /\ store = NoState

\* A block is executed.
Execute ==
    /\ executed \subseteq executed'
    /\ UNCHANGED store

\* The state after a later block replaces what is stored, as a whole.
Persist ==
    /\ \E s \in executed : s.height > Height(store) /\ store' = s
    /\ UNCHANGED executed

Next == Execute \/ Persist

Spec == Init /\ [][Next]_<<executed, store>>
===============================================================================
