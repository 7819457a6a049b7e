------------------------ MODULE PiclThreadsRefinement ------------------------
(***************************************************************************)
(* When the operations of PiclThreads do not overlap (one thread), the     *)
(* steps of an operation add up to the action of PiclLog that stands for   *)
(* the whole call: the flush loop, the hook over all cores, the exit.      *)
(*                                                                         *)
(* PiclLog sees the state that the last completed operation left behind,   *)
(* which the history variable `done` records.                              *)
(***************************************************************************)
EXTENDS PiclThreads

VARIABLE done

Visible == [system_eid |-> system_eid, persisted_eid |-> persisted_eid, buffer |-> buffer,
            log |-> log, block_eid |-> block_eid, next_id |-> next_id, filled_at |-> filled_at]

RInit == Init /\ done = Visible

RNext == Next /\ done' = IF \A t \in Thread : th'[t].pc = "idle" THEN Visible' ELSE done

RVars == <<vars, done>>

RSpec == RInit /\ [][RNext]_RVars /\ \A t \in Thread : WF_RVars(Continue(t) /\ RNext)

Calls == INSTANCE PiclLog WITH
           system_eid <- done.system_eid, persisted_eid <- done.persisted_eid,
           buffer <- done.buffer, log <- done.log, block_eid <- done.block_eid,
           next_id <- done.next_id, filled_at <- done.filled_at

(***************************************************************************)
(* Refinement: executed one after the other, the calls of the code behave  *)
(* as the actions of PiclLog.                                              *)
(***************************************************************************)
ImplementsPiclLog == Calls!Spec
=============================================================================
