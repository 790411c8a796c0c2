------------------------ MODULE MCWorkerSupervisor ------------------------
(* Instances of WorkerSupervisor for TLC.                                  *)
EXTENDS WorkerSupervisor

Launch(admitted, vram, restart) == [admitted |-> admitted, vram |-> vram, restart |-> restart]

(* Two workers that both need more than half of the pool cannot run at the *)
(* same time.                                                              *)
TwoLaunches == {Launch(TRUE, 1, TRUE), Launch(TRUE, 2, FALSE)}
=============================================================================
