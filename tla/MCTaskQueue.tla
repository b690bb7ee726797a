---------------------------- MODULE MCTaskQueue -----------------------------
(***************************************************************************)
(* The task queue as TLC checks it: two workers, so that one may find the  *)
(* queue that the other leaves or removes, and three dispatchers on a      *)
(* queue of two places, so that it fills up.                               *)
(***************************************************************************)
EXTENDS TaskQueueProps, TLC

(* Runs of one program are alike; only safety is checked under it.         *)
Alike == Permutations(Worker) \cup Permutations(Dispatcher)

(* For liveness: the behaviours in which First is never stopped, and which *)
(* either a third dispatcher or a second worker takes no part in.  As the  *)
(* properties are about workers that are not stopped, and workers are      *)
(* alike, such a worker may be taken to be First.                          *)
First == CHOOSE w \in Worker : TRUE
Third == CHOOSE d \in Dispatcher : TRUE
Few == /\ ~Stopped(First)
       /\ dpc[Third] = "off" \/ \A w \in Worker \ {First} : wpc[w] = "off"

LiveSpec == Init /\ [][Next /\ Few']_vars /\ Fairness
=============================================================================
