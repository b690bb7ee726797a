--------------------------- MODULE SharedProduct ----------------------------
(***************************************************************************)
(* The shared memory programs of 10.IPC_Shared_Memory: producers that      *)
(* create, fill and remove "/my_shared_mem", consumers that read it, and   *)
(* the reference writer with "phong_mmap".  Nothing orders their accesses, *)
(* so the parts of a product are stored and loaded one by one, in any      *)
(* order.  All producers write the same product.                           *)
(***************************************************************************)
EXTENDS Integers, FiniteSets

CONSTANTS Producer, Consumer, RefWriter,  \* the processes
          Part,                           \* what is stored in one step
          MaxObj                          \* bound: memory objects created

ASSUME ShmAssumption ==
  /\ Part # {} /\ MaxObj \in Nat \ {0}
  /\ Producer \cap Consumer = {} /\ RefWriter \cap (Producer \cup Consumer) = {}

Shm   == {"/my_shared_mem", "phong_mmap"}
Obj   == 1 .. MaxObj
User  == Producer \cup Consumer \cup RefWriter
NoObj == 0

VARIABLES name,    \* name -> the object it stands for, or NoObj
          sized,   \* objects that have their size
          stored,  \* object -> the parts stored in it
          made,    \* objects created so far
          upc,     \* process -> where it is
          obj,     \* process -> the object it has open
          did,     \* process -> the parts it has stored or loaded
          saw,     \* consumer -> the parts it found stored
          found    \* history: consumer -> what was in the object it opened

shmVars == <<name, sized, stored, made, upc, obj, did, saw, found>>

ShmInit ==
  /\ name = [s \in Shm |-> NoObj] /\ sized = {} /\ stored = [o \in Obj |-> {}] /\ made = 0
  /\ upc = [u \in User |-> "start"] /\ obj = [u \in User |-> NoObj]
  /\ did = [u \in User |-> {}] /\ saw = [u \in User |-> {}]
  /\ found = [u \in User |-> [sized |-> FALSE, parts |-> {}]]

At(u, from, to) == upc[u] = from /\ upc' = [upc EXCEPT ![u] = to]

(* A call that fails ends the process; the reference writer looks only at  *)
(* the result of shm_open.                                                 *)
CallFails(u) ==
  /\ upc[u] \in IF u \in RefWriter THEN {"start"} ELSE {"start", "size", "map"}
  /\ upc' = [upc EXCEPT ![u] = "failed"]
  /\ UNCHANGED <<name, sized, stored, made, obj, did, saw, found>>

(* shm_open with O_CREAT: the object that has the name, or a new one.      *)
OpenOrCreate(u, s) ==
  /\ At(u, "start", "size")
  /\ IF name[s] # NoObj
       THEN obj' = [obj EXCEPT ![u] = name[s]] /\ UNCHANGED <<name, made>>
       ELSE /\ made < MaxObj /\ made' = made + 1
            /\ name' = [name EXCEPT ![s] = made + 1]
            /\ obj' = [obj EXCEPT ![u] = made + 1]

-----------------------------------------------------------------------------
(* posix_shm_producer.c                                                    *)

(* Slip: with O_TRUNC.                                                     *)
CreateTruncated(p) ==
  /\ OpenOrCreate(p, "/my_shared_mem")
  /\ stored' = [stored EXCEPT ![obj'[p]] = {}]
  /\ sized' = sized \ {obj'[p]}
  /\ UNCHANGED <<did, saw, found>>

Create(p) ==
  /\ OpenOrCreate(p, "/my_shared_mem")
  /\ UNCHANGED <<sized, stored, did, saw, found>>

Truncate(p) ==
  /\ At(p, "size", "map") /\ sized' = sized \cup {obj[p]}
  /\ UNCHANGED <<name, stored, made, obj, did, saw, found>>

Map(u) ==
  /\ At(u, "map", "use")
  /\ UNCHANGED <<name, sized, stored, made, obj, did, saw, found>>

Store(p, x) ==
  /\ upc[p] = "use" /\ x \notin did[p]
  /\ stored' = [stored EXCEPT ![obj[p]] = @ \cup {x}]
  /\ did' = [did EXCEPT ![p] = @ \cup {x}]
  /\ UNCHANGED <<name, sized, made, upc, obj, saw, found>>

(* After Enter; whatever object has the name now loses it.                 *)
Unlink(p) ==
  /\ did[p] = Part /\ At(p, "use", "done")
  /\ name' = [name EXCEPT !["/my_shared_mem"] = NoObj]
  /\ UNCHANGED <<sized, stored, made, obj, did, saw, found>>

-----------------------------------------------------------------------------
(* posix_shm_consumer.c                                                    *)

OpenShared(c) ==
  /\ LET o == name["/my_shared_mem"] IN
       IF o = NoObj
         THEN At(c, "start", "failed") /\ UNCHANGED <<obj, found>>
         ELSE /\ At(c, "start", "map") /\ obj' = [obj EXCEPT ![c] = o]
              /\ found' = [found EXCEPT ![c] = [sized |-> o \in sized, parts |-> stored[o]]]
  /\ UNCHANGED <<name, sized, stored, made, did, saw>>

(* A load from an object without a size raises SIGBUS.                     *)
Load(c, x) ==
  /\ upc[c] = "use" /\ x \notin did[c]
  /\ IF obj[c] \in sized
       THEN /\ did' = [did EXCEPT ![c] = @ \cup {x}]
            /\ saw' = [saw EXCEPT ![c] = @ \cup ({x} \cap stored[obj[c]])]
            /\ UNCHANGED upc
       ELSE upc' = [upc EXCEPT ![c] = "sigbus"] /\ UNCHANGED <<did, saw>>
  /\ UNCHANGED <<name, sized, stored, made, obj, found>>

Shown(c) ==
  /\ did[c] = Part /\ At(c, "use", "done")
  /\ UNCHANGED <<name, sized, stored, made, obj, did, saw, found>>

-----------------------------------------------------------------------------
(* reference/writer.c: the mapping is private, so that the object stays as *)
(* it is, and the name is never removed.                                   *)

RefOpen(w) ==
  /\ OpenOrCreate(w, "phong_mmap")
  /\ UNCHANGED <<sized, stored, did, saw, found>>

RefTruncate(w) ==
  /\ At(w, "size", "use")
  /\ sized' \in {sized, sized \cup {obj[w]}}
  /\ UNCHANGED <<name, stored, made, obj, did, saw, found>>

RefWrite(w) ==
  /\ \/ obj[w] \in sized /\ At(w, "use", "done")
     \/ obj[w] \notin sized /\ At(w, "use", "sigbus")
     \/ At(w, "use", "sigsegv")
  /\ UNCHANGED <<name, sized, stored, made, obj, did, saw, found>>

-----------------------------------------------------------------------------
UserKilled(u) ==
  /\ upc[u] \in {"size", "map", "use"} /\ upc' = [upc EXCEPT ![u] = "killed"]
  /\ UNCHANGED <<name, sized, stored, made, obj, did, saw, found>>

SharedNext ==
  \/ \E u \in Producer \cup Consumer : CallFails(u) \/ Map(u) \/ UserKilled(u)
  \/ \E p \in Producer : Create(p) \/ Truncate(p) \/ Unlink(p) \/ \E x \in Part : Store(p, x)
  \/ \E c \in Consumer : OpenShared(c) \/ Shown(c) \/ \E x \in Part : Load(c, x)

RefNext == \E w \in RefWriter : RefOpen(w) \/ RefTruncate(w) \/ RefWrite(w)
                                \/ CallFails(w) \/ UserKilled(w)

ShmNext == SharedNext \/ RefNext

ShmSpec == ShmInit /\ [][ShmNext]_shmVars

-----------------------------------------------------------------------------
(* Type correctness; a name stands for an object that was made, and parts  *)
(* are only in objects that have a size.                                   *)
ShmTypeOK ==
  /\ name \in [Shm -> Obj \cup {NoObj}] /\ \A s \in Shm : name[s] <= made
  /\ sized \subseteq 1 .. made /\ stored \in [Obj -> SUBSET Part] /\ made \in 0 .. MaxObj
  /\ upc \in [User -> {"start", "size", "map", "use", "done", "failed", "killed",
                       "sigbus", "sigsegv"}]
  /\ obj \in [User -> Obj \cup {NoObj}]
  /\ did \in [User -> SUBSET Part] /\ saw \in [User -> SUBSET Part]
  /\ \A o \in Obj : stored[o] # {} => o \in sized

FinishedIsRead ==
  \A c \in Consumer :
    /\ upc[c] = "done" /\ found[c].parts = Part => saw[c] = Part
    /\ upc[c] = "sigbus" => ~found[c].sized

NameGivenBack ==
  (\A p \in Producer : upc[p] \in {"start", "done"}) => name["/my_shared_mem"] = NoObj

(* A consumer that opened an object with a finished product shows all of   *)
(* it, and one that found it with its size does not die of SIGBUS, however *)
(* many producers come and go meanwhile; and when all producers that ran   *)
(* have ended normally, the name is gone.                                  *)
ProductRight == FinishedIsRead /\ NameGivenBack

(* Not kept.  README:51: "The consumer will display the product written by *)
(* the producer"; it may read before or while the producer writes.         *)
ReadsComplete == \A c \in Consumer : upc[c] = "done" => saw[c] = Part

(* Not kept.  README:62: "The producer removes the shared memory with      *)
(* shm_unlink() when done"; it also removes the one another still uses.    *)
OnlyOwnRemoved ==
  \A p \in Producer : upc[p] = "use" => name["/my_shared_mem"] = obj[p]

(* Not kept.  writer.c:17, "Xoa shared memory segment" (remove it): no     *)
(* call does.                                                              *)
WriterRemoves ==
  (\A w \in RefWriter : upc[w] \in {"start", "done"}) => name["phong_mmap"] = NoObj
=============================================================================
