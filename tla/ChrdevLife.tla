----------------------------- MODULE ChrdevLife -----------------------------
(***************************************************************************)
(* The life of the character device examples 02 to 05 (Kernel_Buoi 13):    *)
(* what chdev_init registers with the kernel, how it unwinds when a step   *)
(* fails, what chdev_exit gives back, and the programs that open the       *)
(* device meanwhile.  All examples build the module "exam", so one at a    *)
(* time is loaded; what a load leaves behind meets the next one.  The      *)
(* kernel's part (module references, names in use, ERR_PTR) is external.   *)
(***************************************************************************)
EXTENDS Integers, Sequences, SequencesExt

CONSTANTS Examples,   \* the examples that may be loaded
          MaxLoad,    \* bound: times insmod is run
          User        \* programs that may open the device

ASSUME ChrdevAssumption == Examples \subseteq 2 .. 5 /\ MaxLoad \in Nat \ {0}

Resource == {"region", "class", "device", "cdev", "buffer"}
Load     == 1 .. MaxLoad

(* Each example: the steps of chdev_init; for a step that can fail, what   *)
(* the label it jumps to releases; what chdev_exit releases.               *)
Example02 == [init   |-> <<"region", "renumber">>,
              unwind |-> [region |-> <<>>],
              exit   |-> <<"region">>]
Example03 == [init   |-> <<"region", "class", "device">>,
              unwind |-> [region |-> <<>>, class |-> <<"region">>,
                          device |-> <<"class", "region">>],
              exit   |-> <<"device", "class", "region">>]

(* Slips: the last label is forgotten; chdev_exit runs in the order of     *)
(* chdev_init.                                                             *)
Example04Stuck == [init   |-> <<"region", "class", "device", "cdev">>,
                   unwind |-> [region |-> <<>>, class |-> <<"region">>,
                               device |-> <<"class", "region">>,
                               cdev   |-> <<"device", "class">>],
                   exit   |-> <<"cdev", "device", "class", "region">>]
Example04Forward == [init   |-> <<"region", "class", "device", "cdev">>,
                     unwind |-> [region |-> <<>>, class |-> <<"region">>,
                                 device |-> <<"class", "region">>,
                                 cdev   |-> <<"device", "class", "region">>],
                     exit   |-> <<"region", "class", "device", "cdev">>]
Example04 == [init   |-> <<"region", "class", "device", "cdev">>,
              unwind |-> [region |-> <<>>, class |-> <<"region">>,
                          device |-> <<"class", "region">>,
                          cdev   |-> <<"device", "class", "region">>],
              exit   |-> <<"cdev", "device", "class", "region">>]
Example05 == [init   |-> <<"region", "class", "device", "cdev", "buffer">>,
              unwind |-> [region |-> <<>>, class |-> <<"region">>,
                          device |-> <<"class", "region">>,
                          cdev   |-> <<"device", "class", "region">>,
                          buffer |-> <<"device", "class", "region">>],
              exit   |-> <<"cdev", "device", "class", "region">>]
Code(e) == <<Example02, Example03, Example04, Example05>>[e - 1]

VARIABLES
  mod,      \* state of the module "exam"
  ex,       \* load -> the example it loaded, or 0
  nload,    \* the current load, the number of insmods so far
  todo,     \* steps of chdev_init, of its unwinding or of chdev_exit left
  held,     \* <<load, resource>> registered with the kernel
  dev_num,  \* m_dev.dev_num: the number allocated, or another one
  file      \* user -> the load whose device it has open, and whether it is
            \* in one of its file operations

lifeVars == <<mod, ex, nload, todo, held, dev_num, file>>

Closed == [load |-> 0, busy |-> FALSE]

LifeInit ==
  /\ mod = "absent" /\ ex = [l \in Load |-> 0] /\ nload = 0
  /\ todo = <<>> /\ held = {} /\ dev_num = "none"
  /\ file = [u \in User |-> Closed]

Mine(r)  == <<nload, r>>
Held(r)  == Mine(r) \in held
Taken(r) == \E l \in Load : <<l, r>> \in held     \* the name r is in use

-----------------------------------------------------------------------------
Insmod(e) ==
  /\ mod = "absent" /\ nload < MaxLoad
  /\ mod' = "coming" /\ nload' = nload + 1
  /\ ex' = [ex EXCEPT ![nload + 1] = e]
  /\ todo' = Code(e).init /\ dev_num' = "none"
  /\ UNCHANGED <<held, file>>

(* One step of chdev_init succeeds.  A class needs a name that is not in   *)
(* use, a device a class.                                                  *)
Acquire ==
  /\ mod = "coming" /\ todo # <<>>
  /\ LET r == Head(todo)
     IN  \/ /\ r = "renumber" /\ dev_num' = "other" /\ UNCHANGED held
         \/ /\ r \in Resource
            /\ r = "class" => ~Taken("class")
            /\ r = "device" => Held("class")
            /\ held' = held \cup {Mine(r)}
            /\ dev_num' = IF r = "region" THEN "own" ELSE dev_num
  /\ todo' = Tail(todo)
  /\ UNCHANGED <<mod, ex, nload, file>>

(* class_create and device_create report failure by an ERR_PTR, which the  *)
(* test for NULL takes for success.                                        *)
FailUnseen ==
  /\ mod = "coming" /\ todo # <<>> /\ Head(todo) \in {"class", "device"}
  /\ todo' = Tail(todo)
  /\ UNCHANGED <<mod, ex, nload, held, dev_num, file>>

Fail ==
  /\ mod = "coming" /\ todo # <<>> /\ Head(todo) \in {"region", "cdev", "buffer"}
  /\ mod' = "failing" /\ todo' = Code(ex[nload]).unwind[Head(todo)]
  /\ UNCHANGED <<ex, nload, held, dev_num, file>>

InitReturns ==
  /\ mod = "coming" /\ todo = <<>>
  /\ mod' = "live"
  /\ UNCHANGED <<ex, nload, todo, held, dev_num, file>>

(* Slip: no owner in fops, so that open files do not count.                *)
RmmodUncounted ==
  /\ mod = "live"
  /\ mod' = "going" /\ todo' = Code(ex[nload]).exit
  /\ UNCHANGED <<ex, nload, held, dev_num, file>>

(* rmmod is refused while a file is open: fops names its owner.            *)
Rmmod ==
  /\ mod = "live" /\ \A u \in User : file[u].load # nload
  /\ mod' = "going" /\ todo' = Code(ex[nload]).exit
  /\ UNCHANGED <<ex, nload, held, dev_num, file>>

(* One call of the unwinding or of chdev_exit.  device_destroy finds no    *)
(* device where none was created; another number than the one allocated    *)
(* frees none.                                                             *)
Release ==
  /\ mod \in {"failing", "going"} /\ todo # <<>>
  /\ Head(todo) = "device" => Held("class")
  /\ LET r == Head(todo)
     IN  held' = IF r = "region" /\ dev_num # "own" THEN held ELSE held \ {Mine(r)}
  /\ todo' = Tail(todo)
  /\ UNCHANGED <<mod, ex, nload, dev_num, file>>

(* device_destroy with the ERR_PTR of a class that could not be created    *)
(* faults: insmod or rmmod dies in it, and the module stays for ever with  *)
(* what is left.                                                           *)
ReleaseFaults ==
  /\ mod \in {"failing", "going"} /\ todo # <<>>
  /\ Head(todo) = "device" /\ ~Held("class")
  /\ mod' = "oops"
  /\ UNCHANGED <<ex, nload, todo, held, dev_num, file>>

Gone ==
  /\ mod \in {"failing", "going"} /\ todo = <<>>
  /\ mod' = "absent"
  /\ UNCHANGED <<ex, nload, todo, held, dev_num, file>>

-----------------------------------------------------------------------------
(* Programs: the node appears with the device, works once cdev_add is done,*)
(* and open() takes a reference on a module that is not being unloaded, as *)
(* one is not whose chdev_init is still at work, or unwinds.               *)
OpenFile(u) ==
  /\ file[u] = Closed
  /\ Held("device") /\ Held("cdev") /\ mod \in {"coming", "failing", "live"}
  /\ file' = [file EXCEPT ![u] = [load |-> nload, busy |-> FALSE]]
  /\ UNCHANGED <<mod, ex, nload, todo, held, dev_num>>

FileCall(u) ==         \* m_read or m_write, begun or returned from
  /\ file[u].load # 0
  /\ file' = [file EXCEPT ![u].busy = ~@]
  /\ UNCHANGED <<mod, ex, nload, todo, held, dev_num>>

CloseFile(u) ==
  /\ file[u].load # 0 /\ ~file[u].busy
  /\ file' = [file EXCEPT ![u] = Closed]
  /\ UNCHANGED <<mod, ex, nload, todo, held, dev_num>>

LoadStep  == Acquire \/ FailUnseen \/ Fail \/ InitReturns \/ Release \/ ReleaseFaults \/ Gone
LifeEnded == /\ (nload = MaxLoad /\ mod = "absent") \/ mod = "oops"
             /\ UNCHANGED lifeVars
LifeNext  == \/ \E e \in Examples : Insmod(e)
             \/ LoadStep \/ Rmmod
             \/ \E u \in User : OpenFile(u) \/ FileCall(u) \/ CloseFile(u)
             \/ LifeEnded

LifeSpec == LifeInit /\ [][LifeNext]_lifeVars
-----------------------------------------------------------------------------
(* Type correctness; a program in a call has a file open.                  *)
LifeTypeOK ==
  /\ mod \in {"absent", "coming", "live", "failing", "going", "oops"}
  /\ ex \in [Load -> 0 .. 5] /\ nload \in 0 .. MaxLoad
  /\ todo \in Seq(Resource \cup {"renumber"})
  /\ held \subseteq Load \X Resource
  /\ dev_num \in {"none", "own", "other"}
  /\ file \in [User -> [load : 0 .. MaxLoad, busy : BOOLEAN]]
  /\ \A u \in User : file[u].busy => file[u].load # 0

Loaded(l) == l = nload /\ mod # "absent"

(* However far chdev_init of 03 and 04 got, and whatever an earlier load   *)
(* left behind, nothing of it is registered once the module is gone.  (One *)
(* that faults while it releases is never gone: see EveryModuleGoes.)      *)
GivesBackAll ==
  \A l \in Load : ex[l] \in {3, 4} /\ ~Loaded(l) =>
    \A r \in Resource : <<l, r>> \notin held

(* A device never outlives its class nor a cdev its device number, while   *)
(* 03 or 04 loads, fails or goes.                                          *)
ReleasedInOrder ==
  \A l \in Load : ex[l] \in {3, 4} =>
    /\ <<l, "device">> \in held => <<l, "class">> \in held
    /\ <<l, "cdev">> \in held => <<l, "region">> \in held

(* A file of 04 that is open is served by a module that is still there.    *)
FilesServed ==
  \A u \in User : file[u].load # 0 /\ ex[file[u].load] = 4 =>
    file[u].load = nload /\ mod \in {"coming", "live"}

-----------------------------------------------------------------------------
(* What the examples' comments say, and they do not keep.                  *)

(* 02: after the "Destructor" the device number that was allocated is free.*)
NumberGivenBack ==
  \A l \in Load : ~Loaded(l) /\ ex[l] = 2 => <<l, "region">> \notin held

(* 03, 04, 05: the "Destructor", or a failed init, comes to its end also   *)
(* when there is no class.                                                 *)
EveryModuleGoes == mod # "oops"

(* 05: the "Destructor", or a failed init, leaves nothing behind.          *)
BufferedGivesBackAll ==
  \A l \in Load : ~Loaded(l) /\ ex[l] = 5 => \A r \in Resource : <<l, r>> \notin held

(* 03: a module that could not create its class or device does not load.   *)
LoadedIsComplete ==
  mod = "live" => \A r \in Resource : r \in Range(Code(ex[nload]).init) => Held(r)

(* 05: m_read and m_write copy from and to the allocated area.             *)
BufferReady ==
  \A u \in User : file[u].busy /\ ex[file[u].load] = 5 =>
    <<file[u].load, "buffer">> \in held
=============================================================================
