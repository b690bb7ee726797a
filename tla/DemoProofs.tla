----------------------------- MODULE DemoProofs -----------------------------
(***************************************************************************)
(* Proofs about the shared memory programs, the datagram programs and the  *)
(* stream programs, for any number of processes of each, any number of     *)
(* parts of a product and of memory objects, and any bounds on the network *)
(* and the backlog; and about the string functions, for any strings.       *)
(***************************************************************************)
EXTENDS MCDemos, WellFoundedInduction, TLAPS

-----------------------------------------------------------------------------
(* The shared memory programs                                              *)

(* What a consumer found in its object stays there, and what it has loaded *)
(* of that it has seen.  The name is there only for a producer that has    *)
(* not come to its shm_unlink.                                             *)
Seen(c) ==
  /\ upc[c] = "start" => did[c] = {}
  /\ upc[c] \in {"map", "use", "done", "sigbus"} =>
       /\ obj[c] \in Obj
       /\ found[c].parts \subseteq stored[obj[c]]
       /\ found[c].sized => obj[c] \in sized
       /\ did[c] \cap found[c].parts \subseteq saw[c]
       /\ upc[c] = "done" => did[c] = Part
       /\ upc[c] = "sigbus" => ~found[c].sized

Opened ==
  name["/my_shared_mem"] # NoObj =>
    \E p \in Producer : upc[p] \in {"size", "map", "use", "failed", "killed"}
ShmInv ==
  /\ name \in [Shm -> Obj \cup {NoObj}] /\ stored \in [Obj -> SUBSET Part]
  /\ made \in 0 .. MaxObj
  /\ upc \in [User -> {"start", "size", "map", "use", "done", "failed", "killed",
                       "sigbus", "sigsegv"}]
  /\ obj \in [User -> Obj \cup {NoObj}]
  /\ did \in [User -> SUBSET Part] /\ saw \in [User -> SUBSET Part]
  /\ found \in [User -> [sized : BOOLEAN, parts : SUBSET Part]]
  /\ \A p \in Producer : upc[p] \in {"size", "map", "use"} => obj[p] \in Obj
  /\ \A c \in Consumer : Seen(c)
  /\ Opened

LEMMA ShmStarts == ShmInit => ShmInv
<1> SUFFICES ASSUME ShmInit PROVE ShmInv
  OBVIOUS
<1>1. found \in [User -> [sized : BOOLEAN, parts : SUBSET Part]]
  BY DEF ShmInit
<1>2. /\ upc \in [User -> {"start"}] /\ name \in [Shm -> {NoObj}]
      /\ \A u \in User : did[u] = {}
  BY DEF ShmInit
<1>3. (\A c \in Consumer : Seen(c)) /\ Opened
  BY <1>2 DEF Seen, Opened, User, Shm
<1>4. \A p \in Producer : upc[p] \notin {"size", "map", "use"}
  BY <1>2 DEF User
<1> QED BY <1>1, <1>3, <1>4, ShmAssumption DEF ShmInit, ShmInv

(* A step of another process leaves what a consumer knows true, as long as *)
(* no object loses a part or its size.                                     *)
LEMMA SeenStays ==
  ASSUME ShmInv, NEW c \in Consumer,
         upc'[c] = upc[c], obj'[c] = obj[c], did'[c] = did[c], saw'[c] = saw[c], found'[c] = found[c],
         sized \subseteq sized', \A o \in Obj : stored[o] \subseteq stored'[o]
  PROVE  Seen(c)'
<1>1. Seen(c)
  BY DEF ShmInv
<1> QED BY <1>1 DEF Seen

(* The steps that only move a process, or end it.                          *)
LEMMA MovesKeep ==
  ASSUME ShmInv, NEW u \in User,
         CallFails(u) \/ (Map(u) /\ u \notin RefWriter) \/ UserKilled(u)
  PROVE  ShmInv'
<1> USE ShmAssumption DEF User
<1>1. /\ UNCHANGED <<name, sized, stored, made, obj, did, saw, found>>
      /\ upc[u] \in {"start", "size", "map", "use"}
      /\ \E l \in {"failed", "use", "killed"} :
           upc' = [upc EXCEPT ![u] = l] /\ (l = "use" => upc[u] = "map")
      /\ upc \in [User -> {"start", "size", "map", "use", "done", "failed", "killed",
                           "sigbus", "sigsegv"}]
  BY DEF CallFails, Map, UserKilled, At, ShmInv
<1>2. \A c \in Consumer : Seen(c)'
  BY <1>1 DEF ShmInv, Seen
<1>3. Opened'
  BY <1>1 DEF ShmInv, Opened
<1>4. \A p \in Producer : upc'[p] \in {"size", "map", "use"} => obj'[p] \in Obj
  BY <1>1 DEF ShmInv
<1>5. upc' \in [User -> {"start", "size", "map", "use", "done", "failed", "killed",
                         "sigbus", "sigsegv"}]
  BY <1>1
<1> QED BY <1>1, <1>2, <1>3, <1>4, <1>5 DEF ShmInv

(* shm_open with O_CREAT, of a producer or the reference writer.           *)
LEMMA OpenKeeps ==
  ASSUME ShmInv, NEW u \in Producer \cup RefWriter, NEW s \in Shm,
         u \in Producer \/ s # "/my_shared_mem",
         OpenOrCreate(u, s), UNCHANGED <<sized, stored, did, saw, found>>
  PROVE  ShmInv'
<1> USE ShmAssumption DEF User
<1>1. /\ upc[u] = "start" /\ upc' = [upc EXCEPT ![u] = "size"]
      /\ \E o \in Obj : obj' = [obj EXCEPT ![u] = o]
      /\ name' \in [Shm -> Obj \cup {NoObj}] /\ made' \in 0 .. MaxObj
      /\ \A r \in Shm : r # s => name'[r] = name[r]
  <2>1. name \in [Shm -> Obj \cup {NoObj}] /\ made \in 0 .. MaxObj /\ MaxObj \in Nat
    BY DEF ShmInv
  <2>2. CASE name[s] # NoObj
    BY <2>1, <2>2 DEF OpenOrCreate, At
  <2>3. CASE name[s] = NoObj
    <3>1. made + 1 \in Obj /\ made + 1 \in 0 .. MaxObj
      BY <2>1, <2>3 DEF OpenOrCreate, Obj
    <3>2. name' = [name EXCEPT ![s] = made + 1] /\ made' = made + 1
          /\ obj' = [obj EXCEPT ![u] = made + 1] /\ At(u, "start", "size")
      BY <2>3 DEF OpenOrCreate
    <3>3. PICK o \in Obj : o = made + 1
      BY <3>1
    <3> QED BY <2>1, <3>1, <3>2, <3>3 DEF At
  <2> QED BY <2>2, <2>3
<1>2. \A c \in Consumer : upc'[c] = upc[c] /\ obj'[c] = obj[c]
  BY <1>1 DEF ShmInv
<1>3. \A c \in Consumer : Seen(c)'
  BY <1>2, SeenStays
<1>4. \A p \in Producer : upc'[p] \in {"size", "map", "use"} => obj'[p] \in Obj
  BY <1>1 DEF ShmInv
<1>5. Opened'
  BY <1>1 DEF ShmInv, Opened, Shm
<1> QED BY <1>1, <1>3, <1>4, <1>5 DEF ShmInv

LEMMA ProducerKeeps ==
  ASSUME ShmInv, NEW p \in Producer,
         Truncate(p) \/ Unlink(p) \/ \E x \in Part : Store(p, x)
  PROVE  ShmInv'
<1> USE ShmAssumption DEF User
<1>1. \A c \in Consumer : c # p
  OBVIOUS
<1>2. CASE Truncate(p)
  <2>1. \A c \in Consumer : upc'[c] = upc[c]
    BY <1>1, <1>2 DEF ShmInv, Truncate, At
  <2>2. \A c \in Consumer : Seen(c)'
    BY <1>2, <2>1, SeenStays DEF Truncate
  <2>3. Opened'
    BY <1>2 DEF ShmInv, Opened, Truncate, At
  <2> QED BY <1>2, <2>2, <2>3 DEF ShmInv, Truncate, At
<1>3. CASE Unlink(p)
  <2>1. \A c \in Consumer : upc'[c] = upc[c]
    BY <1>1, <1>3 DEF ShmInv, Unlink, At
  <2>2. \A c \in Consumer : Seen(c)'
    BY <1>3, <2>1, SeenStays DEF Unlink
  <2>3. Opened'
    BY <1>3 DEF ShmInv, Opened, Unlink, Shm
  <2> QED BY <1>3, <2>2, <2>3 DEF ShmInv, Unlink, At
<1>4. ASSUME NEW x \in Part, Store(p, x) PROVE ShmInv'
  <2>1. /\ obj[p] \in Obj /\ stored' = [stored EXCEPT ![obj[p]] = @ \cup {x}]
        /\ did' = [did EXCEPT ![p] = @ \cup {x}]
        /\ UNCHANGED <<name, sized, made, upc, obj, saw, found>>
    BY <1>4 DEF ShmInv, Store
  <2>2. /\ stored' \in [Obj -> SUBSET Part] /\ did' \in [User -> SUBSET Part]
        /\ \A o \in Obj : stored[o] \subseteq stored'[o]
        /\ \A c \in Consumer : did'[c] = did[c]
    BY <1>1, <2>1 DEF ShmInv
  <2>3. \A c \in Consumer : Seen(c)'
    BY <2>1, <2>2, SeenStays
  <2>4. Opened'
    BY <2>1 DEF ShmInv, Opened
  <2> QED BY <2>1, <2>2, <2>3, <2>4 DEF ShmInv
<1> QED BY <1>2, <1>3, <1>4

LEMMA ConsumerKeeps ==
  ASSUME ShmInv, NEW c \in Consumer,
         OpenShared(c) \/ Shown(c) \/ \E x \in Part : Load(c, x)
  PROVE  ShmInv'
<1> USE ShmAssumption DEF User
<1>1. \A p \in Producer : p # c
  OBVIOUS
<1>2. /\ UNCHANGED <<name, sized, stored, made>>
      /\ \A u \in User : u # c => /\ upc'[u] = upc[u] /\ obj'[u] = obj[u] /\ did'[u] = did[u]
                                  /\ saw'[u] = saw[u] /\ found'[u] = found[u]
  BY DEF ShmInv, OpenShared, Shown, Load, At
<1>3. \A d \in Consumer : d # c => Seen(d)'
  BY <1>2, SeenStays
<1>4. Opened'
  BY <1>1, <1>2 DEF ShmInv, Opened
<1>5. \A p \in Producer : upc'[p] \in {"size", "map", "use"} => obj'[p] \in Obj
  BY <1>1, <1>2 DEF ShmInv
<1>6. SUFFICES
        /\ upc' \in [User -> {"start", "size", "map", "use", "done", "failed", "killed",
                              "sigbus", "sigsegv"}]
        /\ obj' \in [User -> Obj \cup {NoObj}]
        /\ did' \in [User -> SUBSET Part] /\ saw' \in [User -> SUBSET Part]
        /\ found' \in [User -> [sized : BOOLEAN, parts : SUBSET Part]]
        /\ Seen(c)'
  BY <1>2, <1>3, <1>4, <1>5 DEF ShmInv
<1>7. CASE OpenShared(c)
  <2>1. PICK o : o = name["/my_shared_mem"]
    OBVIOUS
  <2>2. /\ upc[c] = "start" /\ did[c] = {} /\ UNCHANGED <<did, saw>>
        /\ o \in Obj \cup {NoObj}
    BY <1>7, <2>1 DEF ShmInv, OpenShared, At, Seen, Shm
  <2>3. CASE o = NoObj
    BY <1>7, <2>1, <2>2, <2>3 DEF ShmInv, OpenShared, At, Seen
  <2>4. CASE o # NoObj
    <3>1. /\ upc' = [upc EXCEPT ![c] = "map"] /\ obj' = [obj EXCEPT ![c] = o] /\ o \in Obj
          /\ found' = [found EXCEPT ![c] = [sized |-> o \in sized, parts |-> stored[o]]]
      BY <1>7, <2>1, <2>2, <2>4 DEF OpenShared, At
    <3>2. (o \in sized) \in BOOLEAN /\ stored[o] \in SUBSET Part
      BY <3>1 DEF ShmInv
    <3>3. PICK f \in [sized : BOOLEAN, parts : SUBSET Part] :
            f = [sized |-> o \in sized, parts |-> stored[o]]
      BY <3>2
    <3>4. f.parts = stored[o] /\ (f.sized <=> o \in sized)
      BY <3>3
    <3>5. found' = [found EXCEPT ![c] = f]
      BY <3>1, <3>3
    <3>6. found' \in [User -> [sized : BOOLEAN, parts : SUBSET Part]] /\ found'[c] = f
      BY <3>5 DEF ShmInv
    <3>7. /\ upc' \in [User -> {"start", "size", "map", "use", "done", "failed", "killed",
                                "sigbus", "sigsegv"}]
          /\ obj' \in [User -> Obj \cup {NoObj}] /\ upc'[c] = "map" /\ obj'[c] = o
      BY <3>1 DEF ShmInv
    <3>8. Seen(c)'
      BY <1>2, <2>2, <3>1, <3>4, <3>6, <3>7 DEF Seen
    <3> QED BY <2>2, <3>6, <3>7, <3>8 DEF ShmInv
  <2> QED BY <2>3, <2>4
<1>8. CASE Shown(c)
  BY <1>8 DEF ShmInv, Shown, At, Seen
<1>9. ASSUME NEW x \in Part, Load(c, x)
      PROVE  /\ upc' \in [User -> {"start", "size", "map", "use", "done", "failed", "killed",
                                   "sigbus", "sigsegv"}]
             /\ obj' \in [User -> Obj \cup {NoObj}]
             /\ did' \in [User -> SUBSET Part] /\ saw' \in [User -> SUBSET Part]
             /\ found' \in [User -> [sized : BOOLEAN, parts : SUBSET Part]]
             /\ Seen(c)'
  <2>1. /\ upc[c] = "use" /\ obj[c] \in Obj /\ Seen(c)
        /\ UNCHANGED <<obj, found, sized, stored>>
    BY <1>9 DEF ShmInv, Load, Seen
  <2>2. CASE obj[c] \notin sized
    BY <1>9, <2>1, <2>2 DEF ShmInv, Load, Seen
  <2>3. CASE obj[c] \in sized
    <3>1. /\ did' = [did EXCEPT ![c] = @ \cup {x}] /\ UNCHANGED upc
          /\ saw' = [saw EXCEPT ![c] = @ \cup ({x} \cap stored[obj[c]])]
      BY <1>9, <2>3 DEF Load
    <3>2. /\ did'[c] = did[c] \cup {x} /\ saw'[c] = saw[c] \cup ({x} \cap stored[obj[c]])
          /\ did' \in [User -> SUBSET Part] /\ saw' \in [User -> SUBSET Part]
      BY <3>1 DEF ShmInv
    <3>3. Seen(c)'
      BY <2>1, <3>1, <3>2 DEF Seen
    <3> QED BY <2>1, <3>1, <3>2, <3>3 DEF ShmInv
  <2> QED BY <2>2, <2>3
<1> QED BY <1>7, <1>8, <1>9

LEMMA RefKeeps ==
  ASSUME ShmInv, NEW w \in RefWriter, RefTruncate(w) \/ RefWrite(w)
  PROVE  ShmInv'
<1> USE ShmAssumption DEF User
<1>1. /\ UNCHANGED <<name, stored, made, obj, did, saw, found>> /\ sized \subseteq sized'
      /\ \E l \in {"use", "done", "sigbus", "sigsegv"} : upc' = [upc EXCEPT ![w] = l]
  BY DEF RefTruncate, RefWrite, At
<1>2. \A u \in Producer \cup Consumer : upc'[u] = upc[u]
  BY <1>1 DEF ShmInv
<1>3. \A c \in Consumer : Seen(c)'
  BY <1>1, <1>2, SeenStays
<1>4. Opened' /\ \A p \in Producer : upc'[p] \in {"size", "map", "use"} => obj'[p] \in Obj
  BY <1>1, <1>2 DEF ShmInv, Opened
<1> QED BY <1>1, <1>3, <1>4 DEF ShmInv

LEMMA ShmKeeps == ShmInv /\ [ShmNext]_shmVars => ShmInv'
<1> SUFFICES ASSUME ShmInv, [ShmNext]_shmVars PROVE ShmInv'
  OBVIOUS
<1>1. ASSUME NEW u \in Producer \cup Consumer, CallFails(u) \/ Map(u) \/ UserKilled(u)
      PROVE  ShmInv'
  BY <1>1, MovesKeep, ShmAssumption DEF User
<1>2. ASSUME NEW p \in Producer, Create(p) PROVE ShmInv'
  BY <1>2, OpenKeeps DEF Create, Shm
<1>3. ASSUME NEW w \in RefWriter, RefOpen(w) PROVE ShmInv'
  BY <1>3, OpenKeeps DEF RefOpen, Shm
<1>4. ASSUME NEW w \in RefWriter, CallFails(w) \/ UserKilled(w) PROVE ShmInv'
  <2>1. w \in User
    BY DEF User
  <2> QED BY <1>4, <2>1, MovesKeep
<1>5. CASE UNCHANGED shmVars
  BY <1>5 DEF shmVars, ShmInv, Seen, Opened
<1> QED
  BY <1>1, <1>2, <1>3, <1>4, <1>5, ProducerKeeps, ConsumerKeeps, RefKeeps
     DEF ShmNext, SharedNext, RefNext

(* A consumer shows all of a product that was finished when it opened the  *)
(* object and does not die of a size it saw set; and the name is gone once *)
(* the producers that ran have ended normally; for any number of each.     *)
THEOREM ProductIsRight == ShmSpec => []ProductRight
<1>1. ASSUME ShmInv PROVE FinishedIsRead
  <2> SUFFICES ASSUME NEW c \in Consumer
               PROVE  /\ upc[c] = "done" /\ found[c].parts = Part => saw[c] = Part
                      /\ upc[c] = "sigbus" => ~found[c].sized
    BY DEF FinishedIsRead
  <2>1. Seen(c) /\ saw[c] \subseteq Part
    BY <1>1 DEF ShmInv, User
  <2> QED BY <2>1 DEF Seen
<1>2. ASSUME ShmInv PROVE NameGivenBack
  BY <1>2 DEF ShmInv, Opened, NameGivenBack
<1>3. ShmInv => ProductRight
  BY <1>1, <1>2 DEF ProductRight
<1> QED BY ShmStarts, ShmKeeps, <1>3, PTL DEF ShmSpec

(* Every number of an object is that of one that was made; a producer that *)
(* maps its object has given it its size.                                  *)
Made ==
  /\ \A s \in Shm : name[s] <= made
  /\ \A u \in User : obj[u] <= made
  /\ sized \subseteq 1 .. made
  /\ \A o \in Obj : stored[o] # {} => o \in sized
  /\ \A w \in RefWriter : upc[w] \in {"size", "use"} => obj[w] \in Obj
  /\ \A p \in Producer : upc[p] \in {"map", "use"} => obj[p] \in sized

LEMMA MadeStarts == ShmInit => Made
BY DEF ShmInit, Made, NoObj, User

(* An object that gets a number is a new one, or one that has a name.      *)
LEMMA OpenMade ==
  ASSUME ShmInv, Made, NEW u \in Producer \cup RefWriter, NEW s \in Shm,
         OpenOrCreate(u, s), UNCHANGED <<sized, stored, did, saw, found>>
  PROVE  Made'
<1> USE ShmAssumption DEF User
<1>1. /\ upc' = [upc EXCEPT ![u] = "size"] /\ made \in 0 .. MaxObj /\ MaxObj \in Nat
      /\ name \in [Shm -> 0 .. MaxObj] /\ obj \in [User -> 0 .. MaxObj]
  BY DEF ShmInv, OpenOrCreate, At, Obj, NoObj
<1>2. CASE name[s] # NoObj
  <2>1. obj' = [obj EXCEPT ![u] = name[s]] /\ UNCHANGED <<name, made>>
    BY <1>2 DEF OpenOrCreate
  <2>2. name[s] \in Obj /\ name[s] <= made
    BY <1>1, <1>2 DEF Made, Obj, NoObj
  <2> QED BY <1>1, <2>1, <2>2 DEF ShmInv, Made
<1>3. CASE name[s] = NoObj
  <2>1. /\ made < MaxObj /\ made' = made + 1 /\ name' = [name EXCEPT ![s] = made + 1]
        /\ obj' = [obj EXCEPT ![u] = made + 1]
    BY <1>3 DEF OpenOrCreate
  <2>2. /\ \A r \in Shm : name'[r] <= made' /\ \A v \in User : obj'[v] <= made'
        /\ obj'[u] \in Obj
    BY <1>1, <2>1 DEF Made, Obj
  <2>3. sized' \subseteq 1 .. made'
    BY <1>1, <2>1 DEF Made
  <2> QED BY <1>1, <2>1, <2>2, <2>3 DEF ShmInv, Made
<1> QED BY <1>2, <1>3

LEMMA MadeKeeps == ShmInv /\ Made /\ [ShmNext]_shmVars => Made'
<1> SUFFICES ASSUME ShmInv, Made, [ShmNext]_shmVars PROVE Made'
  OBVIOUS
<1> USE ShmAssumption DEF User
<1>1. ASSUME NEW p \in Producer, Create(p) PROVE Made'
  BY <1>1, OpenMade DEF Create, Shm
<1>2. ASSUME NEW w \in RefWriter, RefOpen(w) PROVE Made'
  BY <1>2, OpenMade DEF RefOpen, Shm
<1>3. ASSUME NEW u \in User, CallFails(u) \/ (Map(u) /\ u \notin RefWriter) \/ UserKilled(u)
      PROVE  Made'
  <2>1. UNCHANGED <<name, sized, stored, made, obj>>
    BY <1>3 DEF CallFails, Map, UserKilled
  <2>2. \A v \in User :
          \/ upc'[v] = upc[v] \/ upc'[v] \in {"failed", "killed"}
          \/ v \notin RefWriter /\ upc[v] = "map" /\ upc'[v] = "use"
    BY <1>3 DEF CallFails, Map, UserKilled, At, ShmInv
  <2> QED BY <2>1, <2>2 DEF Made
<1>4. ASSUME NEW p \in Producer, Truncate(p) PROVE Made'
  <2>1. obj[p] \in 1 .. made
    BY <1>4 DEF Truncate, At, ShmInv, Made, Obj
  <2> QED BY <1>4, <2>1 DEF Truncate, At, ShmInv, Made
<1>5. ASSUME NEW p \in Producer, Unlink(p) PROVE Made'
  <2>1. \A s \in Shm : name'[s] = name[s] \/ name'[s] = 0
    BY <1>5 DEF Unlink, ShmInv, NoObj
  <2>2. \A s \in Shm : name'[s] <= made
    BY <2>1 DEF ShmInv, Made
  <2> QED BY <1>5, <2>2 DEF Unlink, At, ShmInv, Made
<1>6. ASSUME NEW p \in Producer, NEW x \in Part, Store(p, x) PROVE Made'
  <2>1. obj[p] \in sized /\ UNCHANGED <<name, sized, made, upc, obj>>
    BY <1>6 DEF Store, Made
  <2>2. \A o \in Obj : stored'[o] # {} => o \in sized
    BY <1>6, <2>1 DEF Store, ShmInv, Made
  <2> QED BY <2>1, <2>2 DEF Made
<1>7. ASSUME NEW c \in Consumer, OpenShared(c) \/ Shown(c) \/ \E x \in Part : Load(c, x)
      PROVE  Made'
  <2>1. /\ UNCHANGED <<name, sized, stored, made>>
        /\ \A u \in User : u # c => upc'[u] = upc[u] /\ obj'[u] = obj[u]
    BY <1>7 DEF OpenShared, Shown, Load, At, ShmInv
  <2>2. obj'[c] <= made
    BY <1>7 DEF OpenShared, Shown, Load, ShmInv, Made, Shm
  <2> QED BY <2>1, <2>2 DEF Made
<1>8. ASSUME NEW w \in RefWriter, RefTruncate(w) \/ RefWrite(w) PROVE Made'
  <2>1. obj[w] \in 1 .. made \/ sized' = sized
    BY <1>8 DEF RefTruncate, RefWrite, At, ShmInv, Made, Obj
  <2>2. /\ UNCHANGED <<name, stored, made, obj>> /\ sized \subseteq sized'
        /\ sized' \subseteq 1 .. made
    BY <1>8, <2>1 DEF RefTruncate, RefWrite, Made
  <2>3. \A u \in User : upc'[u] \in {"map", "size"} => upc'[u] = upc[u]
    BY <1>8 DEF RefTruncate, RefWrite, At, ShmInv
  <2>4. \A u \in User : upc'[u] = "use" => upc[u] = "use" \/ (u = w /\ upc[u] = "size")
    BY <1>8 DEF RefTruncate, RefWrite, At, ShmInv
  <2> QED BY <2>2, <2>3, <2>4 DEF Made
<1>9. CASE UNCHANGED shmVars
  BY <1>9 DEF shmVars, Made
<1> QED
  BY <1>1, <1>2, <1>3, <1>4, <1>5, <1>6, <1>7, <1>8, <1>9 DEF ShmNext, SharedNext, RefNext

LEMMA ShmTyped == ShmSpec => []ShmTypeOK
<1>1. ShmInv /\ Made => ShmTypeOK
  BY DEF ShmInv, Made, ShmTypeOK
<1> QED BY ShmStarts, ShmKeeps, MadeStarts, MadeKeeps, <1>1, PTL DEF ShmSpec

-----------------------------------------------------------------------------
(* The IPv4 datagram programs: a client gets the answer to its own request *)
(* or to that of one which is gone and had its port.                       *)

Place == {"start", "bind", "send", "recv", "reply", "close", "done", "failed", "nobind",
          "killed"}

(* A client has a port from its sendto on, and no two that are up the same.*)
Ported ==
  /\ dpc \in [DgProc -> Place] /\ udpPort \in [DgClient -> DgPort \cup {"none"}]
  /\ \A c \in DgClient :
       \/ dpc[c] \in {"start", "failed"} /\ udpPort[c] = "none"
       \/ dpc[c] \in {"recv", "close", "done", "killed"} /\ udpPort[c] \in DgPort
  /\ \A c, a \in DgClient : Up(c) /\ Up(a) /\ udpPort[c] = udpPort[a] => a = c

(* A request carries the port of its client, an answer goes to that port.  *)
Given(a, c) == a = c \/ HadPortOf(a, c)
Request     == {d \in Dgram : d.from \in DgPort /\ d.from = udpPort[d.of]}
AnswerOf(c) == {d \in Dgram : Given(d.of, c)}
Expected(u) == IF u \in DgClient THEN AnswerOf(u) ELSE Request
Fits(d)     == IF d.to = "server" THEN d \in Request
                                  ELSE d.to \in DgPort /\ d.to = udpPort[d.of]

(* The inductive invariant: whatever is under way, waits or is answered    *)
(* belongs where it is.                                                    *)
Addressed ==
  /\ net \subseteq Dgram /\ \A d \in net : Fits(d)
  /\ inbox \in [DgProc -> Seq(Dgram)]
  /\ \A u \in DgProc : inbox[u] \in Seq(Expected(u))
  /\ asker \in [DgServer -> Dgram \cup {NoDgram}]
  /\ \A s \in DgServer : dpc[s] = "reply" => asker[s] \in Request
  /\ got \in [DgClient -> DgClient \cup {Nobody}]
  /\ \A c \in DgClient : got[c] # Nobody => Given(got[c], c)

DgInv == Inet => Ported /\ Addressed

LEMMA DgStarts == DgInit => DgInv
BY DEF DgInit, DgInv, Ported, Addressed, DgProc, Place, Up

(* A client keeps its port, also when it has ended, and ends once.         *)
Grows ==
  \A c \in DgClient : /\ udpPort[c] # "none" => udpPort'[c] = udpPort[c]
                      /\ dpc[c] \in {"done", "killed"} => dpc'[c] = dpc[c]

LEMMA PortsKeep ==
  ASSUME Inet, Ported, DgNext
  PROVE  Ported' /\ Grows
<1> USE DEF Ported, Grows, Up, DgProc, Place, Does
<1>1. CASE Network
  BY <1>1 DEF Network
<1>2. ASSUME NEW c \in DgClient, SendHello(c)
      PROVE  Ported' /\ Grows
  <2>1. PICK p \in DgPort : /\ udpPort' = [udpPort EXCEPT ![c] = p]
                            /\ \A v \in DgClient : ~HasPort(v, p)
    BY <1>2 DEF SendHello
  <2>2. dpc[c] = "start" /\ dpc' = [dpc EXCEPT ![c] = "recv"]
    BY <1>2 DEF SendHello
  <2>3. \A v \in DgClient : v # c => udpPort'[v] = udpPort[v] /\ dpc'[v] = dpc[v]
    BY <2>1, <2>2
  <2>4. udpPort'[c] = p /\ dpc'[c] = "recv" /\ udpPort[c] = "none"
    BY <2>1, <2>2
  <2>5. \A v \in DgClient : Up(v) => udpPort[v] # p
    BY <2>1, DgAssumption DEF HasPort
  <2>6. \A v, a \in DgClient : Up(v)' /\ Up(a)' /\ udpPort'[v] = udpPort'[a] => a = v
    BY <2>3, <2>4, <2>5
  <2>7. /\ dpc' \in [DgProc -> Place] /\ udpPort' \in [DgClient -> DgPort \cup {"none"}]
    BY <2>1, <2>2
  <2>8. Grows
    BY <2>2, <2>3, <2>4
  <2> QED BY <2>3, <2>4, <2>6, <2>7, <2>8
<1>3. ASSUME NEW c \in DgClient, RecvAnswer(c) \/ CloseClient(c)
      PROVE  Ported' /\ Grows
  BY <1>3 DEF RecvAnswer, CloseClient
<1>4. ASSUME NEW s \in DgServer, BindPort(s) \/ RecvHello(s) \/ Reply(s)
      PROVE  Ported' /\ Grows
  <2>1. PICK l \in {"failed", "recv", "reply"} : dpc' = [dpc EXCEPT ![s] = l]
    BY <1>4 DEF BindPort, RecvHello, Reply
  <2>2. UNCHANGED udpPort /\ s \notin DgClient
    BY <1>4, DgAssumption DEF BindPort, RecvHello, Reply
  <2> QED BY <2>1, <2>2
<1>5. ASSUME NEW u \in DgProc, DgFails(u)
      PROVE  Ported' /\ Grows
  BY <1>5 DEF DgFails
<1>6. ASSUME NEW u \in DgProc, DgKilled(u)
      PROVE  Ported' /\ Grows
  BY <1>6 DEF DgKilled
<1> QED
  BY <1>1, <1>2, <1>3, <1>4, <1>5, <1>6
     DEF DgNext, ClientStep, ServerStep, UnlinkFile, BindFile

(* What belonged somewhere still does after a step.                        *)
LEMMA BelongsStill ==
  ASSUME Ported, Grows
  PROVE  /\ \A c, a \in DgClient : Given(a, c) => Given(a, c)'
         /\ \A d \in Dgram : Fits(d) => Fits(d)'
         /\ \A u \in DgProc : Expected(u) \subseteq Expected(u)'
         /\ Request \subseteq Request'
<1>1. "none" \notin DgPort /\ \A d \in Dgram : d.of \in DgClient
  BY DgAssumption DEF Dgram
<1>2. ASSUME NEW c \in DgClient, NEW a \in DgClient, Given(a, c)
      PROVE  Given(a, c)'
  BY <1>1, <1>2 DEF Given, HadPortOf, Ported, Grows
<1>3. Request \subseteq Request'
  BY <1>1 DEF Request, Grows
<1>4. \A c \in DgClient : AnswerOf(c) \subseteq AnswerOf(c)'
  BY <1>1, <1>2 DEF AnswerOf
<1>5. \A d \in Dgram : Fits(d) => Fits(d)'
  BY <1>1, <1>3 DEF Fits, Grows
<1> QED BY <1>2, <1>3, <1>4, <1>5 DEF Expected

(* So a step has to put right only what it sends, queues, takes and gets.  *)
LEMMA StaysAddressed ==
  ASSUME Ported, Addressed, Grows,
         \A d \in net' : d \in Dgram /\ (Fits(d) \/ Fits(d)'),
         inbox' \in [DgProc -> Seq(Dgram)], \A u \in DgProc : inbox'[u] \in Seq(Expected(u)),
         asker' \in [DgServer -> Dgram \cup {NoDgram}],
         \A s \in DgServer : dpc'[s] = "reply" => asker'[s] \in Request,
         got' \in [DgClient -> DgClient \cup {Nobody}],
         \A c \in DgClient : got'[c] # Nobody => Given(got'[c], c)
  PROVE  Addressed'
<1>1. \A d \in net' : Fits(d)'
  BY BelongsStill
<1>2. \A u \in DgProc : inbox'[u] \in Seq(Expected(u)')
  <2> SUFFICES ASSUME NEW u \in DgProc PROVE inbox'[u] \in Seq(Expected(u)')
    OBVIOUS
  <2>1. Expected(u) \subseteq Expected(u)' /\ inbox'[u] \in Seq(Expected(u))
    BY BelongsStill
  <2> QED BY <2>1
<1>3. ASSUME NEW c \in DgClient, got'[c] # Nobody
      PROVE  Given(got[c], c)'
  <2>1. PICK a \in DgClient : a = got'[c]
    BY <1>3
  <2>2. Given(a, c)'
    BY <1>3, <2>1, BelongsStill
  <2> QED BY <2>1, <2>2 DEF Given, HadPortOf
<1>4. \A s \in DgServer : dpc'[s] = "reply" => asker'[s] \in Request'
  BY BelongsStill
<1> QED BY <1>1, <1>2, <1>3, <1>4 DEF Addressed

(* What arrives where it is expected leaves the inboxes right.             *)
LEMMA ArrivesRight ==
  ASSUME Addressed, NEW u \in DgProc, NEW d \in Expected(u), Arrives(u, d)
  PROVE  /\ inbox' \in [DgProc -> Seq(Dgram)]
         /\ \A v \in DgProc : inbox'[v] \in Seq(Expected(v))
<1>1. d \in Dgram
  BY DEF Expected, AnswerOf, Request
<1>2. inbox'[u] = Append(inbox[u], d) /\ \A v \in DgProc : v # u => inbox'[v] = inbox[v]
  BY DEF Arrives, Addressed
<1>3. Append(inbox[u], d) \in Seq(Expected(u)) /\ Append(inbox[u], d) \in Seq(Dgram)
  BY <1>1 DEF Addressed
<1> QED
  BY <1>2, <1>3 DEF Arrives, Addressed

(* What is taken from an inbox is what was expected there.                 *)
LEMMA TakenRight ==
  ASSUME Addressed, NEW u \in DgProc, inbox[u] # <<>>, inbox' = [inbox EXCEPT ![u] = Tail(@)]
  PROVE  /\ Head(inbox[u]) \in Expected(u) /\ Head(inbox[u]) \in Dgram
         /\ inbox' \in [DgProc -> Seq(Dgram)]
         /\ \A v \in DgProc : inbox'[v] \in Seq(Expected(v))
<1>1. Head(inbox[u]) \in Expected(u) /\ Tail(inbox[u]) \in Seq(Expected(u))
  BY DEF Addressed
<1>2. Head(inbox[u]) \in Dgram /\ Tail(inbox[u]) \in Seq(Dgram)
  BY DEF Addressed
<1>3. inbox'[u] = Tail(inbox[u]) /\ \A v \in DgProc : v # u => inbox'[v] = inbox[v]
  BY DEF Addressed
<1> QED
  BY <1>1, <1>2, <1>3 DEF Addressed

(* A datagram that fits is expected by the socket that has the port: by    *)
(* the client it is for, or by one that got the port when that was gone.   *)
LEMMA DeliveredRight ==
  ASSUME Ported, NEW d \in Dgram, Fits(d), NEW u \in DgProc, HasPort(u, d.to)
  PROVE  d \in Expected(u)
<1>1. CASE u \in DgServer
  BY <1>1, DgAssumption DEF HasPort, Fits, Expected
<1>2. CASE u \in DgClient
  <2>1. u \notin DgServer /\ "server" \notin DgPort /\ "server" # "none"
    BY <1>2, DgAssumption
  <2>2. Up(u) /\ udpPort[u] = d.to /\ d.to # "server"
    BY <1>2, <2>1 DEF HasPort, Ported
  <2>3. d.to \in DgPort /\ udpPort[d.of] = udpPort[u] /\ d.of \in DgClient
    BY <2>2 DEF Fits, Dgram
  <2>4. d.of # u => dpc[d.of] \in {"done", "killed"}
    BY <1>2, <2>2, <2>3, DgAssumption DEF Ported, Up
  <2> QED BY <1>2, <2>3, <2>4 DEF Expected, AnswerOf, Given, HadPortOf
<1> QED BY <1>1, <1>2 DEF DgProc

LEMMA NetworkKeeps ==
  ASSUME Ported, Addressed, Grows, Network
  PROVE  Addressed'
<1>1. PICK d \in net :
        \/ (\E u \in DgProc : HasPort(u, d.to) /\ Arrives(u, d)) /\ net' \subseteq net
        \/ net' = net \ {d} /\ UNCHANGED inbox
  BY DEF Network
<1>2. UNCHANGED <<dpc, asker, got>> /\ net' \subseteq net /\ d \in Dgram /\ Fits(d)
  BY <1>1 DEF Network, Addressed
<1>3. /\ inbox' \in [DgProc -> Seq(Dgram)]
      /\ \A v \in DgProc : inbox'[v] \in Seq(Expected(v))
  <2>1. CASE UNCHANGED inbox
    BY <2>1 DEF Addressed
  <2>2. ASSUME NEW u \in DgProc, HasPort(u, d.to), Arrives(u, d)
        PROVE  <1>3!1 /\ <1>3!2
    BY <1>2, <2>2, DeliveredRight, ArrivesRight
  <2> QED BY <1>1, <2>1, <2>2
<1>4. \A e \in net' : e \in Dgram /\ Fits(e)
  BY <1>2 DEF Addressed
<1> QED BY <1>2, <1>3, <1>4, StaysAddressed DEF Addressed

LEMMA SendHelloKeeps ==
  ASSUME Inet, Ported, Addressed, Grows, NEW c \in DgClient, SendHello(c)
  PROVE  Addressed'
<1>1. PICK p \in DgPort : /\ udpPort' = [udpPort EXCEPT ![c] = p]
                          /\ net' = net \cup {[to |-> "server", from |-> p, of |-> c]}
  BY DEF SendHello, Leaves
<1>2. dpc' = [dpc EXCEPT ![c] = "recv"] /\ UNCHANGED <<inbox, asker, got>>
  BY DEF SendHello, Does
<1>3. PICK d : d = [to |-> "server", from |-> p, of |-> c]
  OBVIOUS
<1>4. d \in Dgram /\ d.to = "server" /\ d.from = p /\ d.of = c
  BY <1>3 DEF Dgram, Address
<1>5. udpPort'[c] = p
  BY <1>1 DEF Ported
<1>6. Fits(d)'
  BY <1>4, <1>5 DEF Fits, Request
<1>7. \A e \in net' : e \in Dgram /\ (Fits(e) \/ Fits(e)')
  BY <1>1, <1>3, <1>4, <1>6 DEF Addressed
<1>8. \A s \in DgServer : dpc'[s] = dpc[s]
  BY <1>2, DgAssumption DEF Ported, DgProc
<1> QED BY <1>2, <1>7, <1>8, StaysAddressed DEF Addressed

LEMMA RecvAnswerKeeps ==
  ASSUME Ported, Addressed, Grows, NEW c \in DgClient, RecvAnswer(c)
  PROVE  Addressed'
<1>1. /\ inbox[c] # <<>> /\ inbox' = [inbox EXCEPT ![c] = Tail(@)] /\ c \in DgProc
      /\ dpc' = [dpc EXCEPT ![c] = "close"]
      /\ got' = [got EXCEPT ![c] = Head(inbox[c]).of] /\ UNCHANGED <<net, asker>>
  BY DEF RecvAnswer, Does, DgProc
<1>2. Given(Head(inbox[c]).of, c) /\ Head(inbox[c]).of \in DgClient
  <2>1. Head(inbox[c]) \in AnswerOf(c)
    BY <1>1, TakenRight DEF Expected
  <2> QED BY <2>1 DEF AnswerOf, Dgram
<1>3. /\ got' \in [DgClient -> DgClient \cup {Nobody}]
      /\ \A a \in DgClient : got'[a] # Nobody => Given(got'[a], a)
  BY <1>1, <1>2 DEF Addressed
<1>4. \A s \in DgServer : dpc'[s] = dpc[s]
  BY <1>1, DgAssumption DEF Ported, DgProc
<1>5. /\ inbox' \in [DgProc -> Seq(Dgram)]
      /\ \A v \in DgProc : inbox'[v] \in Seq(Expected(v))
  BY <1>1, TakenRight
<1> QED BY <1>1, <1>3, <1>4, <1>5, StaysAddressed DEF Addressed

LEMMA RecvHelloKeeps ==
  ASSUME Ported, Addressed, Grows, NEW s \in DgServer, RecvHello(s)
  PROVE  Addressed'
<1>1. /\ inbox[s] # <<>> /\ inbox' = [inbox EXCEPT ![s] = Tail(@)] /\ s \in DgProc
      /\ dpc' = [dpc EXCEPT ![s] = "reply"]
      /\ asker' = [asker EXCEPT ![s] = Head(inbox[s])] /\ UNCHANGED <<net, got>>
  BY DEF RecvHello, Does, DgProc
<1>2. Head(inbox[s]) \in Request /\ Head(inbox[s]) \in Dgram
  BY <1>1, TakenRight, DgAssumption DEF Expected
<1>3. /\ asker' \in [DgServer -> Dgram \cup {NoDgram}]
      /\ \A t \in DgServer : dpc'[t] = "reply" => asker'[t] \in Request
  BY <1>1, <1>2 DEF Ported, Addressed, DgProc
<1>4. /\ inbox' \in [DgProc -> Seq(Dgram)]
      /\ \A v \in DgProc : inbox'[v] \in Seq(Expected(v))
  BY <1>1, TakenRight
<1> QED BY <1>1, <1>3, <1>4, StaysAddressed DEF Addressed

LEMMA ReplyKeeps ==
  ASSUME Inet, Ported, Addressed, Grows, NEW s \in DgServer, Reply(s)
  PROVE  Addressed'
<1>1. /\ dpc[s] = "reply" /\ dpc' = [dpc EXCEPT ![s] = "recv"]
      /\ asker' = [asker EXCEPT ![s] = NoDgram] /\ UNCHANGED <<inbox, got>>
      /\ net' = net \cup {[to |-> asker[s].from, from |-> "server", of |-> asker[s].of]}
  BY DEF Reply, Does, AnswerTo, Leaves
<1>2. /\ asker[s].from \in DgPort /\ asker[s].of \in DgClient
      /\ asker[s].from = udpPort[asker[s].of]
  BY <1>1 DEF Addressed, Request, Dgram
<1>3. PICK d : d = [to |-> asker[s].from, from |-> "server", of |-> asker[s].of]
  OBVIOUS
<1>4. d \in Dgram /\ d.to = asker[s].from /\ d.of = asker[s].of
  BY <1>2, <1>3 DEF Dgram, Address
<1>5. Fits(d)
  BY <1>2, <1>4, DgAssumption DEF Fits
<1>6. \A e \in net' : e \in Dgram /\ (Fits(e) \/ Fits(e)')
  BY <1>1, <1>3, <1>4, <1>5 DEF Addressed
<1>7. /\ asker' \in [DgServer -> Dgram \cup {NoDgram}]
      /\ \A t \in DgServer : dpc'[t] = "reply" => asker'[t] \in Request
  BY <1>1 DEF Ported, Addressed, DgProc
<1> QED BY <1>1, <1>6, <1>7, StaysAddressed DEF Addressed

(* The steps of sockets, files and ends of processes; inboxes may be lost. *)
LEMMA OthersKeep ==
  ASSUME Ported, Addressed, Grows, NEW u \in DgProc, NEW p \in Place, p # "reply",
         dpc' = [dpc EXCEPT ![u] = p], UNCHANGED <<net, got>>,
         inbox' \in {inbox, [inbox EXCEPT ![u] = <<>>]},
         \A s \in DgServer : asker'[s] = asker[s] \/ s = u,
         asker' \in [DgServer -> Dgram \cup {NoDgram}]
  PROVE  Addressed'
<1>1. /\ inbox' \in [DgProc -> Seq(Dgram)]
      /\ \A v \in DgProc : inbox'[v] = inbox[v] \/ inbox'[v] = <<>>
  <2>1. <<>> \in Seq(Dgram)
    BY DEF Addressed
  <2>2. CASE inbox' = inbox
    BY <2>1, <2>2 DEF Addressed
  <2>3. CASE inbox' = [inbox EXCEPT ![u] = <<>>]
    BY <2>1, <2>3 DEF Addressed
  <2> QED
    BY <2>1, <2>2, <2>3
<1>2. \A v \in DgProc : inbox'[v] \in Seq(Expected(v))
  BY <1>1 DEF Addressed
<1>3. \A s \in DgServer : dpc'[s] = "reply" => asker'[s] \in Request
  BY DEF Ported, Addressed, DgProc
<1> QED
  BY <1>1, <1>2, <1>3, StaysAddressed DEF Addressed

LEMMA DgKeeps ==
  ASSUME DgInv, [DgNext]_dgVars
  PROVE  DgInv'
<1>1. family' = family
  BY DEF DgNext, dgVars, Network, ClientStep, ServerStep, UnlinkFile, BindFile, BindPort,
         SendHello, RecvAnswer, CloseClient, RecvHello, Reply, DgFails, DgKilled
<1>2. CASE UNCHANGED dgVars
  <2>1. Inet' <=> Inet
    BY <1>1 DEF Inet
  <2>2. Ported => Ported'
    BY <1>2 DEF dgVars, Ported, Up
  <2>3. Addressed => Addressed'
    BY <1>2 DEF dgVars, Addressed, Fits, Request, Expected, AnswerOf, Given, HadPortOf
  <2> QED BY <2>1, <2>2, <2>3 DEF DgInv
<1> SUFFICES ASSUME Inet, Ported, Addressed, DgNext PROVE Ported' /\ Addressed'
  BY <1>1, <1>2 DEF DgInv, Inet
<1>3. Ported' /\ Grows
  BY PortsKeep
<1>4. CASE Network
  BY <1>3, <1>4, NetworkKeeps
<1>5. ASSUME NEW c \in DgClient, ClientStep(c)
      PROVE  Addressed'
  <2>1. CASE CloseClient(c)
    BY <1>3, <2>1, OthersKeep DEF CloseClient, Does, DgProc, Addressed, Place
  <2> QED
    BY <1>3, <1>5, <2>1, SendHelloKeeps, RecvAnswerKeeps DEF ClientStep, UnlinkFile, BindFile
<1>6. ASSUME NEW s \in DgServer, BindPort(s)
      PROVE  Addressed'
  <2>1. PICK p \in {"failed", "recv"} : dpc' = [dpc EXCEPT ![s] = p]
    BY <1>6 DEF BindPort, Does
  <2> QED
    BY <1>3, <1>6, <2>1, OthersKeep DEF BindPort, DgProc, Addressed, Place
<1>7. ASSUME NEW s \in DgServer, UnlinkFile(s) \/ ServerStep(s)
      PROVE  Addressed'
  BY <1>3, <1>7, RecvHelloKeeps, ReplyKeeps DEF ServerStep, UnlinkFile, BindFile
<1>8. ASSUME NEW u \in DgProc, DgFails(u) \/ DgKilled(u)
      PROVE  Addressed'
  <2>1. PICK p \in {"failed", "killed"} : dpc' = [dpc EXCEPT ![u] = p]
    BY <1>8 DEF DgFails, DgKilled
  <2>2. /\ \A s \in DgServer : asker'[s] = asker[s] \/ s = u
        /\ asker' \in [DgServer -> Dgram \cup {NoDgram}]
    BY <1>8 DEF DgFails, DgKilled, Addressed
  <2>3. inbox' = [inbox EXCEPT ![u] = <<>>] /\ UNCHANGED <<net, got>>
    BY <1>8 DEF DgFails, DgKilled
  <2> QED
    BY <1>3, <2>1, <2>2, <2>3, OthersKeep DEF Place
<1> QED
  BY <1>3, <1>4, <1>5, <1>6, <1>7, <1>8 DEF DgNext

(* Over IPv4 a client that is up never loses its answer to another: who    *)
(* gets an answer is the client that asked, or one that has the port after *)
(* that was gone, though datagrams are lost, doubled and reordered, servers*)
(* die and return, and ports are used again.                               *)
THEOREM AnswersReachTheirClients == DgSpec => []OwnAnswer
<1>1. DgInv /\ [DgNext]_dgVars => DgInv'
  BY DgKeeps
<1>2. DgInv => OwnAnswer
  <2> SUFFICES ASSUME Inet, Ported, Addressed PROVE OwnAnswer
    BY DEF DgInv, OwnAnswer
  <2>1. ASSUME NEW c \in DgClient, NEW n \in 1 .. Len(inbox[c])
        PROVE  Given(inbox[c][n].of, c)
    <3>1. inbox[c] \in Seq(AnswerOf(c))
      BY DEF Addressed, DgProc, Expected
    <3>2. inbox[c][n] \in AnswerOf(c)
      BY <3>1
    <3> QED
      BY <3>2 DEF AnswerOf
  <2>2. \A c, a \in DgClient : got[c] = a => Given(a, c)
    BY DgAssumption DEF Addressed, Nobody
  <2> QED
    BY <2>1, <2>2 DEF OwnAnswer, Given
<1> QED
  BY DgStarts, <1>1, <1>2, PTL DEF DgSpec
-----------------------------------------------------------------------------
(* The datagram programs, over IPv4 and over Unix sockets: types and bind. *)

SocketFile == {"unix_dgram_server", "unix_dgram_client"}

(* A program between its unlink and its bind finds no file, or another     *)
(* process bound it meanwhile.                                             *)
FileFree(u) ==
  /\ dpc[u] = "bind" => file[Port(u)] = Nobody \/ raced[u]
  /\ dpc[u] = "nobind" => raced[u]

DgTypes ==
  /\ dpc \in [DgProc -> Place]
  /\ file \in [SocketFile -> DgProc \cup {Nobody}]
  /\ \A f \in SocketFile : file[f] # Nobody => Port(file[f]) = f
  /\ udpPort \in [DgClient -> DgPort \cup {"none"}]
  /\ net \subseteq Dgram /\ (Inet \/ net = {}) /\ doubled \in 0 .. MaxDoubled
  /\ inbox \in [DgProc -> Seq(Dgram)] /\ \A u \in DgProc : Len(inbox[u]) <= MaxInbox
  /\ asker \in [DgServer -> Dgram \cup {NoDgram}]
  /\ \A s \in DgServer : dpc[s] = "reply" => asker[s] \in Dgram
  /\ got \in [DgClient -> DgClient \cup {Nobody}]
  /\ raced \in [DgProc -> BOOLEAN] /\ mishap \in BOOLEAN
  /\ \A u \in DgProc : FileFree(u)

LEMMA DgTypesStart == DgInit => DgTypes
<1> SUFFICES ASSUME DgInit PROVE DgTypes
  OBVIOUS
<1> DEFINE q == <<>>
<1>1. q \in Seq(Dgram) /\ Len(q) = 0
  OBVIOUS
<1>2. /\ inbox \in [DgProc -> Seq(Dgram)] /\ \A u \in DgProc : Len(inbox[u]) <= MaxInbox
  <2>1. inbox = [u \in DgProc |-> q] /\ 0 <= MaxInbox
    BY DgAssumption DEF DgInit
  <2> HIDE DEF q
  <2> QED BY <1>1, <2>1
<1>3. /\ net = {} /\ raced \in [DgProc -> BOOLEAN] /\ mishap \in BOOLEAN
      /\ udpPort \in [DgClient -> DgPort \cup {"none"}]
  BY DEF DgInit
<1>8. doubled \in 0 .. MaxDoubled
  BY DgAssumption DEF DgInit
<1>4. /\ dpc \in [DgProc -> Place] /\ \A u \in DgProc : dpc[u] = "start"
  BY DEF DgInit, Place
<1>5. file \in [SocketFile -> DgProc \cup {Nobody}] /\ \A f \in SocketFile : file[f] = Nobody
  BY DEF DgInit, SocketFile
<1>6. /\ asker \in [DgServer -> Dgram \cup {NoDgram}] /\ got \in [DgClient -> DgClient \cup {Nobody}]
      /\ \A s \in DgServer : dpc[s] # "reply"
  BY <1>4 DEF DgInit, DgProc
<1>7. \A u \in DgProc : FileFree(u)
  BY <1>4 DEF FileFree
<1> QED BY <1>2, <1>3, <1>4, <1>5, <1>6, <1>7, <1>8 DEF DgTypes

(* A datagram that finds room keeps the inboxes right, and so does one     *)
(* that is taken, and a process that ends.                                 *)
LEMMA InboxRight ==
  ASSUME DgTypes, NEW u \in DgProc,
         \/ \E d \in Dgram : Arrives(u, d)
         \/ inbox[u] # <<>> /\ inbox' = [inbox EXCEPT ![u] = Tail(@)]
         \/ inbox' = [inbox EXCEPT ![u] = <<>>]
  PROVE  inbox' \in [DgProc -> Seq(Dgram)] /\ \A v \in DgProc : Len(inbox'[v]) <= MaxInbox
<1>1. PICK q \in Seq(Dgram) : inbox' = [inbox EXCEPT ![u] = q] /\ Len(q) <= MaxInbox
  <2>1. inbox[u] \in Seq(Dgram) /\ Len(inbox[u]) <= MaxInbox /\ MaxInbox \in Nat
    BY DgAssumption DEF DgTypes
  <2>2. ASSUME NEW d \in Dgram, Arrives(u, d)
        PROVE  \E q \in Seq(Dgram) : inbox' = [inbox EXCEPT ![u] = q] /\ Len(q) <= MaxInbox
    <3> DEFINE q == Append(inbox[u], d)
    <3>1. q \in Seq(Dgram) /\ Len(q) = Len(inbox[u]) + 1
      BY <2>1
    <3>2. inbox' = [inbox EXCEPT ![u] = q] /\ Len(inbox[u]) < MaxInbox /\ Len(inbox[u]) \in Nat
      BY <2>1, <2>2 DEF Arrives
    <3>3. Len(q) <= MaxInbox
      BY <2>1, <3>1, <3>2
    <3> HIDE DEF q
    <3> QED BY <3>1, <3>2, <3>3
  <2>3. CASE inbox[u] # <<>> /\ inbox' = [inbox EXCEPT ![u] = Tail(@)]
    <3> DEFINE q == Tail(inbox[u])
    <3>1. q \in Seq(Dgram) /\ Len(q) = Len(inbox[u]) - 1
      BY <2>1, <2>3
    <3>2. inbox' = [inbox EXCEPT ![u] = q] /\ Len(inbox[u]) \in Nat
      BY <2>1, <2>3
    <3>3. Len(q) <= MaxInbox
      BY <2>1, <3>1, <3>2
    <3> HIDE DEF q
    <3> QED BY <3>1, <3>2, <3>3
  <2>4. <<>> \in Seq(Dgram) /\ Len(<<>>) <= MaxInbox
    BY <2>1
  <2> QED BY <2>2, <2>3, <2>4
<1> QED BY <1>1 DEF DgTypes

(* What one process does beside the files.                                 *)
LEMMA StepTypes ==
  ASSUME DgTypes, NEW u \in DgProc, NEW l \in Place \ {"bind", "nobind"},
         dpc' = [dpc EXCEPT ![u] = l], UNCHANGED <<file, raced, family, doubled>>,
         udpPort' \in [DgClient -> DgPort \cup {"none"}],
         net' \subseteq Dgram, Inet \/ net' = {}, mishap' \in BOOLEAN,
         inbox' \in [DgProc -> Seq(Dgram)], \A v \in DgProc : Len(inbox'[v]) <= MaxInbox,
         asker' \in [DgServer -> Dgram \cup {NoDgram}],
         \A s \in DgServer : asker'[s] = asker[s] \/ s = u,
         u \in DgServer /\ l = "reply" => asker'[u] \in Dgram,
         got' \in [DgClient -> DgClient \cup {Nobody}]
  PROVE  DgTypes'
<1>1. /\ dpc' \in [DgProc -> Place] /\ dpc'[u] = l
      /\ \A v \in DgProc : v # u => dpc'[v] = dpc[v]
  BY DEF DgTypes
<1>2. \A v \in DgProc : FileFree(v)'
  BY <1>1 DEF DgTypes, FileFree, Port
<1>3. \A s \in DgServer : dpc'[s] = "reply" => asker'[s] \in Dgram
  BY <1>1 DEF DgTypes, DgProc
<1>4. Inet' <=> Inet
  BY DEF Inet
<1>5. \A f \in SocketFile : file'[f] # Nobody => Port(file'[f]) = f
  BY DEF DgTypes
<1> QED BY <1>1, <1>2, <1>3, <1>4, <1>5 DEF DgTypes

LEMMA NetworkTypes == DgTypes /\ Network => DgTypes'
<1> SUFFICES ASSUME DgTypes, Network PROVE DgTypes'
  OBVIOUS
<1>1. /\ UNCHANGED <<family, udpPort, dpc, file, asker, got, raced>> /\ net' \subseteq net
      /\ mishap' \in BOOLEAN
  BY DEF Network, DgTypes
<1>5. doubled' \in 0 .. MaxDoubled
  <2>1. doubled \in 0 .. MaxDoubled /\ MaxDoubled \in Nat
    BY DgAssumption DEF DgTypes
  <2>2. doubled' = doubled \/ (doubled < MaxDoubled /\ doubled' = doubled + 1)
    BY DEF Network
  <2> QED BY <2>1, <2>2
<1>2. inbox' \in [DgProc -> Seq(Dgram)] /\ \A v \in DgProc : Len(inbox'[v]) <= MaxInbox
  <2>1. CASE UNCHANGED inbox
    BY <2>1 DEF DgTypes
  <2>2. CASE ~UNCHANGED inbox
    <3>1. PICK d \in net : \E u \in DgProc : Arrives(u, d)
      BY <2>2 DEF Network
    <3> QED BY <3>1, InboxRight DEF DgTypes
  <2> QED BY <2>1, <2>2
<1>3. (\A v \in DgProc : FileFree(v)') /\ (Inet' <=> Inet)
  BY <1>1 DEF DgTypes, FileFree, Inet, Port
<1>4. \A f \in SocketFile : file'[f] # Nobody => Port(file'[f]) = f
  BY <1>1 DEF DgTypes
<1> QED BY <1>1, <1>2, <1>3, <1>4, <1>5 DEF DgTypes

LEMMA UnlinkTypes ==
  ASSUME DgTypes, NEW u \in DgProc, UnlinkFile(u)
  PROVE  DgTypes'
<1>1. /\ dpc' = [dpc EXCEPT ![u] = "bind"] /\ file' = [file EXCEPT ![Port(u)] = Nobody]
      /\ raced' = [raced EXCEPT ![u] = FALSE] /\ mishap' \in BOOLEAN /\ Port(u) \in SocketFile
      /\ UNCHANGED <<family, udpPort, doubled, net, inbox, asker, got>>
  BY DEF UnlinkFile, Does, Port, SocketFile, DgTypes
<1>2. /\ dpc' \in [DgProc -> Place] /\ file' \in [SocketFile -> DgProc \cup {Nobody}]
      /\ raced' \in [DgProc -> BOOLEAN]
  BY <1>1 DEF DgTypes, Place
<1>3. \A v \in DgProc : FileFree(v)'
  BY <1>1, <1>2 DEF DgTypes, FileFree, Port
<1>4. \A f \in SocketFile : file'[f] # Nobody => Port(file'[f]) = f
  BY <1>1 DEF DgTypes
<1>5. \A s \in DgServer : dpc'[s] = "reply" => asker'[s] \in Dgram
  BY <1>1, <1>2 DEF DgTypes, DgProc
<1> QED BY <1>1, <1>2, <1>3, <1>4, <1>5 DEF DgTypes, Inet

LEMMA BindFileTypes ==
  ASSUME DgTypes, NEW u \in DgProc, BindFile(u)
  PROVE  DgTypes'
<1>1. PICK l \in {"recv", "send", "nobind"} : dpc' = [dpc EXCEPT ![u] = l]
  BY DEF BindFile, Does
<1>2. /\ dpc[u] = "bind" /\ UNCHANGED <<family, udpPort, doubled, net, inbox, asker, got, mishap>>
      /\ Port(u) \in SocketFile
  BY DEF BindFile, Does, Port, SocketFile
<1>3. /\ dpc' \in [DgProc -> Place] /\ dpc'[u] = l
      /\ \A v \in DgProc : v # u => dpc'[v] = dpc[v]
  BY <1>1 DEF DgTypes, Place
<1>4. \A s \in DgServer : dpc'[s] = "reply" => asker'[s] \in Dgram
  BY <1>2, <1>3 DEF DgTypes, DgProc
<1>5. /\ file' \in [SocketFile -> DgProc \cup {Nobody}] /\ raced' \in [DgProc -> BOOLEAN]
      /\ \A f \in SocketFile : file'[f] # Nobody => Port(file'[f]) = f
      /\ \A v \in DgProc : FileFree(v)'
  <2>1. CASE file[Port(u)] = Nobody
    <3>1. /\ file' = [file EXCEPT ![Port(u)] = u] /\ l # "nobind"
          /\ raced' = [v \in DgProc |-> raced[v] \/ (v # u /\ Port(v) = Port(u))]
      BY <1>1, <1>2, <2>1 DEF BindFile, Does, DgTypes
    <3>2. file' \in [SocketFile -> DgProc \cup {Nobody}] /\ raced' \in [DgProc -> BOOLEAN]
      BY <3>1 DEF DgTypes
    <3>3. \A f \in SocketFile : file'[f] # Nobody => Port(file'[f]) = f
      BY <1>2, <3>1 DEF DgTypes
    <3>4. ASSUME NEW v \in DgProc PROVE FileFree(v)'
      <4>1. FileFree(v) /\ (raced'[v] <=> raced[v] \/ (v # u /\ Port(v) = Port(u)))
        BY <3>1 DEF DgTypes
      <4>2. CASE v = u
        BY <1>1, <1>3, <3>1, <4>2 DEF FileFree
      <4>3. CASE v # u /\ Port(v) # Port(u)
        <5>1. file'[Port(v)] = file[Port(v)] /\ (Port(v))' = Port(v)
          BY <3>1, <4>3 DEF DgTypes, Port, SocketFile
        <5> QED BY <1>3, <4>1, <4>3, <5>1 DEF FileFree
      <4>4. CASE v # u /\ Port(v) = Port(u)
        BY <4>1, <4>4 DEF FileFree
      <4> QED BY <4>2, <4>3, <4>4
    <3> QED BY <3>2, <3>3, <3>4
  <2>2. CASE file[Port(u)] # Nobody
    <3>1. UNCHANGED <<file, raced>> /\ raced[u]
      BY <1>2, <2>2 DEF BindFile, DgTypes, FileFree
    <3>2. \A v \in DgProc : FileFree(v)'
      BY <1>1, <1>3, <3>1 DEF DgTypes, FileFree, Port
    <3> QED BY <3>1, <3>2 DEF DgTypes
  <2> QED BY <2>1, <2>2
<1> QED BY <1>2, <1>3, <1>4, <1>5 DEF DgTypes, Inet

LEMMA CloseClientTypes ==
  ASSUME DgTypes, NEW c \in DgClient, CloseClient(c)
  PROVE  DgTypes'
<1>1. /\ dpc' = [dpc EXCEPT ![c] = "done"] /\ mishap' \in BOOLEAN /\ c \in DgProc
      /\ UNCHANGED <<family, udpPort, doubled, net, inbox, asker, got, raced>>
      /\ \/ UNCHANGED file
         \/ file' = [file EXCEPT !["unix_dgram_client"] = Nobody]
  BY DEF CloseClient, Does, DgProc, DgTypes
<1>2. /\ dpc' \in [DgProc -> Place] /\ file' \in [SocketFile -> DgProc \cup {Nobody}]
      /\ \A f \in SocketFile : file'[f] = file[f] \/ file'[f] = Nobody
      /\ \A v \in DgProc : Port(v) \in SocketFile
  BY <1>1 DEF DgTypes, Place, SocketFile, Port
<1>3. /\ \A v \in DgProc : FileFree(v)'
      /\ \A f \in SocketFile : file'[f] # Nobody => Port(file'[f]) = f
  BY <1>1, <1>2 DEF DgTypes, FileFree, Port
<1>4. \A s \in DgServer : dpc'[s] = "reply" => asker'[s] \in Dgram
  BY <1>1, <1>2 DEF DgTypes, DgProc
<1> QED BY <1>1, <1>2, <1>3, <1>4 DEF DgTypes, Inet

LEMMA SendsTypes ==
  ASSUME DgTypes, NEW u \in DgProc, (u \in DgClient /\ SendHello(u)) \/ (u \in DgServer /\ Reply(u))
  PROVE  DgTypes'
<1>1. CASE u \in DgClient /\ SendHello(u)
  <2>1. PICK l \in {"recv", "failed"} : dpc' = [dpc EXCEPT ![u] = l]
    BY <1>1 DEF SendHello, Does
  <2>2. UNCHANGED <<family, doubled, file, asker, got, raced, mishap>>
    BY <1>1 DEF SendHello
  <2>3. CASE Inet
    <3>1. PICK p \in DgPort :
            /\ net' = net \cup {[to |-> "server", from |-> p, of |-> u]} /\ UNCHANGED inbox
            /\ udpPort' = [udpPort EXCEPT ![u] = p]
      BY <1>1, <2>3 DEF SendHello, Leaves
    <3>2. [to |-> "server", from |-> p, of |-> u] \in Dgram
      BY <1>1 DEF Dgram, Address
    <3>3. udpPort' \in [DgClient -> DgPort \cup {"none"}]
      BY <1>1, <3>1 DEF DgTypes
    <3> QED BY <2>1, <2>2, <2>3, <3>1, <3>2, <3>3, StepTypes DEF DgTypes, Place
  <2>4. CASE ~Inet
    <3>1. [to |-> "server", from |-> "unix_dgram_client", of |-> u] \in Dgram
      BY <1>1 DEF Dgram, Address
    <3>2. UNCHANGED <<udpPort, net>> /\ \/ UNCHANGED inbox
                                        \/ \E s \in DgProc : \E d \in Dgram : Arrives(s, d)
      BY <1>1, <2>4, <3>1 DEF SendHello, DgTypes, SocketFile
    <3>3. inbox' \in [DgProc -> Seq(Dgram)] /\ \A v \in DgProc : Len(inbox'[v]) <= MaxInbox
      BY <3>2, InboxRight DEF DgTypes
    <3> QED BY <2>1, <2>2, <2>4, <3>2, <3>3, StepTypes DEF DgTypes, Place
  <2> QED BY <2>3, <2>4
<1>2. CASE u \in DgServer /\ Reply(u)
  <2>1. /\ dpc[u] = "reply" /\ dpc' = [dpc EXCEPT ![u] = "recv"] /\ asker[u] \in Dgram
        /\ asker' = [asker EXCEPT ![u] = NoDgram] /\ asker[u].of \in DgClient
        /\ UNCHANGED <<family, udpPort, doubled, file, got, raced, mishap>>
    BY <1>2 DEF Reply, Does, DgTypes, Dgram
  <2>2. CASE Inet
    <3>1. /\ net' = net \cup {[to |-> asker[u].from, from |-> "server", of |-> asker[u].of]}
          /\ UNCHANGED inbox
      BY <1>2, <2>2 DEF Reply, AnswerTo, Leaves
    <3>2. [to |-> asker[u].from, from |-> "server", of |-> asker[u].of] \in Dgram
      BY <2>1 DEF Dgram, Address
    <3> QED BY <2>1, <2>2, <3>1, <3>2, StepTypes DEF DgTypes, Place
  <2>3. CASE ~Inet
    <3>1. [to |-> "unix_dgram_client", from |-> "server", of |-> asker[u].of] \in Dgram
      BY <2>1 DEF Dgram, Address
    <3>2. UNCHANGED net /\ \/ UNCHANGED inbox
                           \/ \E v \in DgProc : \E d \in Dgram : Arrives(v, d)
      BY <1>2, <2>3, <3>1 DEF Reply, AnswerTo, DgTypes, SocketFile
    <3>3. inbox' \in [DgProc -> Seq(Dgram)] /\ \A v \in DgProc : Len(inbox'[v]) <= MaxInbox
      BY <3>2, InboxRight DEF DgTypes
    <3> QED BY <2>1, <2>3, <3>2, <3>3, StepTypes DEF DgTypes, Place
  <2> QED BY <2>2, <2>3
<1> QED BY <1>1, <1>2

LEMMA ReceivesTypes ==
  ASSUME DgTypes, NEW u \in DgProc,
         (u \in DgClient /\ RecvAnswer(u)) \/ (u \in DgServer /\ RecvHello(u))
  PROVE  DgTypes'
<1>1. inbox[u] # <<>> /\ inbox' = [inbox EXCEPT ![u] = Tail(@)] /\ inbox[u] \in Seq(Dgram)
  BY DEF RecvAnswer, RecvHello, DgTypes
<1>2. Head(inbox[u]) \in Dgram /\ Head(inbox[u]).of \in DgClient
  <2>1. Head(inbox[u]) \in Dgram
    BY <1>1
  <2> QED BY <2>1 DEF Dgram
<1>3. inbox' \in [DgProc -> Seq(Dgram)] /\ \A v \in DgProc : Len(inbox'[v]) <= MaxInbox
  BY <1>1, InboxRight
<1>4. CASE u \in DgClient /\ RecvAnswer(u)
  BY <1>2, <1>3, <1>4, StepTypes DEF RecvAnswer, Does, DgTypes, Place
<1>5. CASE u \in DgServer /\ RecvHello(u)
  BY <1>2, <1>3, <1>5, StepTypes DEF RecvHello, Does, DgTypes, Place
<1> QED BY <1>4, <1>5

LEMMA EndsTypes ==
  ASSUME DgTypes, NEW u \in DgProc,
         DgFails(u) \/ DgKilled(u) \/ (u \in DgServer /\ BindPort(u))
  PROVE  DgTypes'
<1>1. PICK l \in {"failed", "killed", "recv"} : dpc' = [dpc EXCEPT ![u] = l]
  BY DEF DgFails, DgKilled, BindPort, Does
<1>2. inbox' \in [DgProc -> Seq(Dgram)] /\ \A v \in DgProc : Len(inbox'[v]) <= MaxInbox
  <2>1. UNCHANGED inbox \/ inbox' = [inbox EXCEPT ![u] = <<>>]
    BY DEF DgFails, DgKilled, BindPort
  <2> QED BY <2>1, InboxRight DEF DgTypes
<1>3. /\ asker' \in [DgServer -> Dgram \cup {NoDgram}] /\ mishap' \in BOOLEAN
      /\ \A s \in DgServer : asker'[s] = asker[s] \/ s = u
      /\ UNCHANGED <<family, udpPort, doubled, file, net, got, raced>>
  BY DEF DgFails, DgKilled, BindPort, DgTypes
<1> QED BY <1>1, <1>2, <1>3, StepTypes DEF DgTypes, Place

LEMMA DgTypesKeep == DgTypes /\ [DgNext]_dgVars => DgTypes'
<1> SUFFICES ASSUME DgTypes, [DgNext]_dgVars PROVE DgTypes'
  OBVIOUS
<1> USE DEF DgProc
<1>1. ASSUME NEW c \in DgClient, ClientStep(c) PROVE DgTypes'
  BY <1>1, UnlinkTypes, BindFileTypes, SendsTypes, ReceivesTypes, CloseClientTypes DEF ClientStep
<1>2. ASSUME NEW s \in DgServer, UnlinkFile(s) \/ BindPort(s) \/ ServerStep(s) PROVE DgTypes'
  BY <1>2, UnlinkTypes, BindFileTypes, SendsTypes, ReceivesTypes, EndsTypes DEF ServerStep
<1>3. CASE UNCHANGED dgVars
  BY <1>3 DEF dgVars, DgTypes, FileFree, Inet, Port
<1> QED BY <1>1, <1>2, <1>3, NetworkTypes, EndsTypes DEF DgNext

(* Type correctness of the datagram programs, and a bind fails only when   *)
(* another process bound the file after the unlink.                        *)
LEMMA DgHolds == DgSpec => [](DgTypeOK /\ DgBindsUnlessRaced)
<1>1. DgTypes => DgTypeOK
  BY DEF DgTypes, DgTypeOK, Place, SocketFile
<1>2. DgTypes => DgBindsUnlessRaced
  BY DEF DgTypes, DgBindsUnlessRaced, FileFree
<1> QED BY DgTypesStart, DgTypesKeep, <1>1, <1>2, PTL DEF DgSpec
-----------------------------------------------------------------------------
(* The stream programs                                                     *)

(* A server that accepts no more: it has ended, or closed both sockets.    *)
Over == Ended \cup {"unlink"}
StPlace == Ended \cup {"start", "bind", "listen", "accept", "write", "close", "read", "unlink",
                       "spin"}

StTypes ==
  /\ spc \in [StProc -> StPlace]
  /\ sock \in StServer \cup {NoOne} /\ timewait \in BOOLEAN
  /\ queue \in [StServer -> Seq(StClient)] /\ serves \in [StServer -> StClient \cup {NoOne}]
  /\ server \in [StClient -> StServer \cup {NoOne}]
  /\ up \subseteq StClient /\ down \subseteq StClient
  /\ left \subseteq StClient /\ cut \subseteq StClient /\ reset \subseteq StClient
  /\ heard \in [StClient -> {"none", "hello", "nothing"}]
  /\ outrun \in [StServer -> BOOLEAN]

(* A client that waits in a backlog waits there once, is connected to that *)
(* server and not served yet, and nothing has been written to it.          *)
BacklogRight(s) ==
  /\ Len(queue[s]) <= Backlog /\ IsInjective(queue[s])
  /\ \A c \in ToSet(queue[s]) : /\ server[c] = s /\ serves[s] # c /\ c \notin down \cup cut
                                /\ spc[c] # "start"

(* The client that a server serves is connected to it, and over IPv4 the   *)
(* hello is written when the connection is closed.                         *)
ServesRight(s) ==
  /\ serves[s] # NoOne => server[serves[s]] = s /\ spc[serves[s]] # "start"
  /\ spc[s] \in {"read", "write", "close"} => serves[s] # NoOne
  /\ ByPort /\ spc[s] = "close" => serves[s] \in down

(* A server between its unlink and its bind finds no file, or another one  *)
(* bound it meanwhile.                                                     *)
PathFree(s) ==
  ~ByPort => /\ spc[s] = "bind" => sock = NoOne \/ outrun[s]
             /\ spc[s] = "nobind" => outrun[s]

(* A connection that was closed before anything was written to it, and a   *)
(* client that heard nothing, have lost their server.                      *)
LostWithServer(c) ==
  /\ spc[c] = "start" => c \notin down \cup cut /\ heard[c] = "none"
  /\ c \in cut \ down => server[c] \in StServer /\ spc[server[c]] \in Over
  /\ heard[c] = "nothing" => server[c] \in StServer /\ spc[server[c]] \in Over

StInv ==
  /\ StTypes
  /\ \A s \in StServer : BacklogRight(s) /\ ServesRight(s) /\ PathFree(s)
  /\ \A c \in StClient : LostWithServer(c)

LEMMA StStarts == StInit => StInv
<1> SUFFICES ASSUME StInit PROVE StInv
  OBVIOUS
<1> DEFINE q == <<>>
<1>1. q \in Seq(StClient) /\ Len(q) = 0 /\ IsInjective(q) /\ ToSet(q) = {}
  BY DEF IsInjective, ToSet
<1>2. queue = [s \in StServer |-> q]
  BY DEF StInit
<1> HIDE DEF q
<1>3. queue \in [StServer -> Seq(StClient)] /\ \A s \in StServer : queue[s] = q
  BY <1>1, <1>2
<1>4. /\ timewait \in BOOLEAN /\ outrun \in [StServer -> BOOLEAN]
      /\ heard \in [StClient -> {"none", "hello", "nothing"}]
      /\ \A c \in StClient : heard[c] = "none"
  BY DEF StInit
<1>5. spc \in [StProc -> StPlace] /\ \A u \in StProc : spc[u] = "start"
  BY DEF StInit, StPlace
<1>6. /\ serves \in [StServer -> StClient \cup {NoOne}] /\ \A s \in StServer : serves[s] = NoOne
      /\ server \in [StClient -> StServer \cup {NoOne}] /\ sock = NoOne
      /\ up = {} /\ down = {} /\ left = {} /\ cut = {} /\ reset = {}
  BY DEF StInit
<1>7. StTypes
  BY <1>3, <1>4, <1>5, <1>6 DEF StTypes
<1>8. \A s \in StServer : BacklogRight(s)
  <2>1. 0 <= Backlog
    BY StAssumption
  <2> QED BY <1>1, <1>3, <2>1 DEF BacklogRight
<1>9. \A s \in StServer : ServesRight(s) /\ PathFree(s)
  BY <1>5, <1>6 DEF ServesRight, PathFree, StProc
<1>10. \A c \in StClient : LostWithServer(c)
  BY <1>4, <1>5, <1>6 DEF LostWithServer
<1> QED BY <1>7, <1>8, <1>9, <1>10 DEF StInv

(* What a step that ends no client's wait leaves true of the clients.      *)
LEMMA ClientsStill ==
  ASSUME StInv, StTypes', UNCHANGED <<server, heard>>, down \subseteq down',
         \A c \in StClient : c \in cut' \ down' =>
           c \in cut \/ (server[c] \in StServer /\ spc'[server[c]] \in Over),
         \A s \in StServer : spc[s] \in Over => spc'[s] \in Over,
         \A c \in StClient : spc'[c] = "start" =>
           spc[c] = "start" /\ (c \in down' \cup cut' => c \in down \cup cut)
  PROVE  \A c \in StClient : LostWithServer(c)'
<1> SUFFICES ASSUME NEW c \in StClient PROVE LostWithServer(c)'
  OBVIOUS
<1>1. LostWithServer(c) /\ server'[c] = server[c] /\ heard'[c] = heard[c]
  BY DEF StInv
<1>2. spc'[c] = "start" => c \notin down' \cup cut' /\ heard'[c] = "none"
  BY <1>1 DEF LostWithServer
<1>3. c \in cut' \ down' => server'[c] \in StServer /\ spc'[server'[c]] \in Over
  BY <1>1 DEF LostWithServer
<1>4. heard'[c] = "nothing" => server'[c] \in StServer /\ spc'[server'[c]] \in Over
  BY <1>1 DEF LostWithServer
<1> QED BY <1>2, <1>3, <1>4 DEF LostWithServer

LEMMA PathsStill ==
  ASSUME StInv, UNCHANGED <<domain, outrun>>, sock' = sock \/ sock' = NoOne,
         \A t \in StServer : ~ByPort /\ spc'[t] \in {"bind", "nobind"} => spc'[t] = spc[t]
  PROVE  \A t \in StServer : PathFree(t)'
BY DEF StInv, PathFree, ByPort

(* Backlogs that only lose everything, when nobody in them is touched.     *)
LEMMA BacklogsStill ==
  ASSUME StInv, UNCHANGED <<server, serves>>,
         \A t \in StServer : queue'[t] = queue[t] \/ queue'[t] = <<>>,
         \A t \in StServer : \A c \in ToSet(queue'[t]) : c \notin down' \cup cut',
         \A c \in StClient : spc'[c] = "start" => spc[c] = "start"
  PROVE  \A t \in StServer : BacklogRight(t)'
<1> SUFFICES ASSUME NEW t \in StServer PROVE BacklogRight(t)'
  OBVIOUS
<1>1. BacklogRight(t) /\ queue[t] \in Seq(StClient) /\ serves'[t] = serves[t]
  BY DEF StInv, StTypes
<1>2. CASE queue'[t] = queue[t]
  <2>1. /\ Len(queue'[t]) <= Backlog /\ IsInjective(queue'[t])
        /\ ToSet(queue'[t]) = ToSet(queue[t]) /\ ToSet(queue[t]) \subseteq StClient
    BY <1>1, <1>2 DEF BacklogRight, ToSet
  <2> QED BY <1>1, <2>1 DEF BacklogRight
<1>3. CASE queue'[t] = <<>>
  <2> DEFINE q == <<>>
  <2>1. Len(q) = 0 /\ IsInjective(q) /\ ToSet(q) = {} /\ 0 <= Backlog
    BY StAssumption DEF IsInjective, ToSet
  <2>2. queue'[t] = q
    BY <1>3
  <2> HIDE DEF q
  <2> QED BY <2>1, <2>2 DEF BacklogRight
<1> QED BY <1>1, <1>2, <1>3 DEF StInv

(* A client waits in one backlog at most, and not while it is served.      *)
LEMMA WaitsOnce ==
  ASSUME StInv, NEW s \in StServer, NEW t \in StServer, NEW c \in ToSet(queue[t]),
         c = serves[s] \/ c \in ToSet(queue[s])
  PROVE  t = s /\ c # serves[s] /\ c \in StClient
<1>1. BacklogRight(t) /\ BacklogRight(s) /\ ServesRight(s) /\ queue[t] \in Seq(StClient)
  BY DEF StInv, StTypes
<1>2. c \in StClient /\ c # NoOne
  BY <1>1, StAssumption DEF ToSet, StProc
<1>3. server[c] = t /\ server[c] = s
  BY <1>1, <1>2 DEF BacklogRight, ServesRight
<1> QED BY <1>1, <1>2, <1>3 DEF BacklogRight

(* A server moves, and perhaps writes to the client it serves.             *)
LEMMA ServerMoves ==
  ASSUME StInv, NEW s \in StServer, NEW l \in StPlace \ {"start"},
         spc' = [spc EXCEPT ![s] = l], spc[s] \in Over => l \in Over,
         UNCHANGED <<domain, queue, serves, server, heard, left, cut>>,
         StTypes', \A t \in StServer : PathFree(t)',
         down' = down \/ (serves[s] # NoOne /\ down' = down \cup {serves[s]}),
         l \in {"read", "write", "close"} => serves[s] # NoOne,
         ByPort /\ l = "close" => serves[s] \in down'
  PROVE  StInv'
<1>1. /\ \A u \in StProc : u # s => spc'[u] = spc[u]
      /\ spc'[s] = l /\ \A c \in StClient : c # s /\ spc'[c] = spc[c]
  BY StAssumption DEF StInv, StTypes, StProc
<1>2. \A t \in StServer : ToSet(queue'[t]) = ToSet(queue[t])
  OBVIOUS
<1>3. \A t \in StServer : \A c \in ToSet(queue'[t]) : c \notin down' \cup cut'
  <2> SUFFICES ASSUME NEW t \in StServer, NEW c \in ToSet(queue[t]) PROVE c \notin down' \cup cut'
    BY <1>2
  <2>1. c \notin down \cup cut
    BY DEF StInv, BacklogRight
  <2>2. c # serves[s]
    BY WaitsOnce
  <2> QED BY <2>1, <2>2
<1>4. \A t \in StServer : BacklogRight(t)'
  BY <1>1, <1>3, BacklogsStill
<1>5. \A t \in StServer : ServesRight(t)'
  <2> SUFFICES ASSUME NEW t \in StServer PROVE ServesRight(t)'
    OBVIOUS
  <2>1. ServesRight(t) /\ serves[t] \in StClient \cup {NoOne} /\ t \in StProc
    BY DEF StInv, StTypes, StProc
  <2>2. serves'[t] # NoOne => server'[serves'[t]] = t /\ spc'[serves'[t]] # "start"
    BY <1>1, <2>1 DEF ServesRight
  <2>3. CASE t = s
    BY <1>1, <2>2, <2>3 DEF ServesRight, ByPort
  <2>4. CASE t # s
    BY <1>1, <2>1, <2>2, <2>4 DEF ServesRight, ByPort
  <2> QED BY <2>3, <2>4
<1>6. \A c \in StClient : LostWithServer(c)'
  <2>1. \A t \in StServer : spc[t] \in Over => spc'[t] \in Over
    BY <1>1 DEF StProc
  <2>2. ASSUME NEW c \in StClient, spc'[c] = "start", c \in down' \cup cut' PROVE c \in down \cup cut
    <3>1. c # serves[s]
      BY <1>1, <2>2, StAssumption DEF StInv, ServesRight, StProc
    <3> QED BY <2>2, <3>1
  <2> QED BY <1>1, <2>1, <2>2, ClientsStill
<1> QED BY <1>4, <1>5, <1>6 DEF StInv

LEMMA QuietSteps ==
  ASSUME StInv, NEW s \in StServer,
         UnlinkPath(s) \/ BindPath(s) \/ BindInet(s) \/ Listen(s) \/ ReadHello(s) \/ UnlinkEnd(s)
  PROVE  StInv'
<1>1. PICK l \in StPlace \ {"start"} :
        /\ spc' = [spc EXCEPT ![s] = l]
        /\ l = "bind" => ~ByPort /\ UnlinkPath(s)
        /\ l = "nobind" => (ByPort \/ (BindPath(s) /\ sock # NoOne /\ spc[s] = "bind"))
        /\ l = "write" => spc[s] = "read"
        /\ l \notin {"read", "sigpipe", "close"}
        /\ spc[s] \notin Ended /\ (spc[s] = "unlink" => l = "done")
  BY DEF UnlinkPath, BindPath, BindInet, Listen, ReadHello, UnlinkEnd, Goes, StPlace,
         Ended
<1>2. s \in StProc /\ spc' \in [StProc -> StPlace]
  BY <1>1 DEF StInv, StTypes, StProc
<1>3. /\ UNCHANGED <<domain, timewait, queue, serves, server, heard, left, cut, reset>>
      /\ up' \subseteq up
  BY DEF UnlinkPath, BindPath, BindInet, Listen, ReadHello, UnlinkEnd, linkVars,
         dataVars, endVars, addrVars
<1>4. l = "write" => serves[s] # NoOne
  BY <1>1 DEF StInv, StTypes, ServesRight
<1>5. down' = down
  BY DEF UnlinkPath, BindPath, BindInet, Listen, ReadHello, UnlinkEnd, linkVars, dataVars, endVars
<1>6. /\ sock' \in StServer \cup {NoOne} /\ outrun' \in [StServer -> BOOLEAN]
  BY DEF UnlinkPath, BindPath, BindInet, Listen, ReadHello, UnlinkEnd, addrVars,
         StInv, StTypes
<1>7. StTypes'
  BY <1>2, <1>3, <1>5, <1>6 DEF StInv, StTypes
<1>8. \A t \in StServer : PathFree(t)'
  <2>1. ASSUME NEW t \in StServer PROVE PathFree(t) /\ t \in StProc /\ (t # s => spc'[t] = spc[t])
    BY <1>1, <1>2 DEF StInv, StTypes, StProc
  <2>2. CASE UnlinkPath(s)
    <3>1. /\ sock' = NoOne /\ domain' = domain /\ spc'[s] = "bind"
          /\ \A t \in StServer : t # s => outrun'[t] = outrun[t]
      BY <1>2, <2>2 DEF UnlinkPath, Goes, StInv, StTypes
    <3> QED BY <2>1, <3>1 DEF PathFree, ByPort
  <2>3. CASE BindPath(s)
    <3>1. CASE sock = NoOne
      <4>1. /\ outrun' = [u \in StServer |-> outrun[u] \/ u # s] /\ spc'[s] = "listen"
            /\ domain' = domain
        BY <1>2, <2>3, <3>1 DEF BindPath, Goes, StInv, StTypes
      <4> QED BY <2>1, <4>1 DEF PathFree, ByPort
    <3>2. CASE sock # NoOne
      <4>1. UNCHANGED <<sock, outrun, domain>> /\ spc[s] = "bind" /\ spc'[s] = "nobind"
        BY <1>2, <2>3, <3>2 DEF BindPath, Goes, StInv, StTypes
      <4> QED BY <2>1, <3>2, <4>1 DEF PathFree, ByPort
    <3> QED BY <3>1, <3>2
  <2>4. CASE ~UnlinkPath(s) /\ ~BindPath(s)
    <3>1. /\ UNCHANGED outrun /\ sock' \in {sock, NoOne}
      BY <2>4 DEF BindInet, Listen, ReadHello, UnlinkEnd, addrVars
    <3>2. \A t \in StServer : ~ByPort /\ spc'[t] \in {"bind", "nobind"} => spc'[t] = spc[t]
      BY <1>1, <1>2, <2>1, <2>4 DEF StInv, StTypes
    <3> QED BY <1>3, <3>1, <3>2, PathsStill
  <2> QED BY <2>2, <2>3, <2>4
<1>9. spc[s] \in Over => l \in Over
  BY <1>1 DEF Over, Ended
<1> QED BY <1>1, <1>3, <1>4, <1>5, <1>7, <1>8, <1>9, ServerMoves

(* The end of a server, or the close of both its sockets.                  *)
LEMMA HangupKeeps ==
  ASSUME StInv, NEW s \in StServer, NEW l \in Over \ {"nobind"}, spc' = [spc EXCEPT ![s] = l],
         Hangup(s),
         UNCHANGED <<domain, sock, outrun, serves, server, up, down, heard>>, timewait' \in BOOLEAN
  PROVE  StInv'
<1>1. /\ cut' = cut \cup ({serves[s]} \ {NoOne}) \cup ToSet(queue[s])
      /\ queue' = [queue EXCEPT ![s] = <<>>] /\ UNCHANGED <<left, reset>>
  BY StAssumption DEF Hangup
<1> DEFINE q == <<>>
<1>2. q \in Seq(StClient) /\ ToSet(q) = {} /\ queue' = [queue EXCEPT ![s] = q]
  BY <1>1 DEF ToSet
<1>3. queue' \in [StServer -> Seq(StClient)] /\ ToSet(queue'[s]) = {}
      /\ \A t \in StServer : queue'[t] = queue[t] \/ queue'[t] = <<>>
  <2>1. queue'[s] = q /\ q = <<>> /\ \A t \in StServer : t # s => queue'[t] = queue[t]
    BY <1>2 DEF StInv, StTypes
  <2> HIDE DEF q
  <2> QED BY <1>2, <2>1 DEF StInv, StTypes
<1> HIDE DEF q
<1>4. /\ l \in StPlace /\ spc' \in [StProc -> StPlace] /\ spc'[s] = l
      /\ \A u \in StProc : u # s => spc'[u] = spc[u]
      /\ \A c \in StClient : c # s /\ spc'[c] = spc[c]
  BY StAssumption DEF StInv, StTypes, StProc, Over, StPlace
<1>5. queue[s] \in Seq(StClient) /\ ToSet(queue[s]) \subseteq StClient
  BY DEF StInv, StTypes, ToSet
<1>6. StTypes'
  BY <1>1, <1>3, <1>4, <1>5 DEF StInv, StTypes
<1>7. \A t \in StServer : \A c \in ToSet(queue'[t]) : c \notin down' \cup cut'
  <2> SUFFICES ASSUME NEW t \in StServer, NEW c \in ToSet(queue'[t]) PROVE c \notin down' \cup cut'
    OBVIOUS
  <2>1. t # s /\ c \in ToSet(queue[t])
    BY <1>2, <1>3 DEF StInv, StTypes
  <2>2. c \notin down \cup cut
    BY <2>1 DEF StInv, BacklogRight
  <2>3. c # serves[s] /\ c \notin ToSet(queue[s])
    BY <2>1, WaitsOnce
  <2> QED BY <1>1, <2>2, <2>3
<1>8. \A t \in StServer : BacklogRight(t)'
  BY <1>3, <1>4, <1>7, BacklogsStill
<1>9. \A t \in StServer : ServesRight(t)'
  <2> SUFFICES ASSUME NEW t \in StServer PROVE ServesRight(t)'
    OBVIOUS
  <2>1. ServesRight(t) /\ serves[t] \in StClient \cup {NoOne} /\ t \in StProc
    BY DEF StInv, StTypes, StProc
  <2>2. l \notin {"read", "write", "close"}
    BY DEF Over, Ended
  <2> QED BY <1>4, <2>1, <2>2 DEF ServesRight, ByPort
<1>10. \A t \in StServer : PathFree(t)'
  <2>1. \A t \in StServer : ~ByPort /\ spc'[t] \in {"bind", "nobind"} => spc'[t] = spc[t]
    BY <1>4 DEF StProc, Over, Ended
  <2> QED BY <2>1, PathsStill
<1>11. \A c \in StClient : LostWithServer(c)'
  <2>1. \A t \in StServer : spc[t] \in Over => spc'[t] \in Over
    BY <1>4 DEF StProc
  <2>2. ASSUME NEW c \in StClient, c \in ToSet(queue[s]) \/ (c = serves[s] /\ serves[s] # NoOne)
        PROVE  server[c] = s /\ spc[c] # "start"
    BY <2>2 DEF StInv, BacklogRight, ServesRight
  <2>3. ASSUME NEW c \in StClient, c \in cut' \ down'
        PROVE  c \in cut \/ (server[c] \in StServer /\ spc'[server[c]] \in Over)
    BY <1>1, <1>4, <2>2, <2>3
  <2>4. ASSUME NEW c \in StClient, spc'[c] = "start", c \in down' \cup cut' PROVE c \in down \cup cut
    BY <1>1, <1>4, <2>2, <2>4
  <2> QED BY <1>4, <1>6, <2>1, <2>3, <2>4, ClientsStill
<1> QED BY <1>6, <1>8, <1>9, <1>10, <1>11 DEF StInv

LEMMA HangupSteps ==
  ASSUME StInv, NEW s \in StServer,
         ServerFails(s) \/ CloseBoth(s) \/ Answer(s) \/ WriteHello(s) \/ StKilled(s)
  PROVE  StInv'
<1>1. CASE ServerFails(s)
  BY <1>1, HangupKeeps DEF ServerFails, addrVars, dataVars, Over, Ended, StInv, StTypes
<1>2. CASE CloseBoth(s)
  BY <1>2, HangupKeeps DEF CloseBoth, Goes, addrVars, dataVars, Over, Ended, StInv, StTypes
<1>3. CASE StKilled(s)
  <2>1. timewait' \in BOOLEAN
    BY <1>3 DEF StKilled, StInv, StTypes
  <2> QED BY <1>3, <2>1, HangupKeeps DEF StKilled, dataVars, Over, Ended
<1>4. CASE Answer(s) \/ WriteHello(s)
  <2>1. CASE spc' = [spc EXCEPT ![s] = "sigpipe"]
    <3>1. /\ Hangup(s)
          /\ UNCHANGED <<domain, sock, timewait, outrun, serves, server, up, down, heard>>
      <4>1. /\ s \in StProc /\ spc'[s] = "sigpipe"
        BY <2>1 DEF StInv, StTypes, StProc
      <4>2. spc' # [spc EXCEPT ![s] = "close"]
        BY <4>1 DEF StInv, StTypes
      <4> QED BY <1>4, <4>2 DEF Answer, WriteHello, Goes, addrVars
    <3> QED BY <2>1, <3>1, HangupKeeps DEF Over, Ended, StInv, StTypes
  <2>2. CASE spc' # [spc EXCEPT ![s] = "sigpipe"]
    <3>1. /\ spc[s] = "write" /\ spc' = [spc EXCEPT ![s] = "close"]
          /\ down' = down \cup {serves[s]}
          /\ UNCHANGED <<domain, sock, timewait, outrun, queue, serves, server, up, heard>>
          /\ UNCHANGED <<left, cut, reset>>
      BY <1>4, <2>2 DEF Answer, WriteHello, Goes, addrVars, endVars
    <3>2. serves[s] # NoOne /\ serves[s] \in StClient /\ s \in StProc
      BY <3>1 DEF StInv, StTypes, ServesRight, StProc
    <3>3. spc' \in [StProc -> StPlace] /\ "close" \in StPlace
      BY <3>1, <3>2 DEF StInv, StTypes, StPlace
    <3>4. StTypes'
      BY <3>1, <3>2, <3>3 DEF StInv, StTypes
    <3>5. \A t \in StServer : ~ByPort /\ spc'[t] \in {"bind", "nobind"} => spc'[t] = spc[t]
      BY <3>1 DEF StInv, StTypes, StProc
    <3>6. \A t \in StServer : PathFree(t)'
      BY <3>1, <3>5, PathsStill
    <3> QED BY <3>1, <3>2, <3>3, <3>4, <3>6, ServerMoves DEF Over, Ended
  <2> QED BY <2>1, <2>2
<1> QED BY <1>1, <1>2, <1>3, <1>4

(* The first client of a backlog is taken out of it.                       *)
LEMMA TakenOut ==
  ASSUME NEW q \in Seq(StClient), q # <<>>, IsInjective(q)
  PROVE  /\ Tail(q) \in Seq(StClient) /\ IsInjective(Tail(q)) /\ Len(Tail(q)) <= Len(q)
         /\ Head(q) \in ToSet(q) /\ ToSet(Tail(q)) \subseteq ToSet(q) \ {Head(q)}
<1>1. /\ Tail(q) \in Seq(StClient) /\ Len(Tail(q)) = Len(q) - 1 /\ Len(q) \in Nat \ {0}
      /\ \A k \in 1 .. Len(Tail(q)) : Tail(q)[k] = q[k + 1]
      /\ Head(q) = q[1]
  OBVIOUS
<1>2. DOMAIN q = 1 .. Len(q) /\ DOMAIN Tail(q) = 1 .. Len(q) - 1
  BY <1>1
<1>3. IsInjective(Tail(q))
  BY <1>1, <1>2 DEF IsInjective
<1>4. ToSet(Tail(q)) \subseteq ToSet(q) \ {Head(q)}
  BY <1>1, <1>2 DEF IsInjective, ToSet
<1>5. Head(q) \in ToSet(q)
  BY <1>1, <1>2 DEF ToSet
<1> QED BY <1>1, <1>3, <1>4, <1>5

LEMMA AcceptKeeps ==
  ASSUME StInv, NEW s \in StServer, Accept(s)
  PROVE  StInv'
<1> DEFINE c == Head(queue[s])
           q == Tail(queue[s])
<1>1. /\ spc[s] = "accept" /\ serves' = [serves EXCEPT ![s] = c] /\ queue' = [queue EXCEPT ![s] = q]
      /\ queue[s] # <<>>
      /\ UNCHANGED <<domain, sock, timewait, outrun, server, up, down, heard, left, cut, reset>>
  BY DEF Accept, addrVars, dataVars, endVars, Goes
<1>2. PICK l \in {"read", "write"} : spc' = [spc EXCEPT ![s] = l]
  BY DEF Accept, Goes
<1>3. BacklogRight(s) /\ queue[s] \in Seq(StClient) /\ Len(queue[s]) \in Nat
  BY DEF StInv, StTypes
<1>4. /\ q \in Seq(StClient) /\ IsInjective(q) /\ Len(q) <= Len(queue[s]) /\ Len(q) \in Nat
      /\ c \in ToSet(queue[s]) /\ ToSet(q) \subseteq ToSet(queue[s]) \ {c}
  BY <1>1, <1>3, TakenOut DEF BacklogRight
<1> HIDE DEF c, q
<1>5. c \in StClient /\ c # NoOne /\ server[c] = s /\ spc[c] # "start" /\ c \notin down \cup cut
  BY <1>3, <1>4, StAssumption DEF BacklogRight, ToSet, StProc
<1>6. /\ l \in StPlace /\ spc' \in [StProc -> StPlace] /\ spc'[s] = l
      /\ \A u \in StProc : u # s => spc'[u] = spc[u]
      /\ \A d \in StClient : d # s /\ spc'[d] = spc[d]
  BY <1>2, StAssumption DEF StInv, StTypes, StProc, StPlace
<1>7. /\ queue' \in [StServer -> Seq(StClient)] /\ serves' \in [StServer -> StClient \cup {NoOne}]
      /\ queue'[s] = q /\ serves'[s] = c
      /\ \A t \in StServer : t # s => queue'[t] = queue[t] /\ serves'[t] = serves[t]
  BY <1>1, <1>4, <1>5 DEF StInv, StTypes
<1>8. StTypes'
  BY <1>1, <1>6, <1>7 DEF StInv, StTypes
<1>9. \A t \in StServer : BacklogRight(t)'
  <2> SUFFICES ASSUME NEW t \in StServer PROVE BacklogRight(t)'
    OBVIOUS
  <2>1. BacklogRight(t) /\ queue[t] \in Seq(StClient) /\ ToSet(queue[t]) \subseteq StClient
    BY DEF StInv, StTypes, ToSet
  <2>2. CASE t = s
    <3>1. Len(q) <= Backlog
      BY <1>3, <1>4, StAssumption DEF BacklogRight
    <3>2. \A d \in ToSet(q) : server[d] = s /\ d # c /\ d \notin down \cup cut /\ spc'[d] # "start"
      BY <1>3, <1>4, <1>6, <2>1, <2>2 DEF BacklogRight
    <3> QED BY <1>1, <1>4, <1>7, <2>2, <3>1, <3>2 DEF BacklogRight
  <2>3. CASE t # s
    BY <1>1, <1>6, <1>7, <2>1, <2>3 DEF BacklogRight
  <2> QED BY <2>2, <2>3
<1>10. \A t \in StServer : ServesRight(t)'
  <2> SUFFICES ASSUME NEW t \in StServer PROVE ServesRight(t)'
    OBVIOUS
  <2>1. ServesRight(t) /\ serves[t] \in StClient \cup {NoOne} /\ t \in StProc
    BY DEF StInv, StTypes, StProc
  <2> QED BY <1>1, <1>5, <1>6, <1>7, <2>1 DEF ServesRight, ByPort
<1>11. \A t \in StServer : PathFree(t)'
  <2>1. \A t \in StServer : ~ByPort /\ spc'[t] \in {"bind", "nobind"} => spc'[t] = spc[t]
    BY <1>6 DEF StProc
  <2> QED BY <1>1, <2>1, PathsStill
<1>12. \A d \in StClient : LostWithServer(d)'
  <2>1. \A t \in StServer : spc[t] \in Over => spc'[t] \in Over
    BY <1>1, <1>6 DEF StProc, Over, Ended
  <2> QED BY <1>1, <1>6, <1>8, <2>1, ClientsStill
<1> QED BY <1>8, <1>9, <1>10, <1>11, <1>12 DEF StInv

LEMMA CloseConnKeeps ==
  ASSUME StInv, NEW s \in StServer, CloseConn(s)
  PROVE  StInv'
<1>1. /\ ByPort /\ spc[s] = "close" /\ spc' = [spc EXCEPT ![s] = "accept"]
      /\ cut' = cut \cup {serves[s]} /\ timewait' = TRUE /\ serves' = [serves EXCEPT ![s] = NoOne]
      /\ UNCHANGED <<domain, sock, outrun, queue, server, up, down, heard, left, reset>>
  BY DEF CloseConn, Goes, dataVars
<1>2. /\ serves[s] \in StClient /\ serves[s] # NoOne /\ server[serves[s]] = s
      /\ spc[serves[s]] # "start" /\ serves[s] \in down
  BY <1>1 DEF StInv, StTypes, ServesRight
<1>3. /\ spc' \in [StProc -> StPlace] /\ spc'[s] = "accept"
      /\ \A u \in StProc : u # s => spc'[u] = spc[u]
      /\ \A d \in StClient : d # s /\ spc'[d] = spc[d]
  BY <1>1, StAssumption DEF StInv, StTypes, StProc, StPlace
<1>4. /\ serves' \in [StServer -> StClient \cup {NoOne}] /\ serves'[s] = NoOne
      /\ \A t \in StServer : t # s => serves'[t] = serves[t]
  BY <1>1 DEF StInv, StTypes
<1>5. StTypes'
  BY <1>1, <1>2, <1>3, <1>4 DEF StInv, StTypes
<1>6. \A t \in StServer : BacklogRight(t)'
  <2> SUFFICES ASSUME NEW t \in StServer PROVE BacklogRight(t)'
    OBVIOUS
  <2>1. BacklogRight(t) /\ queue[t] \in Seq(StClient) /\ ToSet(queue[t]) \subseteq StClient
    BY DEF StInv, StTypes, ToSet
  <2>2. \A d \in ToSet(queue[t]) : d # serves[s] /\ d # NoOne
    BY <2>1, WaitsOnce, StAssumption DEF StProc
  <2> QED BY <1>1, <1>3, <1>4, <2>1, <2>2 DEF BacklogRight
<1>7. \A t \in StServer : ServesRight(t)'
  <2> SUFFICES ASSUME NEW t \in StServer PROVE ServesRight(t)'
    OBVIOUS
  <2>1. ServesRight(t) /\ serves[t] \in StClient \cup {NoOne} /\ t \in StProc
    BY DEF StInv, StTypes, StProc
  <2> QED BY <1>1, <1>3, <1>4, <2>1 DEF ServesRight, ByPort
<1>8. \A t \in StServer : PathFree(t)'
  <2>1. \A t \in StServer : ~ByPort /\ spc'[t] \in {"bind", "nobind"} => spc'[t] = spc[t]
    BY <1>3 DEF StProc
  <2> QED BY <1>1, <2>1, PathsStill
<1>9. \A c \in StClient : LostWithServer(c)'
  <2>1. \A t \in StServer : spc[t] \in Over => spc'[t] \in Over
    BY <1>1, <1>3 DEF StProc, Over, Ended
  <2> QED BY <1>1, <1>2, <1>3, <1>5, <2>1, ClientsStill
<1> QED BY <1>5, <1>6, <1>7, <1>8, <1>9 DEF StInv

(* A client moves; it hears nothing only on a connection that was closed.  *)
LEMMA ClientMoves ==
  ASSUME StInv, NEW c \in StClient, NEW l \in StPlace \ {"start"}, spc' = [spc EXCEPT ![c] = l],
         UNCHANGED <<domain, sock, outrun, queue, serves, server, down, cut, reset>>,
         timewait' \in BOOLEAN, up' \subseteq StClient, left' \subseteq StClient,
         \/ UNCHANGED heard
         \/ heard' = [heard EXCEPT ![c] = "hello"]
         \/ heard' = [heard EXCEPT ![c] = "nothing"] /\ c \in cut \ down
  PROVE  StInv'
<1>1. /\ spc' \in [StProc -> StPlace] /\ spc'[c] = l
      /\ \A u \in StProc : u # c => spc'[u] = spc[u]
      /\ \A s \in StServer : s # c /\ spc'[s] = spc[s]
  BY StAssumption DEF StInv, StTypes, StProc
<1>2. heard' \in [StClient -> {"none", "hello", "nothing"}]
      /\ \A d \in StClient : d # c => heard'[d] = heard[d]
  BY DEF StInv, StTypes
<1>3. StTypes'
  BY <1>1, <1>2 DEF StInv, StTypes
<1>4. \A d \in StClient : spc'[d] = "start" => spc[d] = "start" /\ d # c
  BY <1>1 DEF StProc
<1>5. \A t \in StServer : BacklogRight(t)'
  BY <1>4, BacklogsStill DEF StInv, BacklogRight
<1>6. \A t \in StServer : ServesRight(t)'
  <2> SUFFICES ASSUME NEW t \in StServer PROVE ServesRight(t)'
    OBVIOUS
  <2>1. ServesRight(t) /\ serves[t] \in StClient \cup {NoOne}
    BY DEF StInv, StTypes
  <2> QED BY <1>1, <1>4, <2>1 DEF ServesRight, ByPort
<1>7. \A t \in StServer : PathFree(t)'
  BY <1>1, PathsStill
<1>8. \A d \in StClient : LostWithServer(d)'
  <2> SUFFICES ASSUME NEW d \in StClient PROVE LostWithServer(d)'
    OBVIOUS
  <2>1. LostWithServer(d) /\ server'[d] = server[d]
    BY DEF StInv
  <2>2. server[d] \in StServer => spc'[server[d]] = spc[server[d]]
    BY <1>1
  <2>3. heard'[d] = "nothing" => heard[d] = "nothing" \/ d \in cut \ down
    BY DEF StInv, StTypes
  <2> QED BY <1>2, <1>4, <2>1, <2>2, <2>3 DEF LostWithServer
<1> QED BY <1>3, <1>5, <1>6, <1>7, <1>8 DEF StInv

LEMMA ClientSteps ==
  ASSUME StInv, NEW c \in StClient,
         ClientWrite(c) \/ ClientRead(c) \/ ClientClose(c) \/ StKilled(c)
  PROVE  StInv'
<1>1. CASE ClientWrite(c)
  <2>1. up' \subseteq StClient
    BY <1>1 DEF ClientWrite, StInv, StTypes
  <2> QED BY <1>1, <2>1, ClientMoves DEF ClientWrite, Goes, StPlace, Ended, addrVars, linkVars,
          endVars, StInv, StTypes
<1>2. CASE ClientRead(c)
  BY <1>2, ClientMoves DEF ClientRead, Goes, StPlace, Ended, addrVars, linkVars, endVars,
     StInv, StTypes
<1>3. CASE ClientClose(c)
  BY <1>3, ClientMoves DEF ClientClose, Hangup, Goes, StPlace, Ended, addrVars, dataVars,
     StInv, StTypes
<1>4. CASE StKilled(c)
  <2>1. timewait' \in BOOLEAN /\ spc' = [spc EXCEPT ![c] = "killed"]
    BY <1>4 DEF StKilled, StInv, StTypes
  <2> QED BY <1>4, <2>1, ClientMoves DEF StKilled, Hangup, StPlace, Ended, dataVars, StInv, StTypes
<1> QED BY <1>1, <1>2, <1>3, <1>4

(* A client that connects joins the end of the backlog.                    *)
LEMMA JoinsOnce ==
  ASSUME NEW q \in Seq(StClient), NEW c \in StClient \ ToSet(q), IsInjective(q)
  PROVE  /\ Append(q, c) \in Seq(StClient) /\ IsInjective(Append(q, c))
         /\ Len(Append(q, c)) = Len(q) + 1 /\ ToSet(Append(q, c)) = ToSet(q) \cup {c}
<1> DEFINE r == Append(q, c)
<1>1. /\ r \in Seq(StClient) /\ Len(r) = Len(q) + 1 /\ Len(q) \in Nat
      /\ \A k \in 1 .. Len(q) : r[k] = q[k]
      /\ r[Len(q) + 1] = c /\ DOMAIN q = 1 .. Len(q) /\ DOMAIN r = 1 .. Len(q) + 1
  OBVIOUS
<1> HIDE DEF r
<1>2. \A k \in 1 .. Len(q) : q[k] # c
  BY <1>1 DEF ToSet
<1>3. IsInjective(r)
  BY <1>1, <1>2 DEF IsInjective
<1>4. ToSet(r) = ToSet(q) \cup {c}
  <2>1. \A k \in DOMAIN r : r[k] \in ToSet(q) \cup {c}
    BY <1>1 DEF ToSet
  <2>2. \A k \in DOMAIN q : q[k] \in ToSet(r)
    BY <1>1 DEF ToSet
  <2>3. c \in ToSet(r)
    BY <1>1 DEF ToSet
  <2> QED BY <2>1, <2>2, <2>3 DEF ToSet
<1> QED BY <1>1, <1>3, <1>4 DEF r

LEMMA ConnectKeeps ==
  ASSUME StInv, NEW c \in StClient, Connect(c)
  PROVE  StInv'
<1>1. CASE ~\E s \in StServer : Listens(s)
  BY <1>1, ClientMoves DEF Connect, Goes, StPlace, Ended, addrVars, dataVars, endVars, StInv, StTypes
<1>2. ASSUME NEW s \in StServer, Listens(s), Len(queue[s]) < Backlog, spc[c] = "start",
             NEW l \in {"read", "write"}, spc' = [spc EXCEPT ![c] = l],
             server' = [server EXCEPT ![c] = s], queue' = [queue EXCEPT ![s] = Append(@, c)]
      PROVE  StInv'
  <2> DEFINE q == Append(queue[s], c)
  <2>1. UNCHANGED <<domain, sock, timewait, outrun, serves, up, down, heard, left, cut, reset>>
    BY DEF Connect, addrVars, dataVars, endVars
  <2>2. queue[s] \in Seq(StClient) /\ BacklogRight(s) /\ LostWithServer(c) /\ c # NoOne
    BY StAssumption DEF StInv, StTypes, StProc
  <2>3. /\ \A t \in StServer : c \notin ToSet(queue[t]) /\ serves[t] # c
        /\ c \notin down \cup cut /\ heard[c] = "none"
    BY <1>2, <2>2 DEF StInv, BacklogRight, ServesRight, LostWithServer
  <2>4. /\ q \in Seq(StClient) /\ IsInjective(q) /\ Len(q) = Len(queue[s]) + 1
        /\ ToSet(q) = ToSet(queue[s]) \cup {c}
    BY <2>2, <2>3, JoinsOnce DEF BacklogRight
  <2>5. queue' = [queue EXCEPT ![s] = q]
    BY <1>2
  <2> HIDE DEF q
  <2>6. /\ spc' \in [StProc -> StPlace] /\ spc'[c] = l
        /\ \A u \in StProc : u # c => spc'[u] = spc[u]
        /\ \A t \in StServer : t # c /\ spc'[t] = spc[t]
    BY <1>2, StAssumption DEF StInv, StTypes, StProc, StPlace
  <2>7. /\ server' \in [StClient -> StServer \cup {NoOne}] /\ server'[c] = s
        /\ \A d \in StClient : d # c => server'[d] = server[d]
        /\ queue' \in [StServer -> Seq(StClient)] /\ queue'[s] = q
        /\ \A t \in StServer : t # s => queue'[t] = queue[t]
    BY <1>2, <2>4, <2>5 DEF StInv, StTypes
  <2>8. StTypes'
    BY <2>1, <2>6, <2>7 DEF StInv, StTypes
  <2>9. \A t \in StServer : BacklogRight(t)'
    <3> SUFFICES ASSUME NEW t \in StServer PROVE BacklogRight(t)'
      OBVIOUS
    <3>1. BacklogRight(t) /\ queue[t] \in Seq(StClient) /\ ToSet(queue[t]) \subseteq StClient
      BY DEF StInv, StTypes, ToSet
    <3>2. \A d \in ToSet(queue[t]) : /\ server'[d] = t /\ serves'[t] # d /\ d \notin down' \cup cut'
                                    /\ spc'[d] # "start"
      BY <2>1, <2>3, <2>6, <2>7, <3>1 DEF BacklogRight, StProc
    <3>3. CASE t = s
      <4>1. Len(q) <= Backlog
        BY <1>2, <2>2, <2>4, StAssumption
      <4>2. \A d \in ToSet(q) : /\ server'[d] = s /\ serves'[s] # d /\ d \notin down' \cup cut'
                               /\ spc'[d] # "start"
        BY <2>1, <2>3, <2>4, <2>6, <2>7, <3>2, <3>3
      <4> QED BY <2>4, <2>7, <3>3, <4>1, <4>2 DEF BacklogRight
    <3>4. CASE t # s
      BY <2>7, <3>1, <3>2, <3>4 DEF BacklogRight
    <3> QED BY <3>3, <3>4
  <2>10. \A t \in StServer : ServesRight(t)'
    <3> SUFFICES ASSUME NEW t \in StServer PROVE ServesRight(t)'
      OBVIOUS
    <3>1. ServesRight(t) /\ serves[t] \in StClient \cup {NoOne} /\ serves[t] # c
      BY <2>3 DEF StInv, StTypes
    <3> QED BY <2>1, <2>6, <2>7, <3>1 DEF ServesRight, ByPort, StProc
  <2>11. \A t \in StServer : PathFree(t)'
    BY <2>1, <2>6, PathsStill
  <2>12. \A d \in StClient : LostWithServer(d)'
    <3> SUFFICES ASSUME NEW d \in StClient PROVE LostWithServer(d)'
      OBVIOUS
    <3>1. CASE d = c
      BY <2>1, <2>3, <3>1 DEF LostWithServer
    <3>2. CASE d # c
      <4>1. LostWithServer(d) /\ server'[d] = server[d] /\ spc'[d] = spc[d]
        BY <2>6, <2>7, <3>2 DEF StInv, StProc
      <4> QED BY <2>1, <2>6, <4>1 DEF LostWithServer
    <3> QED BY <3>1, <3>2
  <2> QED BY <2>8, <2>9, <2>10, <2>11, <2>12 DEF StInv
<1> QED BY <1>1, <1>2 DEF Connect, Goes

LEMMA StKeeps == StInv /\ [StNext]_stVars => StInv'
<1> SUFFICES ASSUME StInv, [StNext]_stVars PROVE StInv'
  OBVIOUS
<1>1. ASSUME NEW s \in StServer, StServerStep(s) \/ ServerFails(s) \/ StKilled(s) PROVE StInv'
  BY <1>1, QuietSteps, HangupSteps, AcceptKeeps, CloseConnKeeps DEF StServerStep
<1>2. ASSUME NEW c \in StClient, StClientStep(c) \/ StKilled(c) PROVE StInv'
  BY <1>2, ConnectKeeps, ClientSteps DEF StClientStep
<1>3. CASE TimeWaitEnds \/ (\E c \in StClient : Reset(c)) \/ UNCHANGED stVars
  <2>1. /\ UNCHANGED <<domain, spc, sock, outrun, queue, serves, server, up, down, heard, left, cut>>
        /\ timewait' \in BOOLEAN /\ reset' \subseteq StClient
    BY <1>3 DEF TimeWaitEnds, Reset, stVars, addrVars, linkVars, dataVars, endVars, StInv, StTypes
  <2> QED BY <2>1 DEF StInv, StTypes, BacklogRight, ServesRight, PathFree, LostWithServer, ByPort
<1> QED BY <1>1, <1>2, <1>3 DEF StNext, StProc

(* Type correctness of the stream programs; a bind fails only when another *)
(* server bound the path after the unlink; a client that hears nothing has *)
(* lost its server.                                                        *)
LEMMA StHolds == StSpec => [](StTypeOK /\ StreamsHold /\ StBindsUnlessRaced)
<1>1. StInv => StTypeOK
  BY DEF StInv, StTypes, StTypeOK, BacklogRight, ServesRight, StPlace
<1>2. StInv => StreamsHold
  BY DEF StreamsHold, StInv, LostWithServer, Over
<1>3. StInv => StBindsUnlessRaced
  BY DEF StInv, StBindsUnlessRaced, PathFree
<1> QED BY StStarts, StKeeps, <1>1, <1>2, <1>3, PTL DEF StSpec

-----------------------------------------------------------------------------
(* The string functions                                                    *)

Indices ==
  /\ len \in Nat /\ i \in Int /\ j \in Int
  /\ 0 <= i /\ i <= len /\ j < len /\ i - 1 <= j

StrTypes ==
  /\ fn \in {"str_reverse", "str_trim", "str_to_int"} /\ len \in 0 .. MaxLen
  /\ given \in Strings(len) /\ str \in [0 .. len -> Alphabet \cup {NUL}]
  /\ fpc \in {"start", "tail", "move", "done"} /\ ret \in {-1, 0, 1}
  /\ Indices

(* What is outside i .. j is in its mirrored place, the rest not yet.      *)
Mirrored ==
  /\ fpc \in {"start", "done"} /\ j = len - 1 - i /\ str[len] = NUL
  /\ \A k \in 0 .. len - 1 : str[k] = IF k < i \/ k > j THEN given[len - 1 - k] ELSE given[k]
  /\ fpc = "done" => i >= j

(* What is outside i .. j are spaces, and at the ends there is none once   *)
(* they were found; what is between them is moved to the start at last.    *)
Blank(k) == given[k] = " "
SpacesOutside == \A k \in 0 .. len - 1 : k < i \/ k > j => Blank(k)
RestMoved ==
  \A k \in 0 .. len : k <= j - i + 1 => str[k] = IF k = j - i + 1 THEN NUL ELSE given[i + k]
Trimmed ==
  /\ SpacesOutside
  /\ fpc \in {"start", "tail", "move"} => str = given
  /\ fpc = "start" => j = len - 1
  /\ fpc # "start" => ~Blank(i)
  /\ fpc \in {"move", "done"} => j < i \/ ~Blank(j)
  /\ fpc = "done" => RestMoved

StrInv ==
  /\ StrTypes
  /\ fn = "str_reverse" => Mirrored
  /\ fn = "str_trim" => Trimmed
  /\ fn = "str_to_int" => str = given

LEMMA LenBounded == MaxLen \in Nat
BY StrAssumption

(* The strings of a length end at it, and nowhere before.                  *)
LEMMA StringsEnd ==
  ASSUME NEW n \in Nat, NEW s \in Strings(n)
  PROVE  /\ s \in [0 .. n -> Alphabet \cup {NUL}] /\ s[n] = NUL
         /\ \A k \in 0 .. n - 1 : s[k] # NUL
BY DEF Strings

LEMMA StrStarts == StrInit => StrInv
<1> SUFFICES ASSUME NEW f \in {"str_reverse", "str_trim", "str_to_int"}, NEW n \in 0 .. MaxLen,
                    NEW s \in Strings(n), StrStart(f, n, s)
             PROVE  StrInv
  BY DEF StrInit
<1>1. n \in Nat /\ MaxLen \in Nat
  BY LenBounded
<1>2. s \in [0 .. n -> Alphabet \cup {NUL}] /\ s[n] = NUL
  BY <1>1, StringsEnd
<1>3. fn = f /\ len = n /\ given = s /\ str = s /\ fpc = "start" /\ i = 0 /\ j = n - 1 /\ ret = -1
  BY DEF StrStart
<1>4. StrTypes
  BY <1>1, <1>2, <1>3 DEF StrTypes, Indices
<1>5. Mirrored
  BY <1>1, <1>2, <1>3 DEF Mirrored, Indices
<1>6. SpacesOutside /\ Trimmed
  <2>1. \A k \in 0 .. len - 1 : ~(k < i \/ k > j)
    BY <1>1, <1>3
  <2> QED BY <1>3, <2>1 DEF SpacesOutside, Trimmed
<1> QED BY <1>3, <1>4, <1>5, <1>6 DEF StrInv

LEMMA SwapKeeps == StrInv /\ Swap => StrInv'
<1> SUFFICES ASSUME StrInv, Swap PROVE StrInv'
  OBVIOUS
<1>1. /\ fn = "str_reverse" /\ fpc = "start" /\ i < j /\ i' = i + 1 /\ j' = j - 1
      /\ str' = [str EXCEPT ![i] = str[j], ![j] = str[i]]
      /\ UNCHANGED <<fn, len, given, fpc, ret>>
  BY DEF Swap
<1>9. i < j
  BY <1>1
<1>2. StrTypes /\ Mirrored /\ Indices
  BY <1>1 DEF StrInv, StrTypes, Indices
<1>3. /\ i \in 0 .. len - 1 /\ j \in 0 .. len - 1 /\ j = len - 1 - i
  BY <1>1, <1>2 DEF Indices, Mirrored
<1>4. /\ str' \in [0 .. len -> Alphabet \cup {NUL}] /\ str'[i] = str[j] /\ str'[j] = str[i]
      /\ \A k \in 0 .. len : k # i /\ k # j => str'[k] = str[k]
  BY <1>1, <1>2, <1>3 DEF StrTypes, Indices
<1>5. StrTypes'
  BY <1>1, <1>2, <1>3, <1>4 DEF StrTypes, Indices
<1>6. str[i] = given[i] /\ str[j] = given[j]
  BY <1>1, <1>2, <1>3 DEF Mirrored, Indices
<1>7. ASSUME NEW k \in 0 .. len - 1
      PROVE  str'[k] = IF k < i + 1 \/ k > j - 1 THEN given[len - 1 - k] ELSE given[k]
  <2>1. CASE k = i
    BY <1>1, <1>3, <1>4, <1>6, <2>1
  <2>2. CASE k = j
    <3>1. ~(k < i + 1) /\ k > j - 1 /\ len - 1 - k = i
      BY <1>2, <1>3, <1>9, <2>2 DEF Indices
    <3> QED BY <1>4, <1>6, <2>2, <3>1
  <2>3. CASE k # i /\ k # j
    BY <1>2, <1>3, <1>4, <2>3 DEF Mirrored, Indices
  <2> QED BY <2>1, <2>2, <2>3
<1>8. Mirrored'
  BY <1>1, <1>2, <1>3, <1>4, <1>7 DEF Mirrored, Indices
<1> QED BY <1>1, <1>5, <1>8 DEF StrInv

LEMMA TrimKeeps == StrInv /\ (SkipLeading \/ SkipTrailing \/ Move) => StrInv'
<1> SUFFICES ASSUME StrInv, SkipLeading \/ SkipTrailing \/ Move PROVE StrInv'
  OBVIOUS
<1>1. fn = "str_trim" /\ UNCHANGED <<fn, len, given, ret>>
  BY DEF SkipLeading, SkipTrailing, Move, Turn
<1>2. StrTypes /\ Trimmed /\ Indices
  BY <1>1 DEF StrInv, StrTypes, Indices
<1>3. /\ given \in [0 .. len -> Alphabet \cup {NUL}] /\ given[len] = NUL
  BY <1>2, StringsEnd DEF StrTypes, Indices
<1>4. SUFFICES StrTypes' /\ Trimmed'
  BY <1>1 DEF StrInv
<1>8. len' = len /\ Indices /\ \A k : Blank(k)' <=> Blank(k)
  BY <1>1, <1>2 DEF Blank
<1>5. CASE SkipLeading
  <2>1. fpc = "start" /\ UNCHANGED str /\ j' = j
    BY <1>5 DEF SkipLeading, Turn
  <2>2. str = given /\ j = len - 1
    BY <1>2, <2>1 DEF Trimmed
  <2>3. (Peek(i) = " " <=> Blank(i)) /\ SpacesOutside
    <3>1. i \in 0 .. len
      BY <1>8 DEF Indices
    <3> QED BY <1>2, <2>2, <3>1 DEF Peek, Blank, Trimmed
  <2>4. j = len - 1 /\ j' = j
    BY <2>1, <2>2
  <2>5. CASE Blank(i)
    <3>1. fpc' = "start"
      BY <1>5, <2>1, <2>3, <2>5 DEF SkipLeading
    <3>2. i' = i + 1
      BY <1>5, <2>3, <2>5 DEF SkipLeading
    <3>3. i # len
      BY <1>3, <2>5 DEF NUL, Blank
    <3>4. Indices'
      BY <1>8, <2>4, <3>2, <3>3 DEF Indices
    <3>5. SpacesOutside'
      <4>1. \A k \in 0 .. len - 1 : k < i + 1 \/ k > j => k < i \/ k > j \/ k = i
        BY <1>8 DEF Indices
      <4>2. \A k \in 0 .. len - 1 : k < i + 1 \/ k > j => Blank(k)
        BY <2>3, <2>5, <4>1 DEF SpacesOutside
      <4> QED BY <1>8, <2>4, <3>2, <4>2 DEF SpacesOutside
    <3>6. j' = len' - 1
      BY <1>8, <2>4
    <3> QED BY <1>1, <1>2, <2>1, <2>2, <3>1, <3>4, <3>5, <3>6 DEF StrTypes, Trimmed
  <2>6. CASE ~Blank(i)
    <3>1. i' = i /\ fpc' = "tail"
      BY <1>5, <2>3, <2>6 DEF SkipLeading, Turn
    <3>2. i' = i
      BY <3>1
    <3>3. Indices' /\ SpacesOutside'
      BY <1>8, <2>3, <2>4, <3>2 DEF Indices, SpacesOutside
    <3>4. ~Blank(i)'
      BY <1>1, <2>6, <3>1 DEF Blank
    <3> QED BY <1>1, <1>2, <2>1, <2>2, <3>1, <3>3, <3>4 DEF StrTypes, Trimmed
  <2> QED BY <2>5, <2>6
<1>6. CASE SkipTrailing
  <2>1. fpc = "tail" /\ UNCHANGED <<str, i>>
    BY <1>6 DEF SkipTrailing, Turn
  <2>2. str = given /\ SpacesOutside /\ ~Blank(i)
    BY <1>2, <2>1 DEF Trimmed
  <2>3. j >= i => (Peek(j) = " " <=> Blank(j))
    <3>1. j >= i => j \in 0 .. len
      BY <1>8 DEF Indices
    <3> QED BY <2>2, <3>1 DEF Peek, Blank
  <2>4. i' = i /\ ~Blank(i)'
    BY <1>1, <2>1, <2>2 DEF Blank
  <2>5. CASE j >= i /\ Peek(j) = " "
    <3>1. j' = j - 1 /\ fpc' = "tail"
      BY <1>6, <2>5 DEF SkipTrailing
    <3>2. j' = j - 1 /\ j >= i /\ Blank(j)
      BY <2>3, <2>5, <3>1
    <3>3. Indices'
      BY <1>8, <2>4, <3>2 DEF Indices
    <3>4. SpacesOutside'
      BY <1>8, <2>2, <2>4, <3>2 DEF SpacesOutside, Indices
    <3> QED BY <1>1, <1>2, <2>1, <2>2, <2>4, <3>1, <3>3, <3>4 DEF StrTypes, Trimmed
  <2>6. CASE ~(j >= i /\ Peek(j) = " ")
    <3>1. j' = j /\ fpc' = "move"
      BY <1>6, <2>6 DEF SkipTrailing, Turn
    <3>2. j' = j
      BY <3>1
    <3>3. Indices' /\ SpacesOutside'
      BY <1>8, <2>2, <2>4, <3>2 DEF Indices, SpacesOutside
    <3>4. ~(j >= i) \/ ~Blank(j)
      BY <2>3, <2>6
    <3>5. j' < i' \/ ~Blank(j)'
      <4>1. ~(j >= i) => j < i
        BY <1>8 DEF Indices
      <4> QED BY <1>1, <2>4, <3>2, <3>4, <4>1 DEF Blank
    <3> QED BY <1>1, <1>2, <2>1, <2>2, <2>4, <3>1, <3>3, <3>5 DEF StrTypes, Trimmed
  <2> QED BY <2>5, <2>6
<1>7. CASE Move
  <2>1. fpc = "move" /\ fpc' = "done" /\ UNCHANGED <<i, j>>
    BY <1>7 DEF Move, Turn
  <2>8. /\ str = given /\ SpacesOutside /\ ~Blank(i) /\ (j < i \/ ~Blank(j))
    BY <1>2, <2>1 DEF Trimmed
  <2>9. \A k \in 0 .. len : k < j - i + 1 => i + k \in 0 .. len
    BY <1>8 DEF Indices
  <2>2. str' = [k \in 0 .. len |-> CASE k < j - i + 1 -> Peek(i + k)
                                     [] k = j - i + 1 -> NUL
                                     [] OTHER -> str[k]]
    BY <1>7 DEF Move
  <2>3. \A k \in 0 .. len : k < j - i + 1 => Peek(i + k) = given[i + k]
    BY <2>8, <2>9 DEF Peek
  <2>4. \A k \in 0 .. len : str'[k] = IF k < j - i + 1 THEN given[i + k]
                                      ELSE IF k = j - i + 1 THEN NUL ELSE given[k]
    BY <2>2, <2>3, <2>8
  <2>5. str' \in [0 .. len -> Alphabet \cup {NUL}]
    <3>1. \A k \in 0 .. len : str'[k] \in Alphabet \cup {NUL}
      BY <1>3, <2>4, <2>9
    <3>2. str' = [k \in 0 .. len |-> str'[k]]
      BY <2>2
    <3> QED BY <3>1, <3>2
  <2>6. StrTypes'
    BY <1>1, <1>2, <2>1, <2>5 DEF StrTypes, Indices
  <2>7. Trimmed'
    <3>1. RestMoved'
      <4>1. \A k \in 0 .. len : k <= j - i + 1 =>
              str'[k] = IF k = j - i + 1 THEN NUL ELSE given[i + k]
        BY <1>8, <2>4 DEF Indices
      <4> QED BY <1>1, <2>1, <4>1 DEF RestMoved
    <3>2. SpacesOutside' /\ ~Blank(i)' /\ (j' < i' \/ ~Blank(j)')
      BY <1>1, <2>1, <2>8 DEF SpacesOutside, Blank
    <3> QED BY <1>1, <2>1, <2>8, <3>1, <3>2 DEF Trimmed
  <2> QED BY <2>6, <2>7
<1> QED BY <1>5, <1>6, <1>7

LEMMA StrKeeps == StrInv /\ [StrNext]_strVars => StrInv'
<1> SUFFICES ASSUME StrInv, [StrNext]_strVars PROVE StrInv'
  OBVIOUS
<1>1. CASE Reversed
  <2>1. /\ fn = "str_reverse" /\ fpc' = "done" /\ i >= j
        /\ UNCHANGED <<fn, len, given, str, i, j, ret>>
    BY <1>1 DEF Reversed, Turn
  <2> QED BY <2>1 DEF StrInv, StrTypes, Mirrored, Indices
<1>2. CASE Convert
  <2>1. /\ fn = "str_to_int" /\ fpc' = "done" /\ ret' \in {0, 1}
        /\ UNCHANGED <<fn, len, given, str, i, j>>
    BY <1>2 DEF Convert, Turn
  <2> QED BY <2>1 DEF StrInv, StrTypes, Indices
<1>3. CASE UNCHANGED strVars
  BY <1>3 DEF strVars, StrInv, StrTypes, Mirrored, Trimmed, SpacesOutside, RestMoved, Blank, Indices
<1> QED BY <1>1, <1>2, <1>3, SwapKeeps, TrimKeeps DEF StrNext

-----------------------------------------------------------------------------
(* What strtol finds and what an int keeps of it                           *)

(* The least number of a set, which is how what is found and what is       *)
(* computed by recursion is reasoned about.                                *)
LEMMA Least ==
  ASSUME NEW T \in SUBSET Nat, T # {}
  PROVE  \E m \in T : \A k \in 0 .. m - 1 : k \notin T
<1>1. PICK m \in T : \A k \in T : ~ (<<k, m>> \in OpToRel(<, Nat))
  BY WFMin, NatLessThanWellFounded
<1>2. \A k \in 0 .. m - 1 : k \in Nat /\ k < m
  OBVIOUS
<1>3. \A k \in Nat : k < m => <<k, m>> \in OpToRel(<, Nat)
  BY DEF OpToRel
<1> QED BY <1>1, <1>2, <1>3

(* The value of each digit.                                                *)
LEMMA DigitsOf ==
  /\ DOMAIN Digit = {"0", "1", "2", "3", "4", "5", "6", "7", "8", "9"}
  /\ \A c \in DOMAIN Digit : Digit[c] \in 0 .. 9
  /\ " " \notin DOMAIN Digit /\ "-" \notin DOMAIN Digit /\ NUL \notin DOMAIN Digit
<1>1. /\ Digits[1] = "0" /\ Digits[2] = "1" /\ Digits[3] = "2" /\ Digits[4] = "3"
      /\ Digits[5] = "4" /\ Digits[6] = "5" /\ Digits[7] = "6" /\ Digits[8] = "7"
      /\ Digits[9] = "8" /\ Digits[10] = "9" /\ DOMAIN Digits = 1 .. 10
  BY DEF Digits
<1>2. Range(Digits) = {"0", "1", "2", "3", "4", "5", "6", "7", "8", "9"}
  <2>1. \A k \in 1 .. 10 : k \in {1, 2, 3, 4, 5, 6, 7, 8, 9, 10}
    OBVIOUS
  <2> QED BY <1>1, <2>1 DEF Range
<1>3. \A c \in Range(Digits) : \E d \in 0 .. 9 : Digits[d + 1] = c
  <2>1. \A k \in 1 .. 10 : k - 1 \in 0 .. 9 /\ (k - 1) + 1 = k
    OBVIOUS
  <2> QED BY <1>1, <2>1 DEF Range
<1> QED BY <1>2, <1>3 DEF Digit, NUL

(* What the recursion in Value computes: for each number of digits the one *)
(* before it, ten times, and the next digit.                               *)
Sums(f, n, s, a) ==
  f = [k \in 0 .. n |-> IF k = 0 THEN 0 ELSE 10 * f[k - 1] + Digit[s[a + k - 1]]]

LEMMA SumsExist ==
  ASSUME NEW s, NEW a \in Int, NEW n \in Nat
  PROVE  \E f : Sums(f, n, s, a)
<1> DEFINE T == {m \in Nat : ~\E f : Sums(f, m, s, a)}
<1> SUFFICES ASSUME T # {} PROVE FALSE
  OBVIOUS
<1>1. PICK m \in T : \A k \in 0 .. m - 1 : k \notin T
  <2> HIDE DEF T
  <2>1. T \in SUBSET Nat
    BY DEF T
  <2> QED BY <2>1, Least
<1>2. m \in Nat
  OBVIOUS
<1>3. CASE m = 0
  <2>1. Sums([k \in 0 .. 0 |-> 0], 0, s, a)
    BY DEF Sums
  <2> QED BY <1>3, <2>1
<1>4. CASE m # 0
  <2>1. m - 1 \in Nat /\ m - 1 \in 0 .. m - 1
    BY <1>2, <1>4
  <2>2. PICK f : Sums(f, m - 1, s, a)
    BY <1>1, <2>1
  <2> DEFINE g == [k \in 0 .. m |-> IF k = m THEN 10 * f[m - 1] + Digit[s[a + m - 1]] ELSE f[k]]
  <2>3. \A k \in 0 .. m : g[k] = IF k = 0 THEN 0 ELSE 10 * g[k - 1] + Digit[s[a + k - 1]]
    <3> SUFFICES ASSUME NEW k \in 0 .. m
                 PROVE  g[k] = IF k = 0 THEN 0 ELSE 10 * g[k - 1] + Digit[s[a + k - 1]]
      OBVIOUS
    <3>1. CASE k = m
      <4>1. k # 0 /\ k - 1 \in 0 .. m /\ k - 1 # m
        BY <1>2, <1>4, <3>1
      <4>2. g[k - 1] = f[k - 1]
        BY <4>1
      <4> QED BY <3>1, <4>1, <4>2
    <3>2. CASE k # m
      <4>1. k \in 0 .. m - 1 /\ (k # 0 => k - 1 \in 0 .. m /\ k - 1 # m)
        BY <1>2, <3>2
      <4>2. f[k] = IF k = 0 THEN 0 ELSE 10 * f[k - 1] + Digit[s[a + k - 1]]
        BY <2>2, <4>1, Zenon DEF Sums
      <4>3. g[k] = f[k] /\ (k # 0 => g[k - 1] = f[k - 1])
        BY <3>2, <4>1
      <4> QED BY <4>2, <4>3
    <3> QED BY <3>1, <3>2
  <2>4. g = [k \in 0 .. m |-> g[k]]
    OBVIOUS
  <2>5. g = [k \in 0 .. m |-> IF k = 0 THEN 0 ELSE 10 * g[k - 1] + Digit[s[a + k - 1]]]
    <3> HIDE DEF g
    <3> QED BY <2>3, <2>4, Zenon
  <2>6. Sums(g, m, s, a)
    <3> HIDE DEF g
    <3> QED BY <2>5 DEF Sums
  <2> QED BY <2>6
<1> QED BY <1>3, <1>4

LEMMA ValueIsSum ==
  ASSUME NEW s, NEW a \in Int, NEW b \in Int, a <= b
  PROVE  \E f : Sums(f, b - a, s, a) /\ Value(s, a, b) = f[b - a]
<1> DEFINE v == CHOOSE f : Sums(f, b - a, s, a)
<1>1. \E f : Sums(f, b - a, s, a)
  <2>1. b - a \in Nat
    OBVIOUS
  <2> QED BY <2>1, SumsExist
<1>2. Sums(v, b - a, s, a)
  BY <1>1
<1>3. Value(s, a, b) = v[b - a]
  BY DEF Value, Sums
<1> QED BY <1>2, <1>3

LEMMA SumsAreNat ==
  ASSUME NEW s, NEW a \in Int, NEW n \in Nat, NEW f, Sums(f, n, s, a),
         \A k \in a .. a + n - 1 : s[k] \in DOMAIN Digit
  PROVE  \A k \in 0 .. n : f[k] \in Nat
<1> DEFINE T == {k \in 0 .. n : f[k] \notin Nat}
<1> SUFFICES ASSUME T # {} PROVE FALSE
  OBVIOUS
<1>1. PICK m \in T : \A k \in 0 .. m - 1 : k \notin T
  <2>1. T \in SUBSET Nat
    OBVIOUS
  <2> HIDE DEF T
  <2> QED BY <2>1, Least
<1>2. m \in 0 .. n /\ f[m] \notin Nat
  OBVIOUS
<1>3. f[m] = IF m = 0 THEN 0 ELSE 10 * f[m - 1] + Digit[s[a + m - 1]]
  BY <1>2, Zenon DEF Sums
<1>4. CASE m = 0
  <2>1. f[m] = 0
    BY <1>3, <1>4
  <2> QED BY <1>2, <2>1
<1>5. CASE m # 0
  <2>1. m - 1 \in 0 .. m - 1 /\ m - 1 \in 0 .. n /\ a + m - 1 \in a .. a + n - 1
    BY <1>2, <1>5
  <2>2. f[m - 1] \in Nat
    BY <1>1, <2>1
  <2>3. Digit[s[a + m - 1]] \in 0 .. 9
    BY <2>1, DigitsOf
  <2>4. f[m] = 10 * f[m - 1] + Digit[s[a + m - 1]]
    BY <1>3, <1>5
  <2> QED BY <1>2, <2>2, <2>3, <2>4
<1> QED BY <1>4, <1>5

(* Digits have a value.                                                    *)
LEMMA ValueIsNat ==
  ASSUME NEW s, NEW a \in Int, NEW b \in Int, a <= b,
         \A k \in a .. b - 1 : s[k] \in DOMAIN Digit
  PROVE  Value(s, a, b) \in Nat
<1>1. PICK f : Sums(f, b - a, s, a) /\ Value(s, a, b) = f[b - a]
  BY ValueIsSum
<1>2. b - a \in Nat /\ b - a \in 0 .. b - a /\ a + (b - a) - 1 = b - 1
  OBVIOUS
<1>3. \A k \in 0 .. b - a : f[k] \in Nat
  BY <1>1, <1>2, SumsAreNat
<1> QED BY <1>1, <1>2, <1>3

(* A number that an int can hold is not changed on its way to one.         *)
LEMMA ToIntKeeps ==
  ASSUME NEW v \in Int
  PROVE  FitsInt(ToInt(ToLong(v))) /\ (FitsInt(v) => ToInt(ToLong(v)) = v)
<1>1. IntMax \in Nat /\ LongMax \in Nat /\ IntMax <= LongMax
  BY StrAssumption
<1>2. ToLong(v) \in Int /\ (FitsInt(v) => ToLong(v) = v)
  BY <1>1 DEF ToLong, FitsInt
<1> DEFINE M == 2 * (IntMax + 1)
<1>3. M \in Nat /\ M > 0 /\ M = 2 * (IntMax + 1)
  BY <1>1
<1> HIDE DEF M
<1>4. \A w \in Int : w % M \in 0 .. M - 1 /\ (w \in 0 .. M - 1 => w % M = w)
  BY <1>3
<1>5. \A w \in Int : ToInt(w) = ((w + IntMax + 1) % M) - (IntMax + 1)
  BY <1>3 DEF ToInt
<1>6. ToLong(v) + IntMax + 1 \in Int
  BY <1>1, <1>2
<1>7. FitsInt(ToInt(ToLong(v)))
  BY <1>1, <1>2, <1>3, <1>4, <1>5, <1>6 DEF FitsInt
<1>8. ASSUME FitsInt(v) PROVE ToInt(ToLong(v)) = v
  <2>1. v + IntMax + 1 \in 0 .. M - 1
    BY <1>1, <1>3, <1>8 DEF FitsInt
  <2> QED BY <1>1, <1>2, <1>3, <1>4, <1>5, <1>8, <2>1
<1> QED BY <1>7, <1>8

-----------------------------------------------------------------------------
(* Where the number in s begins, and where its digits from index a end.    *)
Space(s, k)    == s[k] = " "
Leads(s, k)    == k \in 0 .. len /\ ~Space(s, k) /\ \A n \in 0 .. k - 1 : Space(s, n)
Stops(s, a, k) == /\ k \in a .. len /\ s[k] \notin DOMAIN Digit
                  /\ \A n \in a .. k - 1 : s[n] \in DOMAIN Digit
Sign(s, k)     == IF s[k] = "-" THEN 1 ELSE 0
Parsed(s, a, b) == IF Sign(s, a) = 1 THEN -Value(s, a + Sign(s, a), b)
                   ELSE Value(s, a + Sign(s, a), b)

LEMMA LeadsOnce ==
  ASSUME NEW s, NEW k, Leads(s, k), NEW m, Leads(s, m), len \in Nat
  PROVE  k = m
<1>1. k \in Nat /\ m \in Nat /\ ~Space(s, k) /\ ~Space(s, m)
  BY DEF Leads
<1>2. ~(k < m) /\ ~(m < k)
  <2>1. k < m => k \in 0 .. m - 1
    BY <1>1
  <2>2. m < k => m \in 0 .. k - 1
    BY <1>1
  <2> QED BY <1>1, <2>1, <2>2 DEF Leads
<1> QED BY <1>1, <1>2

LEMMA StopsOnce ==
  ASSUME NEW s, NEW a \in Nat, NEW k, Stops(s, a, k), NEW m, Stops(s, a, m), len \in Nat
  PROVE  k = m
<1>1. /\ k \in Nat /\ m \in Nat /\ a <= k /\ a <= m
      /\ s[k] \notin DOMAIN Digit /\ s[m] \notin DOMAIN Digit
  BY DEF Stops
<1>2. ~(k < m) /\ ~(m < k)
  <2>1. k < m => k \in a .. m - 1
    BY <1>1
  <2>2. m < k => m \in a .. k - 1
    BY <1>1
  <2> QED BY <1>1, <2>1, <2>2 DEF Stops
<1> QED BY <1>1, <1>2

(* A string ends with NUL, which is neither a space nor a digit.           *)
LEMMA LeadsThere ==
  ASSUME len \in Nat, NEW s, s[len] = NUL
  PROVE  \E k \in 0 .. len : Leads(s, k)
<1> DEFINE T == {k \in 0 .. len : ~Space(s, k)}
<1>1. len \in T
  <2>1. ~Space(s, len)
    BY DEF NUL, Space
  <2> QED BY <2>1
<1>2. PICK m \in T : \A k \in 0 .. m - 1 : k \notin T
  <2>1. T \in SUBSET Nat /\ T # {}
    BY <1>1
  <2> HIDE DEF T
  <2> QED BY <2>1, Least
<1> QED BY <1>2 DEF Leads

LEMMA StopsThere ==
  ASSUME len \in Nat, NEW s, s[len] = NUL, NEW a \in 0 .. len
  PROVE  \E k \in a .. len : Stops(s, a, k)
<1> DEFINE T == {k \in a .. len : s[k] \notin DOMAIN Digit}
<1>1. len \in T
  BY DigitsOf
<1>2. PICK m \in T : \A k \in 0 .. m - 1 : k \notin T
  <2>1. T \in SUBSET Nat /\ T # {}
    BY <1>1
  <2> HIDE DEF T
  <2> QED BY <2>1, Least
<1>3. \A k \in a .. m - 1 : k \in 0 .. m - 1 /\ k \in a .. len
  OBVIOUS
<1> QED BY <1>2, <1>3 DEF Stops

(* What strtol finds in a string.                                          *)
LEMMA StrtolFinds ==
  ASSUME len \in Nat, NEW s, s[len] = NUL
  PROVE  \E first \in 0 .. len : \E end \in first + Sign(s, first) .. len :
           /\ Leads(s, first) /\ Stops(s, first + Sign(s, first), end)
           /\ Strtol(s) = IF end = first + Sign(s, first) THEN [end |-> 0, val |-> 0]
                          ELSE [end |-> end, val |-> ToLong(Parsed(s, first, end))]
<1> DEFINE first == CHOOSE k \in 0 .. len : s[k] # " " /\ \A n \in 0 .. k - 1 : s[n] = " "
           end == CHOOSE k \in first + Sign(s, first) .. len :
                    /\ s[k] \notin DOMAIN Digit
                    /\ \A n \in first + Sign(s, first) .. k - 1 : s[n] \in DOMAIN Digit
<1>1. first \in 0 .. len /\ Leads(s, first)
  <2>1. \E k \in 0 .. len : s[k] # " " /\ \A n \in 0 .. k - 1 : s[n] = " "
    BY LeadsThere, Zenon DEF Leads, Space
  <2>2. first \in 0 .. len /\ s[first] # " " /\ \A n \in 0 .. first - 1 : s[n] = " "
    BY <2>1
  <2> HIDE DEF first
  <2> QED BY <2>2, Zenon DEF Leads, Space
<1>2. Strtol(s) = IF end = first + Sign(s, first) THEN [end |-> 0, val |-> 0]
                  ELSE [end |-> end, val |-> ToLong(Parsed(s, first, end))]
  BY DEF Strtol, Parsed, Sign
<1>3. first + Sign(s, first) \in 0 .. len
  <2> HIDE DEF first
  <2>1. s[first] = "-" => first # len
    BY DEF NUL
  <2> QED BY <1>1, <2>1 DEF Sign
<1>4. end \in first + Sign(s, first) .. len /\ Stops(s, first + Sign(s, first), end)
  <2> DEFINE a == first + Sign(s, first)
  <2>1. a \in 0 .. len
    BY <1>3
  <2> HIDE DEF a, first
  <2>2. \E k \in a .. len : s[k] \notin DOMAIN Digit /\ \A n \in a .. k - 1 : s[n] \in DOMAIN Digit
    BY <2>1, StopsThere DEF Stops
  <2>3. /\ end \in a .. len /\ s[end] \notin DOMAIN Digit
        /\ \A n \in a .. end - 1 : s[n] \in DOMAIN Digit
    BY <2>2 DEF a
  <2> HIDE DEF end
  <2> QED BY <2>3 DEF Stops, a
<1> HIDE DEF first, end
<1> QED BY <1>1, <1>2, <1>4

LEMMA ParsedIsInt ==
  ASSUME NEW s, NEW a \in Nat, NEW b \in Nat, a + Sign(s, a) <= b,
         \A n \in a + Sign(s, a) .. b - 1 : s[n] \in DOMAIN Digit
  PROVE  Parsed(s, a, b) \in Int
<1>1. Sign(s, a) \in 0 .. 1
  BY DEF Sign
<1>2. Value(s, a + Sign(s, a), b) \in Nat
  BY <1>1, ValueIsNat
<1> QED BY <1>2 DEF Parsed

(* strtol takes a number whole.                                            *)
LEMMA NumberTaken ==
  ASSUME len \in Nat, NEW s, s[len] = NUL, IsNumber(s)
  PROVE  \E v \in Int : NumberOf(s) = v /\ Strtol(s) = [end |-> len, val |-> ToLong(v)]
<1>1. PICK a \in 0 .. len - 1 :
        /\ \A k \in 0 .. a - 1 : Space(s, k)
        /\ Sign(s, a) = 1 => a < len - 1
        /\ s[a] \in DOMAIN Digit \cup {"-"}
        /\ \A k \in a + 1 .. len - 1 : s[k] \in DOMAIN Digit
  <2>1. PICK a \in 0 .. len - 1, b \in 0 .. len - 1 :
          /\ \A k \in 0 .. a - 1 : s[k] = " "
          /\ s[a] = "-" => a < b
          /\ s[a] \in DOMAIN Digit \cup {"-"} /\ b = len - 1
          /\ \A k \in a + 1 .. b : s[k] \in DOMAIN Digit
    BY Zenon DEF IsNumber
  <2>2. \A k \in 0 .. a - 1 : Space(s, k)
    BY <2>1, Zenon DEF Space
  <2>3. Sign(s, a) = 1 => s[a] = "-"
    BY DEF Sign
  <2> QED BY <2>1, <2>2, <2>3, Zenon
<1>2. Sign(s, a) \in 0 .. 1 /\ (Sign(s, a) = 0 => s[a] \in DOMAIN Digit)
  BY <1>1 DEF Sign
<1>3. Leads(s, a) /\ ~Space(s, a)
  <2>1. ~Space(s, a)
    BY <1>1, DigitsOf DEF Space
  <2> QED BY <1>1, <2>1 DEF Leads
<1>4. Stops(s, a + Sign(s, a), len) /\ len # a + Sign(s, a)
  <2>1. s[len] \notin DOMAIN Digit
    BY DigitsOf
  <2>2. \A n \in a + Sign(s, a) .. len - 1 : (n = a /\ Sign(s, a) = 0) \/ n \in a + 1 .. len - 1
    BY <1>2
  <2>3. \A n \in a + Sign(s, a) .. len - 1 : s[n] \in DOMAIN Digit
    BY <1>1, <1>2, <2>2
  <2>4. len \in a + Sign(s, a) .. len /\ len # a + Sign(s, a)
    BY <1>1, <1>2
  <2> QED BY <2>1, <2>3, <2>4 DEF Stops
<1>5. Strtol(s) = [end |-> len, val |-> ToLong(Parsed(s, a, len))]
  <2>1. PICK first \in 0 .. len : \E end \in first + Sign(s, first) .. len :
          /\ Leads(s, first) /\ Stops(s, first + Sign(s, first), end)
          /\ Strtol(s) = IF end = first + Sign(s, first) THEN [end |-> 0, val |-> 0]
                         ELSE [end |-> end, val |-> ToLong(Parsed(s, first, end))]
    BY StrtolFinds
  <2>2. first = a
    BY <1>3, <2>1, LeadsOnce
  <2>3. PICK end \in a + Sign(s, a) .. len :
          /\ Stops(s, a + Sign(s, a), end)
          /\ Strtol(s) = IF end = a + Sign(s, a) THEN [end |-> 0, val |-> 0]
                         ELSE [end |-> end, val |-> ToLong(Parsed(s, a, end))]
    BY <2>1, <2>2
  <2>4. a + Sign(s, a) \in Nat
    BY <1>2
  <2>5. end = len
    BY <1>4, <2>3, <2>4, StopsOnce
  <2> QED BY <1>4, <2>3, <2>5
<1>6. NumberOf(s) = Parsed(s, a, len)
  <2> DEFINE c == CHOOSE k \in 0 .. len - 1 : s[k] # " " /\ \A n \in 0 .. k - 1 : s[n] = " "
  <2>1. \E k \in 0 .. len - 1 : s[k] # " " /\ \A n \in 0 .. k - 1 : s[n] = " "
    BY <1>1, <1>3, Zenon DEF Space
  <2>2. c \in 0 .. len - 1 /\ s[c] # " " /\ \A n \in 0 .. c - 1 : s[n] = " "
    BY <2>1
  <2>3. NumberOf(s) = IF s[c] = "-" THEN -Value(s, c + 1, len) ELSE Value(s, c, len)
    BY DEF NumberOf
  <2> HIDE DEF c
  <2>4. c \in 0 .. len - 1 /\ ~Space(s, c) /\ \A n \in 0 .. c - 1 : Space(s, n)
    BY <2>2, Zenon DEF Space
  <2>5. Leads(s, c)
    BY <2>4 DEF Leads
  <2>6. c = a
    BY <1>3, <2>5, LeadsOnce
  <2>7. a + 0 = a
    OBVIOUS
  <2> QED BY <2>3, <2>6, <2>7 DEF Parsed, Sign
<1>7. Parsed(s, a, len) \in Int
  <2>1. a \in Nat /\ a + Sign(s, a) <= len
    BY <1>1, <1>2
  <2>2. \A n \in a + Sign(s, a) .. len - 1 : s[n] \in DOMAIN Digit
    BY <1>4 DEF Stops
  <2> QED BY <2>1, <2>2, ParsedIsInt
<1> QED BY <1>5, <1>6, <1>7

(* What is no number it leaves in part.                                    *)
LEMMA NoNumberLeft ==
  ASSUME len \in Nat, len > 0, NEW s, s[len] = NUL, \A k \in 0 .. len - 1 : s[k] # NUL,
         ~IsNumber(s)
  PROVE  s[Strtol(s).end] # NUL
<1>1. PICK first \in 0 .. len : \E end \in first + Sign(s, first) .. len :
        /\ Leads(s, first) /\ Stops(s, first + Sign(s, first), end)
        /\ Strtol(s) = IF end = first + Sign(s, first) THEN [end |-> 0, val |-> 0]
                       ELSE [end |-> end, val |-> ToLong(Parsed(s, first, end))]
  BY StrtolFinds
<1> DEFINE a == first + Sign(s, first)
<1>2. PICK end \in a .. len :
        /\ Leads(s, first) /\ Stops(s, a, end)
        /\ Strtol(s) = IF end = a THEN [end |-> 0, val |-> 0]
                       ELSE [end |-> end, val |-> ToLong(Parsed(s, first, end))]
  BY <1>1
<1>3. Sign(s, first) \in 0 .. 1 /\ first \in 0 .. len /\ a = first + Sign(s, first)
  BY DEF Sign
<1> HIDE DEF a
<1>4. CASE end = a
  <2>1. Strtol(s).end = 0 /\ 0 \in 0 .. len - 1
    BY <1>2, <1>4
  <2> QED BY <2>1
<1>5. CASE end # a
  <2>1. Strtol(s).end = end
    BY <1>2, <1>5
  <2>2. SUFFICES ASSUME end = len PROVE FALSE
    <3>1. end # len => end \in 0 .. len - 1
      BY <1>2, <1>3
    <3> QED BY <2>1, <3>1
  <2>3. /\ a < len /\ first \in 0 .. len - 1 /\ len - 1 \in 0 .. len - 1 /\ first <= len - 1
        /\ Sign(s, first) = 1 => first < len - 1
    BY <1>2, <1>3, <1>5, <2>2
  <2>4. \A n \in a .. len - 1 : s[n] \in DOMAIN Digit
    BY <1>2, <2>2 DEF Stops
  <2>5. \A k \in first + 1 .. len - 1 : k \in a .. len - 1
    BY <1>3
  <2>6. s[first] \in DOMAIN Digit \cup {"-"}
    <3>1. CASE Sign(s, first) = 0
      <4>1. first \in a .. len - 1
        BY <1>3, <2>3, <3>1
      <4> QED BY <2>4, <4>1
    <3>2. CASE Sign(s, first) = 1
      BY <3>2 DEF Sign
    <3> QED BY <1>3, <3>1, <3>2
  <2>7. \A k \in 0 .. first - 1 : s[k] = " "
    BY <1>2, Zenon DEF Leads, Space
  <2>8. s[first] = "-" => first < len - 1
    BY <2>3 DEF Sign
  <2> QED BY <2>3, <2>4, <2>5, <2>6, <2>7, <2>8, Zenon DEF IsNumber
<1> QED BY <1>4, <1>5

LEMMA StrtolGivesLong ==
  ASSUME len \in Nat, NEW s, s[len] = NUL
  PROVE  \E v \in Int : Strtol(s).val = ToLong(v)
<1>1. PICK first \in 0 .. len : \E end \in first + Sign(s, first) .. len :
        /\ Leads(s, first) /\ Stops(s, first + Sign(s, first), end)
        /\ Strtol(s) = IF end = first + Sign(s, first) THEN [end |-> 0, val |-> 0]
                       ELSE [end |-> end, val |-> ToLong(Parsed(s, first, end))]
  BY StrtolFinds
<1>2. PICK end \in first + Sign(s, first) .. len :
        /\ Stops(s, first + Sign(s, first), end)
        /\ Strtol(s) = IF end = first + Sign(s, first) THEN [end |-> 0, val |-> 0]
                       ELSE [end |-> end, val |-> ToLong(Parsed(s, first, end))]
  BY <1>1
<1>3. Sign(s, first) \in 0 .. 1
  BY DEF Sign
<1>4. Parsed(s, first, end) \in Int
  <2>1. first \in Nat /\ end \in Nat /\ first + Sign(s, first) <= end
    BY <1>2, <1>3
  <2> QED BY <1>2, <2>1, ParsedIsInt DEF Stops
<1>5. ToLong(0) = 0
  <2>1. LongMax \in Nat
    BY StrAssumption
  <2> QED BY <2>1 DEF ToLong
<1>6. Strtol(s).val = 0 \/ Strtol(s).val = ToLong(Parsed(s, first, end))
  BY <1>2
<1> QED BY <1>4, <1>5, <1>6

(* str_to_int.                                                             *)
LEMMA ConvertIsRight ==
  ASSUME ToIntRight, Convert, len \in Nat, str = given, str[len] = NUL,
         \A k \in 0 .. len - 1 : str[k] # NUL
  PROVE  ToIntRight'
<1>1. /\ fpc = "start" /\ fpc' = "done" /\ UNCHANGED <<fn, len, given, str>>
      /\ IF str[Strtol(str).end] # NUL THEN ret' = 0 /\ out' = out
         ELSE ret' = 1 /\ out' = ToInt(Strtol(str).val)
  BY DEF Convert, Turn
<1>2. PICK v \in Int : Strtol(str).val = ToLong(v)
  BY StrtolGivesLong
<1>3. FitsInt(out')
  BY <1>1, <1>2, ToIntKeeps DEF ToIntRight
<1>4. CASE IsNumber(given)
  <2>1. PICK w \in Int : NumberOf(given) = w /\ Strtol(str) = [end |-> len, val |-> ToLong(w)]
    BY <1>4, NumberTaken
  <2>2. ret' = 1 /\ out' = ToInt(ToLong(w))
    BY <1>1, <2>1
  <2>3. FitsInt(w) => out' = w
    BY <2>2, ToIntKeeps
  <2>4. IsNumber(given)' /\ NumberOf(given)' = w
    <3>1. len' = len /\ given' = given
      BY <1>1
    <3>2. IsNumber(given)' <=> IsNumber(given)
      BY <3>1, Zenon DEF IsNumber
    <3>3. NumberOf(given)' = NumberOf(given)
      BY <3>1 DEF NumberOf
    <3> QED BY <1>4, <2>1, <3>2, <3>3
  <2> QED BY <1>3, <2>1, <2>2, <2>3, <2>4 DEF ToIntRight, FitsInt
<1>5. CASE ~IsNumber(given)
  <2>1. len > 0 => ret' = 0
    BY <1>1, <1>5, NoNumberLeft
  <2>2. ~IsNumber(given)'
    BY <1>1, <1>5 DEF IsNumber
  <2> QED BY <1>1, <1>3, <2>1, <2>2 DEF ToIntRight, FitsInt
<1> QED BY <1>4, <1>5

LEMMA StrNextIsRight == StrInv /\ ToIntRight /\ [StrNext]_strVars => ToIntRight'
<1> SUFFICES ASSUME StrInv, ToIntRight, [StrNext]_strVars PROVE ToIntRight'
  OBVIOUS
<1>1. CASE Convert
  <2>1. fn = "str_to_int"
    BY <1>1 DEF Convert, Turn
  <2>2. len \in Nat /\ str = given /\ given \in Strings(len)
    BY <2>1 DEF StrInv, StrTypes, Indices
  <2>3. given[len] = NUL /\ \A k \in 0 .. len - 1 : given[k] # NUL
    BY <2>2, StringsEnd
  <2> QED BY <1>1, <2>2, <2>3, ConvertIsRight
<1>2. CASE ~Convert
  <2>1. \/ UNCHANGED <<fn, fpc, len, given, ret, out>>
        \/ fn # "str_to_int" /\ UNCHANGED <<fn, out>>
    BY <1>2 DEF StrNext, Swap, Reversed, SkipLeading, SkipTrailing, Move, Turn, strVars
  <2>2. CASE UNCHANGED <<fn, fpc, len, given, ret, out>>
    <3>1. len' = len /\ given' = given /\ UNCHANGED <<fn, fpc, ret, out>>
      BY <2>2
    <3>2. IsNumber(given)' <=> IsNumber(given)
      BY <3>1, Zenon DEF IsNumber
    <3>3. NumberOf(given)' = NumberOf(given)
      BY <3>1 DEF NumberOf
    <3> QED BY <3>1, <3>2, <3>3 DEF ToIntRight, FitsInt
  <2>3. CASE fn # "str_to_int" /\ UNCHANGED <<fn, out>>
    BY <2>3 DEF ToIntRight, FitsInt
  <2> QED BY <2>1, <2>2, <2>3
<1> QED BY <1>1, <1>2

LEMMA StrStartsRight == StrInit => ToIntRight
<1>1. StrInit => out = 0 /\ fpc # "done"
  BY DEF StrInit, StrStart
<1>2. IntMax \in Nat
  BY StrAssumption
<1>3. FitsInt(0)
  BY <1>2 DEF FitsInt
<1> QED BY <1>1, <1>3 DEF ToIntRight

(* For strings of any length and ints of any width no wider than a long:   *)
(* no index that str_reverse or str_trim reads or writes is outside the    *)
(* array and a terminator stays in it; reversed, each character is in the  *)
(* mirrored place; trimmed, only spaces before and after the rest are      *)
(* gone; and str_to_int gives the value of each number that an int can     *)
(* hold, and refuses what is not a number but the empty string.            *)
THEOREM StringsAreRight == StrSpec => [](StrTypeOK /\ StringsRight)
<1>1. ASSUME StrInv
      PROVE  /\ len \in Nat /\ StrTypes /\ given[len] = NUL
             /\ \A k \in 0 .. len - 1 : given[k] # NUL
  BY <1>1, StrAssumption, StringsEnd DEF StrInv, StrTypes, Indices
<1>2. ASSUME StrInv, fn = "str_trim", fpc = "done"
      PROVE  /\ str[j - i + 1] = NUL /\ j - i + 1 \in 0 .. len /\ Indices
             /\ SpacesOutside /\ RestMoved /\ ~Blank(i) /\ (j < i \/ ~Blank(j))
  <2>1. /\ SpacesOutside /\ RestMoved /\ ~Blank(i) /\ (j < i \/ ~Blank(j))
    BY <1>2 DEF StrInv, Trimmed
  <2>2. Indices /\ j - i + 1 \in 0 .. len
    BY <1>2 DEF StrInv, StrTypes, Indices
  <2>3. str[j - i + 1] = NUL
    <3> DEFINE m == j - i + 1
    <3>1. m \in 0 .. len /\ m <= j - i + 1 /\ m = j - i + 1
      BY <2>2 DEF Indices
    <3> HIDE DEF m
    <3> QED BY <2>1, <3>1 DEF RestMoved
  <2> QED BY <2>1, <2>2, <2>3
<1>3. StrInv => StrTypeOK
  <2> SUFFICES ASSUME StrInv PROVE \E k \in 0 .. len : str[k] = NUL
    BY DEF StrInv, StrTypes, StrTypeOK, Indices
  <2>1. CASE fn = "str_reverse"
    BY <1>1, <2>1 DEF StrInv, Mirrored, Indices
  <2>2. CASE fn = "str_trim" /\ fpc = "done"
    BY <1>2, <2>2
  <2>3. CASE str = given
    BY <1>1, <2>3
  <2> QED BY <2>1, <2>2, <2>3 DEF StrInv, StrTypes, Trimmed, Indices
<1>4. StrInv => ReverseRight
  <2> SUFFICES ASSUME StrInv, fn = "str_reverse", fpc = "done", NEW k \in 0 .. len - 1
               PROVE  str[len] = NUL /\ str[k] = given[len - 1 - k]
    BY DEF StrInv, Mirrored, ReverseRight, Indices
  <2> QED BY <1>1 DEF StrInv, StrTypes, Mirrored, Indices
<1>5. StrInv => TrimRight
  <2> SUFFICES ASSUME StrInv, fn = "str_trim", fpc = "done" PROVE TrimRight
    BY DEF TrimRight
  <2> DEFINE n == j - i + 1
  <2>1. /\ Indices /\ SpacesOutside /\ RestMoved /\ ~Blank(i) /\ (j < i \/ ~Blank(j))
        /\ n \in 0 .. len /\ str[n] = NUL /\ n = j - i + 1
    BY <1>2
  <2> HIDE DEF n
  <2>5. i \in 0 .. len /\ n \in 0 .. len - i
    BY <2>1 DEF Indices
  <2>6. \A k \in 0 .. n - 1 : k \in 0 .. len /\ k <= j - i + 1 /\ k # j - i + 1
    BY <2>1 DEF Indices
  <2>2. \A k \in 0 .. n - 1 : str[k] = given[i + k]
    BY <2>1, <2>6 DEF RestMoved
  <2>3. \A k \in 0 .. len - 1 : k < i \/ k >= i + n => given[k] = " "
    <3>1. \A k \in 0 .. len - 1 : k >= i + n => k > j
      BY <2>1 DEF Indices
    <3> QED BY <2>1, <3>1 DEF SpacesOutside, Blank
  <2>4. n > 0 => str[0] # " " /\ str[n - 1] # " "
    <3> SUFFICES ASSUME n > 0 PROVE str[0] # " " /\ str[n - 1] # " "
      OBVIOUS
    <3>1. 0 \in 0 .. n - 1 /\ n - 1 \in 0 .. n - 1 /\ i + 0 = i /\ i + (n - 1) = j /\ ~(j < i)
      BY <2>1 DEF Indices
    <3>2. str[0] = given[i] /\ str[n - 1] = given[j]
      BY <2>2, <3>1
    <3> QED BY <2>1, <3>1, <3>2 DEF Blank
  <2> QED BY <2>1, <2>2, <2>3, <2>4, <2>5 DEF TrimRight
<1>6. ReverseRight /\ TrimRight /\ ToIntRight => StringsRight
  BY DEF StringsRight
<1> QED
  BY StrStarts, StrKeeps, StrStartsRight, StrNextIsRight, <1>3, <1>4, <1>5, <1>6, PTL DEF StrSpec

-----------------------------------------------------------------------------
(* The programs together                                                   *)

LEMMA AllStart == Init => ShmInit /\ DgInit /\ StInit /\ StrInit
<1> SUFFICES ASSUME Init, exam # "strings" PROVE StrInit
  BY DEF Init
<1>1. PICK s : s = [k \in {0} |-> NUL] /\ StrStart("str_reverse", 0, s)
  BY DEF Init
<1>2. 0 .. 0 = {0} /\ 0 \in 0 .. MaxLen
  BY LenBounded
<1>3. s \in Strings(0)
  BY <1>1, <1>2 DEF Strings
<1> QED BY <1>1, <1>2, <1>3 DEF StrInit

LEMMA EachMoves ==
  [Next]_vars => [ShmNext]_shmVars /\ [DgNext]_dgVars /\ [StNext]_stVars /\ [StrNext]_strVars
BY DEF Next, vars, MemoryRuns, DatagramsRuns, StreamsRuns, StringsRuns, ShmNext

LEMMA EachRuns == Spec => ShmSpec /\ DgSpec /\ StSpec /\ StrSpec
BY AllStart, EachMoves, PTL DEF Spec, ShmSpec, DgSpec, StSpec, StrSpec

(* Type correctness of the shared memory, socket and string programs: a    *)
(* name stands for an object that was made, parts are only in objects that *)
(* have a size, no client waits in two backlogs and no index leaves its    *)
(* string.                                                                 *)
THEOREM DemosAreTyped == Spec => []DemosTypeOK
BY EachRuns, ShmTyped, DgHolds, StHolds, StringsAreRight, PTL DEF DemosTypeOK

(* A socket file that an earlier program left is in nobody's way, over     *)
(* datagrams and over streams: bind fails only when another process bound  *)
(* the file between the unlink and the bind.                               *)
THEOREM BindFailsOnlyRaced == Spec => []BindsUnlessRaced
BY EachRuns, DgHolds, StHolds, PTL DEF BindsUnlessRaced

(* A stream client that hears nothing has lost its server: a server that   *)
(* serves on has never cut a client off, also when others left or reset    *)
(* their connections meanwhile.                                            *)
THEOREM StreamsAreKept == Spec => []StreamsHold
BY EachRuns, StHolds, PTL
=============================================================================
