---------------------------- MODULE DeviceProofs ----------------------------
(***************************************************************************)
(* Proofs about the names in a directory device: for any names, counters   *)
(* and directories, however many SAVEs there have been.                    *)
(***************************************************************************)
EXTENDS D64Image, WellFoundedInduction, TLAPS

(* m was typed for the last SAVE that the daemon has got for this name.    *)
LastSent(m) ==
    /\ saved[m] # 0 /\ Fits(m)
    /\ \A o \in Names : Fits(o) /\ C64Name(o) = C64Name(m) => saved[o] <= saved[m]

(* The file that it has written                                            *)
Holds(f, m) ==
    /\ is_pc64(f) /\ pc64_c64_filename(f) = C64Name(m)
    /\ f.local = local_name(C64Name(m)) /\ f.ctr \in 0 .. MaxCounter
    /\ f.data = saved[m]

(* A file that is to be found under a name is there, under a local name    *)
(* that SAVE gave it, so that removing it leaves a counter free.           *)
Stored ==
    \A m \in Names : LastSent(m) /\ HasExtension(C64Name(m)) => \E f \in files : Holds(f, m)

Inv ==
    /\ saves \in Nat /\ saved \in [Names -> Nat]
    /\ \A n \in Names : saved[n] <= saves
    /\ UniqueNames /\ Stored
-----------------------------------------------------------------------------
(* Lemmas *)

(* local_encode takes a counter that is free.                              *)
LEMMA MinIn ==
    ASSUME NEW S, S \subseteq 0 .. MaxCounter, S # {}
    PROVE  Min(S) \in S
<1>1. S \subseteq Nat
  BY LimitsAssumption
<1>2. PICK x \in S : \A y \in S : ~ (<<y, x>> \in OpToRel(<, Nat))
  BY <1>1, WFMin, NatLessThanWellFounded
<1>3. \A y \in S : ~ (y < x)
  BY <1>1, <1>2 DEF OpToRel
<1>4. \A y \in S : x <= y
  BY <1>1, <1>3
<1> QED
  BY <1>4 DEF Min

(* Taking files away from a directory                                      *)
LEMMA FewerDistinct ==
    ASSUME NEW dir, NEW less, less \subseteq dir, Distinct(dir)
    PROVE  Distinct(less)
BY DEF Distinct

(* Of a name there is one file, or none.                                   *)
LEMMA OneLocal ==
    ASSUME UniqueNames, NEW c64, NEW f \in find_local(c64)
    PROVE  find_local(c64) = {f}
BY DEF UniqueNames, Distinct, find_local

(* With the file of that name gone, another can be created.                *)
LEMMA CreateDistinct ==
    ASSUME NEW dir, Distinct(dir), NEW c64 \in C64Names,
           \A f \in dir : ~(is_pc64(f) /\ pc64_c64_filename(f) = c64),
           free_counters(dir, local_name(c64)) # {},
           Create(dir, c64)
    PROVE  Distinct(files')
<1> DEFINE ctr == Min(free_counters(dir, local_name(c64)))
           new == [local |-> local_name(c64), ctr |-> ctr, header |-> c64,
                   pc64 |-> TRUE, data |-> saves + 1]
<1>1. ctr \in free_counters(dir, local_name(c64))
  BY MinIn DEF free_counters
<1>2. \A f \in dir : ~(f.local = new.local /\ f.ctr = new.ctr)
  BY <1>1 DEF free_counters
<1>3. pc64_c64_filename(new) = c64
  BY HeaderAssumption DEF pc64_c64_filename
<1>4. files' = dir \cup {new}
  BY DEF Create
<1> HIDE DEF new
<1> QED
  BY <1>2, <1>3, <1>4 DEF Distinct
-----------------------------------------------------------------------------
(* The invariant *)

LEMMA InitInv == Init => Inv
<1> SUFFICES ASSUME Init PROVE Inv
  OBVIOUS
<1>1. UniqueNames
  BY GivenAssumption DEF Init, UniqueNames
<1>2. saves = 0 /\ saved \in [Names -> Nat] /\ \A n \in Names : saved[n] = 0
  BY DEF Init
<1>3. Stored
  BY <1>2 DEF Stored, LastSent
<1> QED
  BY <1>1, <1>2, <1>3 DEF Inv

(* The numbers of the SAVEs, after the next one                            *)
LEMMA Numbered ==
    ASSUME Inv, NEW n \in Names, saves' = saves + 1, saved' = [saved EXCEPT ![n] = saves + 1]
    PROVE  /\ saves' \in Nat /\ saved' \in [Names -> Nat]
           /\ \A m \in Names : saved'[m] <= saves'
           /\ saved'[n] = saves + 1
           /\ \A m \in Names \ {n} : saved'[m] = saved[m] /\ saved[m] < saved'[n]
BY DEF Inv

(* SAVE, when it finds a counter                                           *)
LEMMA CreateInv ==
    ASSUME Inv, NEW n \in Names, Fits(n), NEW c64, c64 = C64Name(n),
           NEW gone, gone = find_local(c64),
           free_counters(files \ gone, local_name(c64)) # {},
           Create(files \ gone, c64),
           saves' = saves + 1, saved' = [saved EXCEPT ![n] = saves + 1]
    PROVE  Inv'
<1>0. PICK ctr : ctr = Min(free_counters(files \ gone, local_name(c64)))
  OBVIOUS
<1>9. PICK new : new = [local |-> local_name(c64), ctr |-> ctr, header |-> c64,
                        pc64 |-> TRUE, data |-> saves + 1]
  OBVIOUS
<1>1. c64 \in C64Names
  BY DEF C64Names
<1>2. Distinct(files \ gone)
  BY FewerDistinct DEF Inv, UniqueNames
<1>3. \A f \in files \ gone : ~(is_pc64(f) /\ pc64_c64_filename(f) = c64)
  BY DEF find_local
<1>4. UniqueNames'
  BY <1>1, <1>2, <1>3, CreateDistinct DEF UniqueNames
<1>5. files' = (files \ gone) \cup {new}
  BY <1>0, <1>9 DEF Create
<1>6. ctr \in 0 .. MaxCounter
  BY <1>0, MinIn DEF free_counters
<1>7. pc64_c64_filename(new) = c64
  BY <1>1, <1>9, HeaderAssumption DEF pc64_c64_filename
<1>8. HasExtension(c64) => is_pc64(new)
  BY <1>9 DEF HasExtension, is_pc64
<1>10. Stored'
  <2> SUFFICES ASSUME NEW m \in Names, LastSent(m)', HasExtension(C64Name(m))
               PROVE  \E f \in files' : Holds(f, m)'
    BY DEF Stored
  <2>1. CASE C64Name(m) = c64
    <3>1. saved'[n] <= saved'[m]
      BY <2>1 DEF LastSent
    <3>2. m = n
      BY <3>1, Numbered DEF Inv
    <3>3. Holds(new, m)'
      BY <1>6, <1>7, <1>8, <1>9, <3>2, Numbered DEF Holds
    <3> QED
      BY <1>5, <3>3
  <2>2. CASE C64Name(m) # c64
    <3>1. \A o \in Names : C64Name(o) = C64Name(m) => saved'[o] = saved[o]
      BY <2>2, Numbered
    <3>2. LastSent(m)
      BY <3>1 DEF LastSent
    <3>3. PICK f \in files : Holds(f, m)
      BY <3>2 DEF Inv, Stored
    <3>4. f \in files'
      BY <1>5, <2>2, <3>3 DEF Holds, find_local
    <3>5. Holds(f, m)'
      BY <3>1, <3>3 DEF Holds
    <3> QED
      BY <3>4, <3>5
  <2> QED
    BY <2>1, <2>2
<1> QED
  BY <1>4, <1>10, Numbered DEF Inv

(* SAVE, when it finds none: no file that it has removed was a saved one.  *)
LEMMA ExhaustedInv ==
    ASSUME Inv, NEW n \in Names, NEW c64, c64 = C64Name(n),
           NEW gone, gone = find_local(c64),
           free_counters(files \ gone, local_name(c64)) = {},
           files' = files \ gone, saves' = saves + 1, saved' = saved
    PROVE  Inv'
<1>1. UniqueNames'
  BY FewerDistinct DEF Inv, UniqueNames
<1>2. Stored'
  <2> SUFFICES ASSUME NEW m \in Names, LastSent(m), HasExtension(C64Name(m))
               PROVE  \E f \in files' : Holds(f, m)
    BY DEF Stored, LastSent, Holds
  <2>1. PICK f \in files : Holds(f, m)
    BY DEF Inv, Stored
  <2>2. C64Name(m) # c64
    <3> SUFFICES ASSUME C64Name(m) = c64 PROVE FALSE
      OBVIOUS
    <3>1. gone = {f}
      BY <2>1, OneLocal DEF Inv, Holds, find_local
    <3>2. f.ctr \in free_counters(files \ gone, local_name(c64))
      BY <2>1, <3>1 DEF Inv, Holds, free_counters, UniqueNames, Distinct
    <3> QED
      BY <3>2
  <2>3. f \in files'
    BY <2>1, <2>2 DEF Holds, find_local
  <2> QED
    BY <2>1, <2>3
<1> QED
  BY <1>1, <1>2 DEF Inv

LEMMA SaveInv ==
    ASSUME Inv, NEW n \in Names, Save(n)
    PROVE  Inv'
<1> DEFINE c64 == C64Name(n)
<1>1. PICK gone \in IF find_local(c64) = {} THEN {{}} ELSE {{f} : f \in find_local(c64)} :
        IF free_counters(files \ gone, local_name(c64)) # {}
        THEN /\ Create(files \ gone, c64)
             /\ saved' = [saved EXCEPT ![n] = saves + 1]
             /\ UNCHANGED up
        ELSE /\ files' = files \ gone
             /\ up' = FALSE
             /\ UNCHANGED saved
  BY DEF Save
<1>2. gone = find_local(c64)
  BY <1>1, OneLocal DEF Inv
<1>3. Fits(n) /\ saves' = saves + 1
  BY DEF Save
<1>4. CASE free_counters(files \ gone, local_name(c64)) # {}
  BY <1>1, <1>2, <1>3, <1>4, CreateInv
<1>5. CASE free_counters(files \ gone, local_name(c64)) = {}
  BY <1>1, <1>2, <1>3, <1>5, ExhaustedInv
<1> QED
  BY <1>4, <1>5

(* A SAVE that is not sent leaves the directory as it is.                  *)
LEMMA RefuseInv ==
    ASSUME Inv, NEW n \in Names, Refuse(n)
    PROVE  Inv'
<1>1. /\ ~Fits(n) /\ files' = files
      /\ saves' = saves + 1 /\ saved' = [saved EXCEPT ![n] = saves + 1]
  BY DEF Refuse
<1>2. \A m \in Names : Fits(m) => saved'[m] = saved[m]
  BY <1>1, Numbered
<1>3. Stored'
  <2> SUFFICES ASSUME NEW m \in Names, LastSent(m)', HasExtension(C64Name(m))
               PROVE  \E f \in files' : Holds(f, m)'
    BY DEF Stored
  <2>1. LastSent(m) /\ saved'[m] = saved[m]
    BY <1>2 DEF LastSent
  <2>2. PICK f \in files : Holds(f, m)
    BY <2>1 DEF Inv, Stored
  <2> QED
    BY <1>1, <2>1, <2>2 DEF Holds
<1> QED
  BY <1>1, <1>3, Numbered DEF Inv, UniqueNames

LEMMA DeleteInv ==
    ASSUME Inv, NEW f \in files, Delete(f)
    PROVE  Inv'
<1>1. UniqueNames'
  BY FewerDistinct DEF Inv, Delete, UniqueNames
<1>2. /\ saves' = saves /\ saved' \in [Names -> Nat]
      /\ \A n \in Names : saved'[n] = IF C64Name(n) = pc64_c64_filename(f) THEN 0 ELSE saved[n]
  BY DEF Inv, Delete
<1>3. \A n \in Names : saved'[n] <= saves'
  BY <1>2 DEF Inv
<1>4. Stored'
  <2> SUFFICES ASSUME NEW m \in Names, LastSent(m)', HasExtension(C64Name(m))
               PROVE  \E g \in files' : Holds(g, m)'
    BY DEF Stored
  <2>1. C64Name(m) # pc64_c64_filename(f)
    BY <1>2 DEF LastSent
  <2>2. \A o \in Names : C64Name(o) = C64Name(m) => saved'[o] = saved[o]
    BY <1>2, <2>1
  <2>3. LastSent(m)
    BY <2>2 DEF LastSent
  <2>4. PICK g \in files : Holds(g, m)
    BY <2>3 DEF Inv, Stored
  <2>5. g \in files'
    BY <2>1, <2>4 DEF Delete, Holds
  <2> QED
    BY <2>2, <2>4, <2>5 DEF Holds
<1> QED
  BY <1>1, <1>2, <1>3, <1>4 DEF Inv

(* What leaves the directory alone, whatever the daemon does               *)
LEMMA QuietInv ==
    ASSUME Inv, UNCHANGED <<files, saves, saved>>
    PROVE  Inv'
BY DEF Inv, UniqueNames, Stored, LastSent, Holds

LEMMA StepInv ==
    ASSUME Inv, [DevicesNext]_allVars
    PROVE  Inv'
<1>1. CASE Next
  <2>1. CASE \E n \in Names : Save(n)
    BY <2>1, SaveInv
  <2>4. CASE \E n \in Names : Refuse(n)
    BY <2>4, RefuseInv
  <2>2. CASE \E f \in files : Delete(f)
    BY <2>2, DeleteInv
  <2>3. CASE Restart
    BY <2>3, QuietInv DEF Restart
  <2> QED
    BY <1>1, <2>1, <2>2, <2>3, <2>4 DEF Next
<1>2. CASE Restart
  BY <1>2, QuietInv DEF Restart
<1>3. CASE ondisk
  BY <1>3, QuietInv DEF ondisk
<1>4. CASE UNCHANGED allVars
  BY <1>4, QuietInv DEF allVars, vars
<1> QED
  BY <1>1, <1>2, <1>3, <1>4
     DEF DevicesNext, open, collect_directory_entries, read_data, Crash, close

LEMMA InvUnique == Inv => UniqueNames
BY DEF Inv

(* What is not cut is sent as the file that the user means.                *)
LEMMA WholeName ==
    ASSUME NEW n \in Names, Whole(n)
    PROVE  C64Name(n) = Means[n]
BY DEF Whole, Means, C64Name, tftp_filename, Cut

LEMMA InvLoads == Inv => LoadsLastSaved
<1> SUFFICES ASSUME Inv, NEW n \in Names,
                    NEW m \in LastOf({m \in Spellings(n) : Fits(m)}),
                    Loadable(n)
             PROVE  Loads(n) = {saved[m]}
  BY DEF LoadsLastSaved
<1>1. m \in Typed /\ Fits(m) /\ Means[m] = Means[n]
  BY DEF LastOf, Spellings
<1>2. C64Name(m) = C64Name(n) /\ Means[m] = C64Name(n)
  BY <1>1, WholeName DEF Loadable, Uncut, Typed
<1>3. LastSent(m)
  <2> SUFFICES ASSUME NEW o \in Names, Fits(o), C64Name(o) = C64Name(m)
               PROVE  saved[o] <= saved[m]
    BY <1>1 DEF LastSent, Typed
  <2>1. CASE saved[o] = 0
    BY <1>1, <2>1 DEF Inv, Typed
  <2>2. CASE saved[o] # 0
    <3>1. o \in Typed /\ Whole(o)
      BY <1>2, <2>2 DEF Loadable, Uncut, Typed
    <3>2. Means[o] = Means[n]
      BY <1>1, <1>2, <3>1, WholeName
    <3> QED
      BY <3>1, <3>2 DEF LastOf, Spellings
  <2> QED
    BY <2>1, <2>2
<1>4. PICK f \in files : Holds(f, m)
  BY <1>1, <1>2, <1>3 DEF Inv, Stored, Loadable, Typed
<1>5. find_local(C64Name(n)) = {f}
  BY <1>2, <1>4, OneLocal DEF Inv, Holds, find_local
<1> QED
  BY <1>4, <1>5 DEF Loads, Loadable, Holds
-----------------------------------------------------------------------------
(* However often, and under whatever names, files are saved, replaced and  *)
(* deleted: no two carry the same C64 name, and none is created over       *)
(* another (find_local, local_encode and create_local in open_write).      *)
THEOREM NamesCorrect == DevicesSpec => []UniqueNames
<1>1. DevicesInit => Inv
  BY InitInv DEF DevicesInit
<1>2. Inv /\ [DevicesNext]_allVars => Inv'
  BY StepInv
<1> QED
  BY <1>1, <1>2, InvUnique, PTL DEF DevicesSpec

(* LOAD of a name gets what was saved last under a name that means the     *)
(* same file, among those that tftp_build_request lets pass, as long as    *)
(* create_tftp_filename has not cut one into it: for any names and limits, *)
(* and also when the counters are used up or SAVEs are not sent.           *)
THEOREM LoadsCorrect == DevicesSpec => []LoadsLastSaved
<1>1. DevicesInit => Inv
  BY InitInv DEF DevicesInit
<1>2. Inv /\ [DevicesNext]_allVars => Inv'
  BY StepInv
<1> QED
  BY <1>1, <1>2, InvLoads, PTL DEF DevicesSpec
=============================================================================
