--------------------------------- MODULE MEvent --------------------------------
(***************************************************************************)
(* The store through which modules hand objects to each other.  An entry   *)
(* is a bare pointer under a ticker and a description.  add(v) stores a    *)
(* copy on the heap and deletes the object it replaces; add(&v) stores the *)
(* address of an object that belongs to a module; remove deletes what the  *)
(* entry points to.  Each holds the mutex to its end, and so is one step;  *)
(* get returns the pointer and gives up the mutex, so that the object can  *)
(* go away while it is in use.                                             *)
(***************************************************************************)
EXTENDS Naturals

CONSTANTS
    Keys,      (* pairs of a ticker and a description                      *)
    Copies,    (* heap addresses: bound on the copies alive at once        *)
    Members    (* addresses of objects that belong to modules              *)

Null == 0
Addrs == Copies \cup Members

ASSUME AddrsAssumption == Null \notin Addrs /\ Copies \cap Members = {}

VARIABLES
    mp,        (* the pointer stored under each key, Null for no entry     *)
    heap       (* the object at each address: what it was made for and its contents *)

event == <<mp, heap>>

Free == [key |-> <<>>, data |-> {}]

Delete(a) == IF a = Null THEN heap ELSE [heap EXCEPT ![a] = Free]

(* Mutant: the object that is replaced is not deleted.                     *)
AddCopyMutant(key, data) ==
    \E a \in {c \in Copies : heap[c] = Free} :
        /\ heap' = [heap EXCEPT ![a] = [key |-> key, data |-> data]]
        /\ mp' = [mp EXCEPT ![key] = a]

AddCopy(key, data) ==
    LET kept == Delete(mp[key])
    IN  \E a \in {c \in Copies : kept[c] = Free} :
            /\ heap' = [kept EXCEPT ![a] = [key |-> key, data |-> data]]
            /\ mp' = [mp EXCEPT ![key] = a]

AddPointer(key, a) ==
    /\ mp' = [mp EXCEPT ![key] = a]
    /\ UNCHANGED heap

(* Mutant: the entry is not erased.                                        *)
RemoveMutant(key) ==
    /\ heap' = Delete(mp[key])
    /\ UNCHANGED mp

Remove(key) ==
    /\ heap' = Delete(mp[key])
    /\ mp' = [mp EXCEPT ![key] = Null]

Get(key) == mp[key]

================================================================================
