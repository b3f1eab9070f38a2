--------------------------- MODULE NativeHandles ---------------------------
(***************************************************************************)
(* Who owns the memory behind the Java objects.  Every subclass of Native  *)
(* holds the address of a box that lib.rs allocated; a box is freed when   *)
(* close() or the garbage collector's finalizer deletes the instance, or   *)
(* when a native method takes the value out of it: the factories of        *)
(* ValueMut, EntryMut, Array and Id move values into a larger one and zero *)
(* the Java objects afterwards.                                            *)
(*                                                                         *)
(* One application thread works with the objects (they are not meant to be *)
(* shared), the finalizer thread beside it.  The application thread is     *)
(* interrupted where a native method goes from one pointer to the next.    *)
(* Freed addresses are allocated again.                                    *)
(***************************************************************************)
EXTENDS Naturals, Sequences, SequencesExt

CONSTANTS
  Objects,    \* Java objects; a finalized one may stand for a new one
  Addresses,  \* of boxes: bound on what is allocated at a time
  Null,       \* the pointer 0
  Build,      \* "debug" (handles are looked up in ALLOCATOR) or "release"
  MaxArgs     \* bound: objects moved by one call

ASSUME NativeHandlesAssumption ==
  /\ Null \notin Addresses
  /\ Build \in {"debug", "release"}
  /\ MaxArgs \in Nat

VARIABLES
  heap,   \* what is allocated at each address
  kind,   \* the class of each Java object
  ptr,    \* Native.ptr of each
  held,   \* the objects the application can reach
  call,   \* the native method the application thread is in
  args,   \* the objects whose pointers it was given
  ptrs,   \* these pointers, read before the call
  done,   \* how many of them it has gone through
  boxed,  \* the Values it has boxed for its result, not yet in an object
  fault,  \* undefined behaviour has happened
  rules   \* history: has the application kept to Discipline?

vars == <<heap, kind, ptr, held, call, args, ptrs, done, boxed, fault, rules>>

Kinds == {"Surreal", "Value", "ValueMut", "EntryMut"}

(* The calls that move their arguments, with what they take and make:      *)
(* ValueMut.createArray, ValueMut.createObject, EntryMut.newEntry, and     *)
(* Array.fromList, which boxes its own arguments first.  (Id.fromList does *)
(* the same; its result is never freed and is left out.)                   *)
Moving == {"createArray", "createObject", "newEntry", "fromList"}
Takes(op) == IF op = "createObject" THEN "EntryMut" ELSE "ValueMut"
Makes(op) ==
  IF op \in {"createArray", "createObject"} THEN "ValueMut"
  ELSE IF op = "newEntry" THEN "EntryMut" ELSE "Value"

(* The calls that only look: an accessor of a Value, and an operation of   *)
(* Surreal with content or parameters.                                     *)
Looking == {"get", "send"}
LooksFor(i) == IF call = "get" THEN "Value" ELSE IF i = 1 THEN "Surreal" ELSE "ValueMut"

(* Mutant: the missing functions are added.                                *)
AllReleasable == Kinds

(* The classes whose deleteInstance has a function in Rust.  For the       *)
(* others the finalizer ends in an UnsatisfiedLinkError.                   *)
Releasable == {"Surreal", "Value", "EntryMut"}

Init ==
  /\ heap = [a \in Addresses |-> "free"]
  /\ kind = [o \in Objects |-> "none"] /\ ptr = [o \in Objects |-> Null]
  /\ held = {}
  /\ call = "none" /\ args = <<>> /\ ptrs = <<>> /\ done = 0
  /\ boxed = {} /\ fault = "none" /\ rules = "kept"

(* A box of kind k at a, with the Java object o around it.                 *)
Wraps(o, a, k) ==
  /\ kind[o] = "none" /\ heap[a] = "free"
  /\ heap' = [heap EXCEPT ![a] = k]
  /\ kind' = [kind EXCEPT ![o] = k]
-----------------------------------------------------------------------------
(* The application thread, outside a native method                         *)

(* new Surreal(), ValueMut.createString and the like: an object of its own.*)
New ==
  /\ call = "none"
  /\ \E o \in Objects, a \in Addresses, k \in {"Surreal", "ValueMut"} :
       /\ Wraps(o, a, k)
       /\ ptr' = [ptr EXCEPT ![o] = a]
       /\ held' = held \cup {o}
  /\ UNCHANGED <<call, args, ptrs, done, boxed, fault>>

(* A moving call reads the pointers of its arguments and enters the native *)
(* method.  What fromList moves it has boxed itself, each element anew.    *)
Move(op, s) ==
  /\ call = "none"
  /\ \A i \in 1 .. Len(s) : s[i] \in held /\ kind[s[i]] = Takes(op)
  /\ op = "newEntry" => Len(s) = 1
  /\ op = "fromList" => IsInjective(s) /\ \A i \in 1 .. Len(s) : ptr[s[i]] # Null
  /\ call' = op /\ args' = s
  /\ ptrs' = [i \in 1 .. Len(s) |-> ptr[s[i]]]
  /\ done' = 0
  /\ UNCHANGED <<heap, kind, ptr, held, boxed, fault>>

(* value.getArray(), array.get(i), ...                                     *)
Get(v) ==
  /\ call = "none"
  /\ v \in held /\ kind[v] = "Value"
  /\ call' = "get" /\ args' = <<v>> /\ ptrs' = <<ptr[v]>> /\ done' = 0
  /\ UNCHANGED <<heap, kind, ptr, held, boxed, fault>>

(* surreal.create, insert, query with parameters, ...: ValueBuilder makes  *)
(* a ValueMut of the content, and from then on nothing refers to it but    *)
(* its pointer; content that is a ValueMut already is passed as it is.     *)
Send(s, o) ==
  /\ call = "none"
  /\ s \in held /\ kind[s] = "Surreal"
  /\ \/ \E a \in Addresses : /\ Wraps(o, a, "ValueMut")
                             /\ ptr' = [ptr EXCEPT ![o] = a]
     \/ o \in held /\ kind[o] = "ValueMut" /\ UNCHANGED <<heap, kind, ptr>>
  /\ call' = "send" /\ args' = <<s, o>> /\ ptrs' = <<ptr[s], ptr'[o]>> /\ done' = 0
  /\ UNCHANGED <<held, boxed, fault>>

(* Surreal.close(): deleteInstance() at once; again, it finds a zero.      *)
Close(s) ==
  /\ call = "none"
  /\ s \in held /\ kind[s] = "Surreal"
  /\ ptr[s] # Null => heap[ptr[s]] = "Surreal"
  /\ heap' = [a \in Addresses |-> IF a = ptr[s] THEN "free" ELSE heap[a]]
  /\ ptr' = [ptr EXCEPT ![s] = Null]
  /\ UNCHANGED <<kind, held, call, args, ptrs, done, boxed, fault>>

(* The application forgets an object.                                      *)
Drop(o) ==
  /\ o \in held
  /\ held' = held \ {o}
  /\ UNCHANGED <<heap, kind, ptr, call, args, ptrs, done, boxed, fault>>
-----------------------------------------------------------------------------
(* The application thread, inside a native method                          *)

Wanted == IF call \in Moving THEN Takes(call) ELSE LooksFor(done + 1)

(* Mutant: the loop goes on by two.                                        *)
SkipPointer ==
  /\ call # "none" /\ done < Len(ptrs)
  /\ LET p == ptrs[done + 1]
     IN  /\ p \in Addresses /\ heap[p] = Wanted
         /\ heap' = IF call \in Moving THEN [heap EXCEPT ![p] = "free"] ELSE heap
  /\ done' = done + 2
  /\ UNCHANGED <<kind, ptr, held, call, args, ptrs, boxed, fault>>

(* Mutant: get_instance and a clone where the value should be taken.       *)
ClonePointer ==
  /\ call # "none" /\ done < Len(ptrs)
  /\ LET p == ptrs[done + 1] IN p \in Addresses /\ heap[p] = Wanted
  /\ done' = done + 1
  /\ UNCHANGED <<heap, kind, ptr, held, call, args, ptrs, boxed, fault>>

(* get_instance or take_instance of the next pointer succeeds; what is     *)
(* taken is moved out of its box, which is freed.                          *)
UsePointer ==
  /\ call # "none" /\ done < Len(ptrs)
  /\ LET p == ptrs[done + 1]
     IN  /\ p \in Addresses /\ heap[p] = Wanted
         /\ heap' = IF call \in Moving THEN [heap EXCEPT ![p] = "free"] ELSE heap
  /\ done' = done + 1
  /\ UNCHANGED <<kind, ptr, held, call, args, ptrs, boxed, fault>>

(* It fails: a zero, or with debug assertions an address that is not in    *)
(* ALLOCATOR with this type.  What was taken before is lost, and the       *)
(* exception keeps the Java side from zeroing any object.                  *)
BadPointer ==
  /\ call # "none" /\ done < Len(ptrs)
  /\ LET p == ptrs[done + 1]
     IN  p = Null \/ (Build = "debug" /\ p # Null /\ heap[p] # Wanted)
  /\ call' = "none" /\ args' = <<>> /\ ptrs' = <<>> /\ done' = 0
  /\ UNCHANGED <<heap, kind, ptr, held, boxed, fault>>

(* A looking call works on the instance that its first pointer lends it;   *)
(* nothing but the Java object keeps that box from the finalizer.          *)
Working == call \in Looking /\ done = Len(ptrs)
Lent == heap[ptrs[1]] = LooksFor(1)

(* new_value: a Value of the result is boxed.  An operation that returns a *)
(* list boxes many, create() one after each statement.                     *)
BoxResult ==
  /\ Working /\ Lent
  /\ \E a \in Addresses : /\ heap[a] = "free"
                         /\ heap' = [heap EXCEPT ![a] = "Value"]
                         /\ boxed' = boxed \cup {a}
  /\ UNCHANGED <<kind, ptr, held, call, args, ptrs, done, fault>>

(* The exception of a query that fails, of an accessor of the wrong type,  *)
(* or of the JVM where the array of pointers is made.  What was boxed for  *)
(* the result stays in the heap, and no pointer to it is left.             *)
LookFails ==
  /\ Working /\ (boxed = {} => Lent)
  /\ call' = "none" /\ args' = <<>> /\ ptrs' = <<>> /\ done' = 0
  /\ boxed' = {}
  /\ UNCHANGED <<heap, kind, ptr, held, fault>>

(* Mutant: the Java method makes an object of the first pointer only.      *)
LookReturnsFirst ==
  /\ Working /\ (boxed = {} => Lent)
  /\ \E o \in Objects, a \in boxed :
       /\ kind[o] = "none"
       /\ kind' = [kind EXCEPT ![o] = "Value"]
       /\ ptr' = [ptr EXCEPT ![o] = a]
       /\ held' = held \cup {o}
  /\ call' = "none" /\ args' = <<>> /\ ptrs' = <<>> /\ done' = 0
  /\ boxed' = {}
  /\ UNCHANGED <<heap, fault>>

(* The pointers are returned, and the Java method makes an object around   *)
(* each (Value::new).  That touches no box, so it is one step.             *)
LookReturns ==
  /\ Working /\ (boxed = {} => Lent)
  /\ \E new \in SUBSET {o \in Objects : kind[o] = "none"} :
       \E at \in Bijection(new, boxed) :
         /\ kind' = [o \in Objects |-> IF o \in new THEN "Value" ELSE kind[o]]
         /\ ptr' = [o \in Objects |-> IF o \in new THEN at[o] ELSE ptr[o]]
         /\ held' = held \cup new
  /\ call' = "none" /\ args' = <<>> /\ ptrs' = <<>> /\ done' = 0
  /\ boxed' = {}
  /\ UNCHANGED <<heap, fault>>

(* Mutant: the arguments are not zeroed.                                   *)
MoveReturnsUnmoved ==
  /\ call \in Moving /\ done = Len(ptrs)
  /\ \E o \in Objects, a \in Addresses :
       /\ Wraps(o, a, Makes(call))
       /\ ptr' = [ptr EXCEPT ![o] = a]
       /\ held' = held \cup {o}
  /\ call' = "none" /\ args' = <<>> /\ ptrs' = <<>> /\ done' = 0
  /\ UNCHANGED <<boxed, fault>>

(* The same after a moving call, which then zeroes every argument: moved().*)
MoveReturns ==
  /\ call \in Moving /\ done = Len(ptrs)
  /\ \E o \in Objects, a \in Addresses :
       /\ Wraps(o, a, Makes(call))
       /\ ptr' = [x \in Objects |-> IF x = o THEN a
                                    ELSE IF x \in ToSet(args) THEN Null ELSE ptr[x]]
       /\ held' = held \cup {o}
  /\ call' = "none" /\ args' = <<>> /\ ptrs' = <<>> /\ done' = 0
  /\ UNCHANGED <<boxed, fault>>
-----------------------------------------------------------------------------
(* The finalizer thread *)

(* The Java code of a moving call uses its arguments after the native      *)
(* method, which keeps them reachable; the arguments of the other calls    *)
(* are dead once their pointers are read, unless the application has them. *)
Reachable == held \cup (IF call \in Moving THEN ToSet(args) ELSE {})

(* Native.finalize on an unreachable object: release_instance, which       *)
(* checks nothing but zero.                                                *)
Finalize(o) ==
  /\ kind[o] # "none" /\ o \notin Reachable
  /\ kind[o] \in Releasable /\ ptr[o] # Null => heap[ptr[o]] = kind[o]
  /\ heap' = [a \in Addresses |->
                IF kind[o] \in Releasable /\ a = ptr[o] THEN "free" ELSE heap[a]]
  /\ kind' = [kind EXCEPT ![o] = "none"]
  /\ ptr' = [ptr EXCEPT ![o] = Null]
  /\ UNCHANGED <<held, call, args, ptrs, done, boxed, fault>>
-----------------------------------------------------------------------------
(* A box that is not there, or another type's, is read or freed.           *)
UndefinedBehaviour ==
  /\ \/ /\ Build = "release" /\ call # "none" /\ done < Len(ptrs)
        /\ ptrs[done + 1] \in Addresses /\ heap[ptrs[done + 1]] # Wanted
     \/ Working /\ ~Lent
     \/ \E s \in held : /\ call = "none" /\ kind[s] = "Surreal"
                        /\ ptr[s] # Null /\ heap[ptr[s]] # "Surreal"
     \/ \E o \in Objects \ Reachable : /\ kind[o] \in Releasable
                                       /\ ptr[o] # Null /\ heap[ptr[o]] # kind[o]
  /\ fault' = "badPointer"
  /\ UNCHANGED <<heap, kind, ptr, held, call, args, ptrs, done, boxed>>

(* What the factories expect of the application: it moves only what it     *)
(* still has, and no object twice in one call; and it holds on to an       *)
(* object as long as a call works on it.                                   *)
Discipline ==
  /\ call = "none" /\ call' \in Moving =>
       IsInjective(args') /\ \A i \in 1 .. Len(ptrs') : ptrs'[i] # Null
  /\ call \in Looking => ToSet(args) \cap held \subseteq held'

Next ==
  /\ fault = "none"
  /\ \/ New
     \/ \E op \in Moving, s \in SeqOf(Objects, MaxArgs) : Move(op, s)
     \/ \E o \in Objects : Get(o) \/ Close(o) \/ Drop(o) \/ Finalize(o)
     \/ \E s, o \in Objects : Send(s, o)
     \/ UsePointer \/ BadPointer \/ MoveReturns
     \/ BoxResult \/ LookFails \/ LookReturns
     \/ UndefinedBehaviour
  /\ rules' = IF Discipline THEN rules ELSE "broken"

Spec == Init /\ [][Next]_vars
-----------------------------------------------------------------------------
Pointers == Addresses \cup {Null}

TypeOK ==
  /\ heap \in [Addresses -> Kinds \cup {"free"}]
  /\ kind \in [Objects -> Kinds \cup {"none"}]
  /\ ptr \in [Objects -> Pointers]
  /\ held \in SUBSET Objects
  /\ call \in Moving \cup Looking \cup {"none"}
  /\ args \in Seq(Objects) /\ ptrs \in Seq(Pointers)
  /\ Len(ptrs) = Len(args) /\ done \in 0 .. Len(ptrs)
  /\ boxed \in SUBSET Addresses
  /\ fault \in {"none", "badPointer"} /\ rules \in {"kept", "broken"}

(* The objects that the moving call in progress has already emptied.       *)
Emptied == IF call \in Moving THEN {args[i] : i \in 1 .. done} ELSE {}

(* As long as the application keeps to Discipline, every box that a Java   *)
(* object points to is there and of its class, and no two objects point to *)
(* the same one; only inside a moving call do the objects it has emptied   *)
(* still hold their old pointers.                                          *)
Owned ==
  rules = "kept" =>
    /\ \A o \in Objects : ptr[o] # Null /\ o \notin Emptied => heap[ptr[o]] = kind[o]
    /\ \A o, p \in Objects : ptr[o] # Null /\ ptr[o] = ptr[p] => o = p

(* As long as the application keeps to Discipline, neither its thread nor  *)
(* the finalizer reads or frees a box that is gone or another object's.    *)
NoBadPointer == rules = "kept" => fault = "none"

(* Memory that is allocated, and that neither an object of its class nor a *)
(* call in progress can reach: nobody will free it.                        *)
Leaked(a) ==
  /\ heap[a] # "free" /\ a \notin boxed
  /\ \A o \in Objects : ptr[o] # a \/ kind[o] # heap[a]

(* Whatever the application does, memory is lost in two ways only: it was  *)
(* a ValueMut's, which has no function to delete it; or it was boxed for   *)
(* the result of a call that then threw, and so handed over no object.     *)
OnlyTheseLeak ==
  [][\A a \in Addresses : ~Leaked(a) /\ Leaked(a)' =>
       \/ heap[a] = "ValueMut"
       \/ a \in boxed /\ call' = "none" /\ UNCHANGED held]_vars
=============================================================================
