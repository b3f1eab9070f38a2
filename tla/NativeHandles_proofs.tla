------------------------ MODULE NativeHandles_proofs ------------------------
(* Theorems about NativeHandles, for any objects, addresses and numbers of  *)
(* arguments, in both builds.                                               *)
EXTENDS NativeHandles, TLAPS

(* An object without a class has no pointer and is out of reach.            *)
Blank == \A o \in Objects : kind[o] = "none" => ptr[o] = Null /\ o \notin held

(* What a call is given is a sequence of objects.                           *)
LEMMA Given ==
  ASSUME NEW s \in SeqOf(Objects, MaxArgs)
  PROVE  s \in Seq(Objects)
BY DEF SeqOf

(* A returning call wraps each boxed Value in a new object of its own.      *)
Hands(new, at) ==
  /\ new \subseteq Objects /\ at \in [new -> boxed]
  /\ \A o \in new : kind[o] = "none"
  /\ \A a \in boxed : \E o \in new : at[o] = a
  /\ \A o, p \in new : at[o] = at[p] => o = p
  /\ kind' = [o \in Objects |-> IF o \in new THEN "Value" ELSE kind[o]]
  /\ ptr' = [o \in Objects |-> IF o \in new THEN at[o] ELSE ptr[o]]
  /\ held' = held \cup new

LEMMA Returned ==
  ASSUME LookReturns
  PROVE  \E new, at : Hands(new, at)
<1>1. PICK new \in SUBSET {o \in Objects : kind[o] = "none"} : \E at \in Bijection(new, boxed) :
        /\ kind' = [o \in Objects |-> IF o \in new THEN "Value" ELSE kind[o]]
        /\ ptr' = [o \in Objects |-> IF o \in new THEN at[o] ELSE ptr[o]]
        /\ held' = held \cup new
  BY DEF LookReturns
<1>2. PICK at \in Bijection(new, boxed) :
        /\ kind' = [o \in Objects |-> IF o \in new THEN "Value" ELSE kind[o]]
        /\ ptr' = [o \in Objects |-> IF o \in new THEN at[o] ELSE ptr[o]]
        /\ held' = held \cup new
  BY <1>1
<1>3. /\ at \in [new -> boxed]
      /\ \A a \in boxed : \E o \in new : at[o] = a
      /\ \A o, p \in new : at[o] = at[p] => o = p
  BY DEF Bijection, Injection, Surjection, IsInjective
<1>4. new \subseteq Objects /\ \A o \in new : kind[o] = "none"
  BY <1>1
<1>5. Hands(new, at)
  BY <1>2, <1>3, <1>4 DEF Hands
<1>6. QED
  BY <1>5

(* Every reachable value of a variable has the type declared for it.        *)
THEOREM Typing == Spec => []TypeOK
<1> USE NativeHandlesAssumption DEF Kinds, Moving, Looking, Pointers
<1>1. Init => TypeOK
  BY DEF Init, TypeOK
<1>2. TypeOK /\ [Next]_vars => TypeOK'
  <2> SUFFICES ASSUME TypeOK, [Next]_vars
               PROVE  TypeOK'
    OBVIOUS
  <2> USE DEF TypeOK
  <2>1. CASE UNCHANGED vars
    BY <2>1 DEF vars
  <2> SUFFICES ASSUME Next
               PROVE  TypeOK'
    BY <2>1
  <2>2. rules' \in {"kept", "broken"}
    BY DEF Next
  <2>3. CASE New
    BY <2>2, <2>3 DEF New, Wraps
  <2>4. ASSUME NEW op \in Moving, NEW s \in SeqOf(Objects, MaxArgs), Move(op, s)
        PROVE  TypeOK'
    <3>1. s \in Seq(Objects)
      BY Given
    <3>2. /\ ptrs' \in Seq(Pointers) /\ Len(ptrs') = Len(s)
      BY <2>4, <3>1 DEF Move
    <3>3. QED
      BY <2>2, <2>4, <3>1, <3>2 DEF Move
  <2>5. ASSUME NEW o \in Objects, Get(o)
        PROVE  TypeOK'
    BY <2>2, <2>5 DEF Get
  <2>6. ASSUME NEW s \in Objects, NEW o \in Objects, Send(s, o)
        PROVE  TypeOK'
    <3>1. heap' \in [Addresses -> Kinds \cup {"free"}] /\ kind' \in [Objects -> Kinds \cup {"none"}]
      BY <2>6 DEF Send, Wraps
    <3>2. ptr' \in [Objects -> Pointers]
      BY <2>6 DEF Send
    <3>3. QED
      BY <2>2, <2>6, <3>1, <3>2 DEF Send
  <2>7. ASSUME NEW o \in Objects, Close(o) \/ Drop(o) \/ Finalize(o)
        PROVE  TypeOK'
    BY <2>2, <2>7 DEF Close, Drop, Finalize
  <2>8. CASE UsePointer
    BY <2>2, <2>8 DEF UsePointer
  <2>9. CASE BadPointer \/ LookFails
    <3>1. /\ call' = "none" /\ args' = <<>> /\ ptrs' = <<>> /\ done' = 0
          /\ UNCHANGED <<heap, kind, ptr, held, fault>> /\ boxed' \in {boxed, {}}
      BY <2>9 DEF BadPointer, LookFails
    <3>2. QED
      BY <2>2, <3>1
  <2>10. CASE LookReturns
    <3>1. /\ call' = "none" /\ args' = <<>> /\ ptrs' = <<>> /\ done' = 0
          /\ boxed' = {} /\ UNCHANGED <<heap, fault>>
      BY <2>10 DEF LookReturns
    <3>2. PICK new, at : Hands(new, at)
      BY <2>10, Returned
    <3>3. kind' \in [Objects -> Kinds \cup {"none"}] /\ held' \in SUBSET Objects
      BY <3>2 DEF Hands
    <3>4. ptr' \in [Objects -> Pointers]
      BY <3>2 DEF Hands
    <3>5. QED
      BY <2>2, <3>1, <3>3, <3>4
  <2>14. CASE BoxResult
    BY <2>2, <2>14 DEF BoxResult
  <2>11. CASE MoveReturns
    <3>1. PICK o \in Objects, a \in Addresses :
            /\ Wraps(o, a, Makes(call))
            /\ ptr' = [x \in Objects |-> IF x = o THEN a
                                         ELSE IF x \in ToSet(args) THEN Null ELSE ptr[x]]
            /\ held' = held \cup {o}
      BY <2>11 DEF MoveReturns
    <3>2. Makes(call) \in Kinds
      BY DEF Makes
    <3>3. ptr' \in [Objects -> Pointers]
      BY <3>1
    <3>4. QED
      BY <2>2, <2>11, <3>1, <3>2, <3>3 DEF MoveReturns, Wraps
  <2>12. CASE UndefinedBehaviour
    BY <2>2, <2>12 DEF UndefinedBehaviour
  <2>13. QED
    BY <2>3, <2>4, <2>5, <2>6, <2>7, <2>8, <2>9, <2>10, <2>11, <2>12, <2>14 DEF Next
<1>3. QED
  BY <1>1, <1>2, PTL DEF Spec

(* Blank, in the terms of objects that have a class.                        *)
LEMMA BlankStep == TypeOK /\ Blank /\ [Next]_vars => Blank'
<1> SUFFICES ASSUME TypeOK, Blank, [Next]_vars
             PROVE  Blank'
  OBVIOUS
<1> USE NativeHandlesAssumption DEF TypeOK, Blank
<1>1. CASE UNCHANGED vars
  BY <1>1 DEF vars
<1>2. CASE New
  BY <1>2 DEF New, Wraps, Kinds
<1>3. ASSUME NEW op \in Moving, NEW s \in SeqOf(Objects, MaxArgs), Move(op, s)
      PROVE  Blank'
  BY <1>3 DEF Move
<1>4. ASSUME NEW o \in Objects, Get(o) \/ Close(o) \/ Drop(o) \/ Finalize(o)
      PROVE  Blank'
  BY <1>4 DEF Get, Close, Drop, Finalize, Reachable
<1>5. ASSUME NEW s \in Objects, NEW o \in Objects, Send(s, o)
      PROVE  Blank'
  BY <1>5 DEF Send, Wraps
<1>6. CASE UsePointer \/ BadPointer \/ LookFails \/ BoxResult \/ UndefinedBehaviour
  BY <1>6 DEF UsePointer, BadPointer, LookFails, BoxResult, UndefinedBehaviour
<1>7. CASE LookReturns
  BY <1>7, Returned DEF Hands
<1>8. CASE MoveReturns
  <2>1. PICK o \in Objects, a \in Addresses :
          /\ Wraps(o, a, Makes(call))
          /\ ptr' = [x \in Objects |-> IF x = o THEN a
                                       ELSE IF x \in ToSet(args) THEN Null ELSE ptr[x]]
          /\ held' = held \cup {o}
    BY <1>8 DEF MoveReturns
  <2>2. Makes(call) # "none"
    BY DEF Makes
  <2>3. QED
    BY <2>1, <2>2 DEF Wraps
<1>9. QED
  BY <1>1, <1>2, <1>3, <1>4, <1>5, <1>6, <1>7, <1>8 DEF Next

(* A moving call has emptied the boxes it has gone through, whose objects   *)
(* it will zero.                                                            *)
Emptying ==
  call \in Moving =>
    \A i \in 1 .. Len(args) :
      /\ ptrs[i] = ptr[args[i]]
      /\ i <= done => ptrs[i] \in Addresses /\ heap[ptrs[i]] = "free"

(* Nothing but the finalizer frees a Value: its object always points to it, *)
(* and no object points to one that is boxed for a result.                  *)
Values ==
  /\ boxed # {} => Working
  /\ \A a \in boxed : heap[a] = "Value"
  /\ \A o \in Objects : kind[o] = "Value" /\ ptr[o] # Null =>
       heap[ptr[o]] = "Value" /\ ptr[o] \notin boxed
  /\ \A o, p \in Objects :
       kind[o] = "Value" /\ kind[p] = "Value" /\ ptr[o] # Null /\ ptr[o] = ptr[p] => o = p

(* What holds whatever the application does, disciplined or not.            *)
AnyUse == Blank /\ Emptying /\ Values

(* A new box with a new object around it, while nothing is boxed for a      *)
(* result, does not disturb the Values.                                     *)
LEMMA WrapValues ==
  ASSUME TypeOK, Values, boxed = {}, boxed' = {},
         NEW o \in Objects, NEW a \in Addresses, NEW k \in Kinds, Wraps(o, a, k),
         ptr'[o] = a, \A x \in Objects : x # o => ptr'[x] \in {ptr[x], Null}
  PROVE  Values'
<1> USE NativeHandlesAssumption
<1>1. /\ heap'[a] = k /\ kind'[o] = k /\ heap[a] = "free"
      /\ \A b \in Addresses : b # a => heap'[b] = heap[b]
      /\ \A x \in Objects : x # o => kind'[x] = kind[x]
  BY DEF Wraps, TypeOK
<1>2. ASSUME NEW x \in Objects, x # o, kind'[x] = "Value", ptr'[x] # Null
      PROVE  kind[x] = "Value" /\ ptr'[x] = ptr[x] /\ ptr[x] # a /\ heap'[ptr[x]] = "Value"
  <2>1. kind[x] = "Value" /\ ptr'[x] = ptr[x]
    BY <1>1, <1>2
  <2>2. heap[ptr[x]] = "Value" /\ ptr[x] \in Addresses
    BY <1>2, <2>1 DEF Values, TypeOK, Pointers
  <2>3. QED
    BY <1>1, <2>1, <2>2
<1>3. \A x \in Objects : kind'[x] = "Value" /\ ptr'[x] # Null =>
        heap'[ptr'[x]] = "Value" /\ ptr'[x] \notin boxed'
  BY <1>1, <1>2
<1>4. \A x, y \in Objects :
        kind'[x] = "Value" /\ kind'[y] = "Value" /\ ptr'[x] # Null /\ ptr'[x] = ptr'[y] => x = y
  BY <1>2 DEF Values
<1>5. QED
  BY <1>3, <1>4 DEF Values

(* A returning call gives each Value that was boxed an object of its own.   *)
LEMMA ReturnValues == TypeOK /\ TypeOK' /\ Values /\ LookReturns => Values'
<1> SUFFICES ASSUME TypeOK, TypeOK', Values, LookReturns
             PROVE  Values'
  OBVIOUS
<1>1. PICK new, at : Hands(new, at)
  BY Returned
<1>2. boxed' = {} /\ heap' = heap
  BY DEF LookReturns
<1>3. \A x \in Objects : /\ x \in new => ptr'[x] \in boxed
                         /\ x \notin new => kind'[x] = kind[x] /\ ptr'[x] = ptr[x]
  BY <1>1 DEF Hands
<1>4. \A x, y \in new : ptr'[x] = ptr'[y] => x = y
  BY <1>1 DEF Hands
<1>5. \A x \in Objects : kind'[x] = "Value" /\ ptr'[x] # Null => heap'[ptr'[x]] = "Value"
  BY <1>2, <1>3 DEF Values
<1>6. \A x, y \in Objects :
        kind'[x] = "Value" /\ kind'[y] = "Value" /\ ptr'[x] # Null /\ ptr'[x] = ptr'[y] => x = y
  BY <1>3, <1>4 DEF Values
<1>7. QED
  BY <1>2, <1>5, <1>6 DEF Values

(* The finalizer frees a Value of its object and no other.                  *)
LEMMA FinalizeValues ==
  ASSUME TypeOK, Values, NEW o \in Objects, Finalize(o)
  PROVE  Values'
<1> USE NativeHandlesAssumption
<1>1. /\ kind[o] \in Releasable /\ ptr[o] # Null => heap[ptr[o]] = kind[o]
      /\ \A a \in Addresses :
           heap'[a] = IF kind[o] \in Releasable /\ a = ptr[o] THEN "free" ELSE heap[a]
      /\ kind' = [kind EXCEPT ![o] = "none"] /\ ptr' = [ptr EXCEPT ![o] = Null]
      /\ UNCHANGED <<call, ptrs, done, boxed>>
  BY DEF Finalize
<1>2. \A x \in Objects : x # o => kind'[x] = kind[x] /\ ptr'[x] = ptr[x]
  BY <1>1 DEF TypeOK
<1>3. kind'[o] = "none"
  BY <1>1 DEF TypeOK
<1>4. boxed' # {} => Working'
  BY <1>1 DEF Values, Working
<1>5. \A a \in boxed' : heap'[a] = "Value"
  BY <1>1 DEF Values, TypeOK
<1>6. ASSUME NEW x \in Objects, kind'[x] = "Value", ptr'[x] # Null
      PROVE  heap'[ptr'[x]] = "Value" /\ ptr'[x] \notin boxed'
  <2>1. x # o /\ kind[x] = "Value" /\ ptr'[x] = ptr[x] /\ ptr[x] \in Addresses
    BY <1>2, <1>3, <1>6 DEF TypeOK, Pointers
  <2>2. heap[ptr[x]] = "Value" /\ ptr[x] \notin boxed
    BY <1>6, <2>1 DEF Values
  <2>3. kind[o] \in Releasable /\ ptr[o] = ptr[x] => FALSE
    BY <1>1, <1>6, <2>1, <2>2 DEF Values
  <2>4. QED
    BY <1>1, <2>1, <2>2, <2>3
<1>7. \A x, y \in Objects :
        kind'[x] = "Value" /\ kind'[y] = "Value" /\ ptr'[x] # Null /\ ptr'[x] = ptr'[y] => x = y
  BY <1>2, <1>3 DEF Values
<1>8. QED
  BY <1>4, <1>5, <1>6, <1>7 DEF Values

(* Every step keeps AnyUse.                                                 *)
LEMMA AnyUseStep == TypeOK /\ TypeOK' /\ AnyUse /\ [Next]_vars => AnyUse'
<1> SUFFICES ASSUME TypeOK, TypeOK', Blank, Emptying, Values, [Next]_vars
             PROVE  Emptying' /\ Values'
  BY BlankStep DEF AnyUse
<1> USE NativeHandlesAssumption
<1>1. CASE UNCHANGED vars
  BY <1>1 DEF vars, Emptying, Values, Working
<1>2. CASE New
  <2>1. PICK o \in Objects, a \in Addresses, k \in {"Surreal", "ValueMut"} :
          Wraps(o, a, k) /\ ptr' = [ptr EXCEPT ![o] = a]
    BY <1>2 DEF New
  <2>2. call = "none" /\ call' = "none" /\ boxed' = boxed
    BY <1>2 DEF New
  <2>3. boxed = {}
    BY <2>2 DEF Values, Working, Looking
  <2>4. ptr'[o] = a /\ \A x \in Objects : x # o => ptr'[x] \in {ptr[x], Null}
    BY <2>1 DEF TypeOK
  <2>5. Values'
    BY <2>1, <2>2, <2>3, <2>4, WrapValues DEF Kinds
  <2>6. QED
    BY <2>2, <2>5 DEF Emptying, Moving
<1>3. ASSUME NEW op \in Moving, NEW s \in SeqOf(Objects, MaxArgs), Move(op, s)
      PROVE  Emptying' /\ Values'
  <2>1. /\ args' = s /\ ptrs' = [i \in 1 .. Len(s) |-> ptr[s[i]]] /\ done' = 0
        /\ call = "none" /\ UNCHANGED <<heap, kind, ptr, boxed>>
    BY <1>3 DEF Move
  <2>2. Emptying'
    BY <2>1, Given DEF Emptying
  <2>3. boxed = {}
    BY <2>1 DEF Values, Working, Looking
  <2>4. QED
    BY <2>1, <2>2, <2>3 DEF Values
<1>4. ASSUME NEW o \in Objects, Get(o)
      PROVE  Emptying' /\ Values'
  <2>1. call = "none" /\ call' \notin Moving /\ UNCHANGED <<heap, kind, ptr, boxed>>
    BY <1>4 DEF Get, Moving
  <2>2. boxed = {}
    BY <2>1 DEF Values, Working, Looking
  <2>3. QED
    BY <2>1, <2>2 DEF Emptying, Values
<1>5. ASSUME NEW s \in Objects, Close(s)
      PROVE  Emptying' /\ Values'
  <2>1. /\ kind[s] = "Surreal" /\ (ptr[s] # Null => heap[ptr[s]] = "Surreal")
        /\ \A a \in Addresses : heap'[a] = IF a = ptr[s] THEN "free" ELSE heap[a]
        /\ ptr' = [ptr EXCEPT ![s] = Null]
        /\ call = "none" /\ UNCHANGED <<kind, call, boxed>>
    BY <1>5 DEF Close
  <2>2. boxed = {}
    BY <2>1 DEF Values, Working, Looking
  <2>3. \A x \in Objects : kind[x] = "Value" => ptr'[x] = ptr[x]
    BY <2>1 DEF TypeOK
  <2>4. \A x \in Objects : kind[x] = "Value" /\ ptr[x] # Null =>
          heap[ptr[x]] = "Value" /\ ptr[x] \in Addresses
    BY DEF Values, TypeOK, Pointers
  <2>5. Values'
    BY <2>1, <2>2, <2>3, <2>4 DEF Values
  <2>6. QED
    BY <2>1, <2>5 DEF Emptying, Moving
<1>6. ASSUME NEW o \in Objects, Drop(o)
      PROVE  Emptying' /\ Values'
  BY <1>6 DEF Drop, Emptying, Values, Working
<1>7. ASSUME NEW o \in Objects, Finalize(o)
      PROVE  Emptying' /\ Values'
  <2>1. /\ o \notin Reachable
        /\ \A a \in Addresses :
             heap'[a] = IF kind[o] \in Releasable /\ a = ptr[o] THEN "free" ELSE heap[a]
        /\ ptr' = [ptr EXCEPT ![o] = Null]
        /\ UNCHANGED <<call, args, ptrs, done>>
    BY <1>7 DEF Finalize
  <2>2. Emptying'
    <3>1. SUFFICES ASSUME call \in Moving, NEW i \in 1 .. Len(args)
                   PROVE  /\ ptrs[i] = ptr'[args[i]]
                          /\ i <= done => ptrs[i] \in Addresses /\ heap'[ptrs[i]] = "free"
      BY <2>1 DEF Emptying
    <3>2. args[i] \in ToSet(args) /\ args[i] \in Objects
      <4>1. args \in Seq(Objects)
        BY DEF TypeOK
      <4>2. i \in DOMAIN args
        BY <3>1, <4>1
      <4>3. QED
        BY <4>1, <4>2 DEF ToSet
    <3>3. args[i] # o
      BY <2>1, <3>1, <3>2 DEF Reachable
    <3>4. ptr'[args[i]] = ptr[args[i]]
      BY <2>1, <3>2, <3>3 DEF TypeOK
    <3>5. QED
      BY <2>1, <3>1, <3>4 DEF Emptying
  <2>3. QED
    BY <1>7, <2>2, FinalizeValues
<1>8. ASSUME NEW s \in Objects, NEW o \in Objects, Send(s, o)
      PROVE  Emptying' /\ Values'
  <2>1. call = "none" /\ call' \notin Moving /\ boxed' = boxed
    BY <1>8 DEF Send, Moving
  <2>2. boxed = {}
    BY <2>1 DEF Values, Working, Looking
  <2>3. ASSUME NEW a \in Addresses, Wraps(o, a, "ValueMut"), ptr' = [ptr EXCEPT ![o] = a]
        PROVE  Values'
    <3>1. ptr'[o] = a /\ \A x \in Objects : x # o => ptr'[x] \in {ptr[x], Null}
      BY <2>3 DEF TypeOK
    <3>2. QED
      BY <2>1, <2>2, <2>3, <3>1, WrapValues DEF Kinds
  <2>4. CASE UNCHANGED <<heap, kind, ptr>>
    BY <2>1, <2>2, <2>4 DEF Values, Emptying
  <2>5. QED
    BY <1>8, <2>1, <2>3, <2>4 DEF Send, Emptying
<1>9. CASE UsePointer
  <2> DEFINE p == ptrs[done + 1]
  <2>1. /\ call # "none" /\ done < Len(ptrs) /\ p \in Addresses /\ heap[p] = Wanted
        /\ heap' = IF call \in Moving THEN [heap EXCEPT ![p] = "free"] ELSE heap
        /\ done' = done + 1 /\ UNCHANGED <<kind, ptr, held, call, args, ptrs, boxed>>
    BY <1>9 DEF UsePointer
  <2> HIDE DEF p
  <2>2. \A a \in Addresses : heap'[a] \in {heap[a], "free"}
    BY <2>1 DEF TypeOK
  <2>3. Emptying'
    <3>1. SUFFICES ASSUME call \in Moving, NEW i \in 1 .. Len(args)
                   PROVE  /\ ptrs[i] = ptr[args[i]]
                          /\ i <= done + 1 => ptrs[i] \in Addresses /\ heap'[ptrs[i]] = "free"
      BY <2>1 DEF Emptying
    <3>2. heap'[p] = "free"
      BY <2>1, <3>1 DEF TypeOK
    <3>3. CASE i <= done
      BY <2>2, <3>1, <3>3 DEF Emptying
    <3>4. CASE i = done + 1
      BY <2>1, <3>1, <3>2, <3>4 DEF Emptying, p
    <3>5. CASE i > done + 1
      BY <3>1, <3>5 DEF Emptying, TypeOK
    <3>6. QED
      BY <3>3, <3>4, <3>5 DEF TypeOK
  <2>4. boxed = {}
    BY <2>1 DEF Values, Working, TypeOK
  <2>5. call \in Moving => heap[p] # "Value"
    BY <2>1 DEF Wanted, Takes
  <2>6. \A a \in Addresses : heap[a] = "Value" => heap'[a] = "Value"
    BY <2>1, <2>5 DEF TypeOK
  <2>7. \A x \in Objects : ptr[x] # Null => ptr[x] \in Addresses
    BY DEF TypeOK, Pointers
  <2>8. Values'
    BY <2>1, <2>4, <2>6, <2>7 DEF Values
  <2>9. QED
    BY <2>3, <2>8
<1>10. CASE BadPointer \/ LookFails
  <2>1. call' = "none" /\ UNCHANGED <<heap, kind, ptr>>
    BY <1>10 DEF BadPointer, LookFails
  <2>2. boxed' = {}
    BY <1>10 DEF BadPointer, LookFails, Values, Working, TypeOK
  <2>3. QED
    BY <2>1, <2>2 DEF Values, Emptying, Moving
<1>11. CASE BoxResult
  <2>1. PICK a \in Addresses : /\ heap[a] = "free"
                               /\ heap' = [heap EXCEPT ![a] = "Value"]
                               /\ boxed' = boxed \cup {a}
    BY <1>11 DEF BoxResult
  <2>2. Working /\ UNCHANGED <<kind, ptr, held, call, args, ptrs, done>>
    BY <1>11 DEF BoxResult
  <2>3. \A x \in Objects : kind[x] = "Value" /\ ptr[x] # Null =>
          ptr[x] \in Addresses /\ ptr[x] # a
    BY <2>1 DEF Values, TypeOK, Pointers
  <2>4. \A b \in boxed' : heap'[b] = "Value"
    BY <2>1 DEF Values, TypeOK
  <2>5. \A x \in Objects : kind[x] = "Value" /\ ptr[x] # Null =>
          heap'[ptr[x]] = "Value" /\ ptr[x] \notin boxed'
    BY <2>1, <2>3 DEF Values, TypeOK
  <2>6. Values'
    BY <2>2, <2>4, <2>5 DEF Values, Working
  <2>7. QED
    BY <2>2, <2>6 DEF Emptying, Working, Looking, Moving
<1>12. CASE LookReturns
  <2>1. call' = "none"
    BY <1>12 DEF LookReturns
  <2>2. QED
    BY <1>12, <2>1, ReturnValues DEF Emptying, Moving
<1>13. CASE MoveReturns
  <2>1. PICK o \in Objects, a \in Addresses :
          /\ Wraps(o, a, Makes(call))
          /\ ptr' = [x \in Objects |-> IF x = o THEN a
                                       ELSE IF x \in ToSet(args) THEN Null ELSE ptr[x]]
    BY <1>13 DEF MoveReturns
  <2>2. call \in Moving /\ call' = "none" /\ boxed' = boxed
    BY <1>13 DEF MoveReturns
  <2>3. boxed = {}
    BY <2>2 DEF Values, Working, Looking, Moving
  <2>4. Makes(call) \in Kinds
    BY DEF Makes, Kinds
  <2>5. ptr'[o] = a /\ \A x \in Objects : x # o => ptr'[x] \in {ptr[x], Null}
    BY <2>1
  <2>6. Values'
    BY <2>1, <2>2, <2>3, <2>4, <2>5, WrapValues
  <2>7. QED
    BY <2>2, <2>6 DEF Emptying, Moving
<1>14. CASE UndefinedBehaviour
  BY <1>14 DEF UndefinedBehaviour, Emptying, Values, Working
<1>15. QED
  BY <1>1, <1>2, <1>3, <1>4, <1>5, <1>6, <1>7, <1>8, <1>9, <1>10, <1>11, <1>12, <1>13, <1>14 DEF Next

(* AnyUse holds in every reachable state.                                   *)
LEMMA AnyUseInvariance == Spec => [](TypeOK /\ AnyUse)
<1>1. Init => AnyUse
  BY NativeHandlesAssumption DEF Init, AnyUse, Blank, Emptying, Values, Moving
<1>2. TypeOK /\ TypeOK' /\ AnyUse /\ [Next]_vars => AnyUse'
  BY AnyUseStep
<1>3. QED
  BY <1>1, <1>2, Typing, PTL DEF Spec

(* A new box has an object that had none; so nothing is lost if the objects *)
(* of the other boxes keep their pointers.                                  *)
LEMMA WrapLosesNone ==
  ASSUME TypeOK, NEW o \in Objects, NEW a \in Addresses, NEW k \in Kinds, Wraps(o, a, k),
         ptr'[o] = a, boxed' = boxed,
         \A x \in Objects : x # o /\ ptr[x] \in Addresses /\ heap[ptr[x]] # "free" => ptr'[x] = ptr[x],
         NEW b \in Addresses, Leaked(b)'
  PROVE  Leaked(b)
<1>1. /\ heap'[a] = k /\ kind'[o] = k /\ kind[o] = "none"
      /\ \A c \in Addresses : c # a => heap'[c] = heap[c]
      /\ \A x \in Objects : x # o => kind'[x] = kind[x]
  BY DEF Wraps, TypeOK
<1>2. b # a /\ heap'[b] = heap[b] /\ heap[b] # "free" /\ b \notin boxed
  BY <1>1 DEF Leaked
<1>3. ASSUME NEW x \in Objects, ptr[x] = b, kind[x] = heap[b]
      PROVE  FALSE
  <2>1. x # o
    BY <1>1, <1>3 DEF TypeOK, Kinds
  <2>2. ptr'[x] = b /\ kind'[x] = heap'[b]
    BY <1>1, <1>2, <1>3, <2>1
  <2>3. QED
    BY <2>2 DEF Leaked
<1>4. QED
  BY <1>2, <1>3 DEF Leaked

(* Every step loses a ValueMut only, or what a call that throws has boxed.  *)
LEMMA LossStep ==
  ASSUME TypeOK, AnyUse, [Next]_vars, NEW b \in Addresses, Leaked(b)',
         heap[b] # "ValueMut", ~(b \in boxed /\ call' = "none" /\ UNCHANGED held)
  PROVE  Leaked(b)
<1> USE NativeHandlesAssumption
<1>1. CASE UNCHANGED <<heap, kind, ptr, boxed>>
  BY <1>1 DEF Leaked
<1>2. CASE UNCHANGED vars
  BY <1>1, <1>2 DEF vars
<1>3. CASE New
  <2>1. PICK o \in Objects, a \in Addresses, k \in {"Surreal", "ValueMut"} :
          Wraps(o, a, k) /\ ptr' = [ptr EXCEPT ![o] = a]
    BY <1>3 DEF New
  <2>2. ptr'[o] = a /\ (\A x \in Objects : x # o => ptr'[x] = ptr[x]) /\ boxed' = boxed
    BY <1>3, <2>1 DEF New, TypeOK
  <2>3. QED
    BY <2>1, <2>2, WrapLosesNone DEF Kinds
<1>4. ASSUME NEW op \in Moving, NEW s \in SeqOf(Objects, MaxArgs), Move(op, s)
      PROVE  Leaked(b)
  BY <1>1, <1>4 DEF Move
<1>5. ASSUME NEW o \in Objects, Get(o) \/ Drop(o)
      PROVE  Leaked(b)
  BY <1>1, <1>5 DEF Get, Drop
<1>6. ASSUME NEW s \in Objects, NEW o \in Objects, Send(s, o)
      PROVE  Leaked(b)
  <2>1. boxed' = boxed
    BY <1>6 DEF Send
  <2>2. ASSUME NEW a \in Addresses, Wraps(o, a, "ValueMut"), ptr' = [ptr EXCEPT ![o] = a]
        PROVE  Leaked(b)
    <3>1. ptr'[o] = a /\ \A x \in Objects : x # o => ptr'[x] = ptr[x]
      BY <2>2 DEF TypeOK
    <3>2. QED
      BY <2>1, <2>2, <3>1, WrapLosesNone DEF Kinds
  <2>3. QED
    BY <1>1, <1>6, <2>1, <2>2 DEF Send
<1>7. ASSUME NEW s \in Objects, Close(s)
      PROVE  Leaked(b)
  <2>1. /\ heap'[b] = IF b = ptr[s] THEN "free" ELSE heap[b]
        /\ ptr' = [ptr EXCEPT ![s] = Null] /\ UNCHANGED <<kind, boxed>>
    BY <1>7 DEF Close
  <2>2. heap'[b] = heap[b] /\ ptr[s] # b
    BY <2>1 DEF Leaked
  <2>3. \A x \in Objects : x # s => ptr'[x] = ptr[x]
    BY <2>1 DEF TypeOK
  <2>4. QED
    BY <2>1, <2>2, <2>3 DEF Leaked
<1>8. ASSUME NEW o \in Objects, Finalize(o)
      PROVE  Leaked(b)
  <2>1. /\ heap'[b] = IF kind[o] \in Releasable /\ b = ptr[o] THEN "free" ELSE heap[b]
        /\ kind' = [kind EXCEPT ![o] = "none"] /\ ptr' = [ptr EXCEPT ![o] = Null]
        /\ UNCHANGED boxed
    BY <1>8 DEF Finalize
  <2>2. \A x \in Objects : x # o => ptr'[x] = ptr[x] /\ kind'[x] = kind[x]
    BY <2>1 DEF TypeOK
  <2>3. heap'[b] = heap[b] /\ (ptr[o] = b => kind[o] \notin Releasable)
    BY <2>1 DEF Leaked
  <2>4. ptr[o] = b => kind[o] # heap[b]
    BY <2>3 DEF Releasable, Leaked, TypeOK, Kinds
  <2>5. QED
    BY <2>1, <2>2, <2>3, <2>4 DEF Leaked
<1>9. CASE UsePointer
  <2>1. heap'[b] \in {heap[b], "free"} /\ UNCHANGED <<kind, ptr, boxed>>
    BY <1>9 DEF UsePointer, TypeOK
  <2>2. QED
    BY <2>1 DEF Leaked
<1>10. CASE BadPointer \/ UndefinedBehaviour
  BY <1>1, <1>10 DEF BadPointer, UndefinedBehaviour
<1>11. CASE BoxResult
  <2>1. PICK a \in Addresses : /\ heap' = [heap EXCEPT ![a] = "Value"]
                               /\ boxed' = boxed \cup {a}
    BY <1>11 DEF BoxResult
  <2>2. UNCHANGED <<kind, ptr>>
    BY <1>11 DEF BoxResult
  <2>3. b # a /\ heap'[b] = heap[b]
    BY <2>1 DEF Leaked, TypeOK
  <2>4. QED
    BY <2>1, <2>2, <2>3 DEF Leaked
<1>12. CASE LookFails
  <2>1. call' = "none" /\ UNCHANGED <<heap, kind, ptr, held>>
    BY <1>12 DEF LookFails
  <2>2. b \notin boxed
    BY <2>1
  <2>3. QED
    BY <2>1, <2>2 DEF Leaked
<1>13. CASE LookReturns
  <2>1. PICK new, at : Hands(new, at)
    BY <1>13, Returned
  <2>2. heap' = heap
    BY <1>13 DEF LookReturns
  <2>3. b \notin boxed
    <3>1. SUFFICES ASSUME b \in boxed
                   PROVE  FALSE
      OBVIOUS
    <3>2. PICK o \in new : at[o] = b
      BY <2>1, <3>1 DEF Hands
    <3>3. o \in Objects /\ ptr'[o] = b /\ kind'[o] = "Value"
      BY <2>1, <3>2 DEF Hands
    <3>4. heap'[b] = "Value"
      BY <2>2, <3>1 DEF AnyUse, Values
    <3>5. QED
      BY <3>3, <3>4 DEF Leaked
  <2>4. \A x \in Objects : /\ x \in new => kind[x] = "none"
                           /\ x \notin new => kind'[x] = kind[x] /\ ptr'[x] = ptr[x]
    BY <2>1 DEF Hands
  <2>5. heap[b] # "none"
    BY DEF TypeOK, Kinds
  <2>6. QED
    BY <2>2, <2>3, <2>4, <2>5 DEF Leaked
<1>14. CASE MoveReturns
  <2>1. PICK o \in Objects, a \in Addresses :
          /\ Wraps(o, a, Makes(call))
          /\ ptr' = [x \in Objects |-> IF x = o THEN a
                                       ELSE IF x \in ToSet(args) THEN Null ELSE ptr[x]]
    BY <1>14 DEF MoveReturns
  <2>2. call \in Moving /\ done = Len(ptrs) /\ boxed' = boxed
    BY <1>14 DEF MoveReturns
  <2>3. ASSUME NEW x \in ToSet(args)
        PROVE  ptr[x] \in Addresses /\ heap[ptr[x]] = "free"
    <3>1. PICK i \in 1 .. Len(args) : x = args[i]
      BY <2>3 DEF ToSet, TypeOK
    <3>2. i <= done
      BY <2>2, <3>1 DEF TypeOK
    <3>3. QED
      BY <2>2, <3>1, <3>2 DEF AnyUse, Emptying
  <2>4. Makes(call) \in Kinds
    BY DEF Makes, Kinds
  <2>5. \A x \in Objects : x # o /\ ptr[x] \in Addresses /\ heap[ptr[x]] # "free" => ptr'[x] = ptr[x]
    BY <2>1, <2>3
  <2>6. ptr'[o] = a
    BY <2>1
  <2>7. QED
    BY <2>1, <2>2, <2>4, <2>5, <2>6, WrapLosesNone
<1>15. QED
  BY <1>2, <1>3, <1>4, <1>5, <1>6, <1>7, <1>8, <1>9, <1>10, <1>11, <1>12, <1>13, <1>14 DEF Next

(* Whatever the application does, disciplined or not, memory that nobody    *)
(* can free any more was a ValueMut's, or was boxed for the result of a     *)
(* call that threw.                                                         *)
THEOREM Leaks == Spec => OnlyTheseLeak
<1>1. TypeOK /\ AnyUse /\ [Next]_vars =>
        [\A a \in Addresses : ~Leaked(a) /\ Leaked(a)' =>
           \/ heap[a] = "ValueMut"
           \/ a \in boxed /\ call' = "none" /\ UNCHANGED held]_vars
  BY LossStep
<1>2. QED
  BY <1>1, AnyUseInvariance, PTL DEF Spec, OnlyTheseLeak
-----------------------------------------------------------------------------
(* What a call in progress knows of its arguments, if the application keeps *)
(* to Discipline: a moving call has distinct objects and their pointers, an *)
(* accessor has a held object, an operation of Surreal has a held instance  *)
(* and a zero or a box that only the finalizer of a ValueMut could reach.   *)
MoveArgs ==
  call \in Moving =>
    /\ \A i \in 1 .. Len(args) : /\ kind[args[i]] = Takes(call)
                                 /\ ptrs[i] = ptr[args[i]] /\ ptrs[i] # Null
    /\ \A i, j \in 1 .. Len(args) : args[i] = args[j] => i = j

GetArgs ==
  call = "get" =>
    /\ Len(args) = 1
    /\ args[1] \in held /\ kind[args[1]] = "Value" /\ ptrs[1] = ptr[args[1]]
    /\ done > 0 => ptrs[1] # Null

SendArgs ==
  call = "send" =>
    /\ Len(args) = 2
    /\ args[1] \in held /\ kind[args[1]] = "Surreal" /\ ptrs[1] = ptr[args[1]]
    /\ done > 0 => ptrs[1] # Null
    /\ ptrs[2] # Null =>
         /\ heap[ptrs[2]] = "ValueMut"
         /\ \A o \in Objects : ptr[o] = ptrs[2] => kind[o] = "ValueMut"

Inv ==
  /\ Blank
  /\ rules = "kept" => fault = "none" /\ Owned /\ MoveArgs /\ GetArgs /\ SendArgs

(* A new box with a new object around it disturbs no other, outside a       *)
(* moving call.                                                             *)
LEMMA Wrapping ==
  ASSUME NEW CONSTANT o \in Objects, NEW CONSTANT a \in Addresses, NEW CONSTANT k \in Kinds
  PROVE  /\ TypeOK /\ Blank /\ Emptied = {} /\ Emptied' = {}
         /\ \A x \in Objects : ptr[x] # Null => heap[ptr[x]] = kind[x]
         /\ \A x, y \in Objects : ptr[x] # Null /\ ptr[x] = ptr[y] => x = y
         /\ Wraps(o, a, k) /\ ptr' = [ptr EXCEPT ![o] = a]
         => /\ Owned'
            /\ heap'[a] = k /\ kind'[o] = k
            /\ \A x \in Objects : ptr'[x] = a => x = o
<1> SUFFICES ASSUME TypeOK, Blank, Emptied = {}, Emptied' = {},
                    \A x \in Objects : ptr[x] # Null => heap[ptr[x]] = kind[x],
                    \A x, y \in Objects : ptr[x] # Null /\ ptr[x] = ptr[y] => x = y,
                    Wraps(o, a, k), ptr' = [ptr EXCEPT ![o] = a]
             PROVE  /\ Owned'
                    /\ heap'[a] = k /\ kind'[o] = k
                    /\ \A x \in Objects : ptr'[x] = a => x = o
  OBVIOUS
<1>1. heap'[a] = k /\ kind'[o] = k /\ ptr'[o] = a
  BY DEF Wraps, TypeOK
<1>2. \A x \in Objects : x # o => kind'[x] = kind[x] /\ ptr'[x] = ptr[x]
  BY DEF Wraps, TypeOK
<1>3. \A x \in Objects : x # o /\ ptr[x] # Null =>
        ptr[x] # a /\ ptr[x] \in Addresses /\ heap'[ptr[x]] = heap[ptr[x]]
  <2> SUFFICES ASSUME NEW x \in Objects, x # o, ptr[x] # Null
               PROVE  ptr[x] # a /\ ptr[x] \in Addresses /\ heap'[ptr[x]] = heap[ptr[x]]
    OBVIOUS
  <2>1. heap[ptr[x]] = kind[x] /\ kind[x] # "free" /\ ptr[x] \in Addresses
    BY DEF TypeOK, Kinds, Pointers
  <2>2. QED
    BY <2>1 DEF Wraps, TypeOK
<1>4. \A x \in Objects : ptr'[x] = a => x = o
  BY <1>2, <1>3, NativeHandlesAssumption
<1>5. Owned'
  BY <1>1, <1>2, <1>3, <1>4 DEF Owned
<1>6. QED
  BY <1>1, <1>4, <1>5

(* Every step keeps Inv.                                                    *)
LEMMA InvStep == TypeOK /\ TypeOK' /\ AnyUse /\ Inv /\ [Next]_vars => Inv'
<1> SUFFICES ASSUME TypeOK, TypeOK', AnyUse, Inv, [Next]_vars
             PROVE  Inv'
  OBVIOUS
<1> DEFINE Good == fault = "none" /\ Owned /\ MoveArgs /\ GetArgs /\ SendArgs
<1> USE NativeHandlesAssumption
<1>1. Blank'
  BY BlankStep DEF Inv
<1>2. CASE UNCHANGED vars
  BY <1>2 DEF vars, Inv, Blank, Owned, Emptied, MoveArgs, GetArgs, SendArgs
<1> SUFFICES ASSUME Next, rules' = "kept"
             PROVE  Good'
  BY <1>1, <1>2 DEF Inv
<1>3. rules = "kept" /\ Discipline
  BY DEF Next, TypeOK
<1>4. /\ fault = "none" /\ Blank /\ MoveArgs /\ GetArgs /\ SendArgs
      /\ \A o \in Objects : ptr[o] # Null /\ o \notin Emptied => heap[ptr[o]] = kind[o]
      /\ \A o, p \in Objects : ptr[o] # Null /\ ptr[o] = ptr[p] => o = p
  BY <1>3 DEF Inv, Owned
<1>5. CASE New
  <2>1. PICK o \in Objects, a \in Addresses, k \in {"Surreal", "ValueMut"} :
          Wraps(o, a, k) /\ ptr' = [ptr EXCEPT ![o] = a] /\ held' = held \cup {o}
    BY <1>5 DEF New
  <2>2. call = "none" /\ call' = "none" /\ fault' = fault
    BY <1>5 DEF New
  <2>3. Emptied = {} /\ Emptied' = {}
    BY <2>2 DEF Emptied, Moving
  <2>4. Owned'
    BY <1>4, <2>1, <2>3, Wrapping DEF Kinds
  <2>5. QED
    BY <1>4, <2>2, <2>4 DEF MoveArgs, GetArgs, SendArgs, Moving
<1>6. ASSUME NEW op \in Moving, NEW s \in SeqOf(Objects, MaxArgs), Move(op, s)
      PROVE  Good'
  <2>1. s \in Seq(Objects)
    BY Given
  <2>2. /\ call' = op /\ args' = s /\ Len(ptrs') = Len(s) /\ done' = 0
        /\ \A i \in 1 .. Len(s) : ptrs'[i] = ptr[s[i]] /\ kind[s[i]] = Takes(op)
        /\ heap' = heap /\ kind' = kind /\ ptr' = ptr /\ held' = held /\ fault' = fault
        /\ call = "none"
    BY <1>6, <2>1 DEF Move
  <2>3. MoveArgs'
    BY <1>3, <1>6, <2>1, <2>2 DEF Discipline, IsInjective, MoveArgs, Takes
  <2>4. Emptied = {} /\ Emptied' = {}
    BY <2>2 DEF Emptied, Moving
  <2>5. QED
    BY <1>4, <2>2, <2>3, <2>4 DEF Owned, GetArgs, SendArgs, Moving
<1>7. ASSUME NEW o \in Objects, Get(o)
      PROVE  Good'
  <2>1. Emptied = {} /\ Emptied' = {}
    BY <1>7 DEF Get, Emptied, Moving
  <2>2. QED
    BY <1>4, <1>7, <2>1 DEF Get, Owned, MoveArgs, GetArgs, SendArgs, Moving
<1>8. ASSUME NEW s \in Objects, NEW o \in Objects, Send(s, o)
      PROVE  Good'
  <2>1. /\ s \in held /\ kind[s] = "Surreal" /\ call' = "send" /\ done' = 0
        /\ args' = <<s, o>> /\ ptrs' = <<ptr[s], ptr'[o]>>
        /\ held' = held /\ fault' = fault
    BY <1>8 DEF Send
  <2>2. Emptied = {} /\ Emptied' = {}
    BY <1>8 DEF Send, Emptied, Moving
  <2>3. ASSUME NEW a \in Addresses, Wraps(o, a, "ValueMut"), ptr' = [ptr EXCEPT ![o] = a]
        PROVE  Owned' /\ SendArgs'
    <3>1. s # o /\ kind'[s] = "Surreal" /\ ptr'[s] = ptr[s] /\ ptr'[o] = a
      BY <2>1, <2>3 DEF Wraps, TypeOK
    <3>2. /\ "ValueMut" \in Kinds
          /\ \A x \in Objects : ptr[x] # Null => heap[ptr[x]] = kind[x]
          /\ \A x, y \in Objects : ptr[x] # Null /\ ptr[x] = ptr[y] => x = y
      BY <1>4, <2>2 DEF Kinds
    <3>3. /\ Owned' /\ heap'[a] = "ValueMut" /\ kind'[o] = "ValueMut"
          /\ \A x \in Objects : ptr'[x] = a => x = o
      BY <1>4, <2>2, <2>3, <3>2, Wrapping
    <3>4. SendArgs'
      BY <2>1, <3>1, <3>3 DEF SendArgs
    <3>5. QED
      BY <3>3, <3>4
  <2>4. ASSUME o \in held, kind[o] = "ValueMut", UNCHANGED <<heap, kind, ptr>>
        PROVE  Owned' /\ SendArgs'
    <3>1. Owned'
      BY <1>4, <2>2, <2>4 DEF Owned
    <3>2. ptr[o] # Null =>
            heap[ptr[o]] = "ValueMut" /\ \A x \in Objects : ptr[x] = ptr[o] => kind[x] = "ValueMut"
      BY <1>4, <2>2, <2>4
    <3>3. SendArgs'
      BY <2>1, <2>4, <3>2 DEF SendArgs
    <3>4. QED
      BY <3>1, <3>3
  <2>5. QED
    BY <1>4, <1>8, <2>1, <2>3, <2>4 DEF Send, MoveArgs, GetArgs, Moving
<1>9. ASSUME NEW s \in Objects, Close(s)
      PROVE  Good'
  <2>1. Emptied = {} /\ Emptied' = {} /\ call' = "none" /\ fault' = fault /\ kind' = kind
    BY <1>9 DEF Close, Emptied, Moving
  <2>2. Owned'
    BY <1>4, <1>9, <2>1 DEF Close, Owned, TypeOK, Pointers
  <2>3. QED
    BY <1>4, <2>1, <2>2 DEF MoveArgs, GetArgs, SendArgs, Moving
<1>10. ASSUME NEW o \in Objects, Drop(o)
       PROVE  Good'
  <2>1. ASSUME call \in Looking, 1 <= Len(args), args[1] \in held
        PROVE  args[1] \in held'
    <3>1. 1 \in DOMAIN args
      BY <2>1 DEF TypeOK
    <3>2. args[1] \in ToSet(args)
      BY <3>1 DEF ToSet
    <3>3. QED
      BY <1>3, <2>1, <3>2 DEF Discipline
  <2>2. call = "get" => args[1] \in held'
    BY <1>4, <2>1 DEF GetArgs, Looking
  <2>3. call = "send" => args[1] \in held'
    BY <1>4, <2>1 DEF SendArgs, Looking
  <2>4. QED
    BY <1>4, <1>10, <2>2, <2>3 DEF Drop, Owned, Emptied, MoveArgs, GetArgs, SendArgs
<1>11. ASSUME NEW o \in Objects, Finalize(o)
       PROVE  Good'
  <2>1. /\ kind[o] # "none" /\ o \notin held
        /\ \A a \in Addresses :
             heap'[a] = IF kind[o] \in Releasable /\ a = ptr[o] THEN "free" ELSE heap[a]
        /\ kind' = [kind EXCEPT ![o] = "none"] /\ ptr' = [ptr EXCEPT ![o] = Null]
        /\ UNCHANGED <<held, call, args, ptrs, done, fault>>
    BY <1>11 DEF Finalize, Reachable
  <2>2. ASSUME call \in Moving, NEW i \in 1 .. Len(args)
        PROVE  args[i] # o
    <3>1. i \in DOMAIN args
      BY DEF TypeOK
    <3>2. args[i] \in ToSet(args)
      BY <3>1 DEF ToSet
    <3>3. QED
      BY <1>11, <2>2, <3>2 DEF Finalize, Reachable
  <2>3. Emptied' = Emptied
    BY <2>1 DEF Emptied
  <2>4. o \notin Emptied
    BY <2>2 DEF Emptied, TypeOK
  <2>5. Owned'
    BY <1>4, <2>1, <2>3, <2>4 DEF Owned, TypeOK, Pointers
  <2>6. MoveArgs'
    BY <1>4, <2>1, <2>2 DEF MoveArgs, TypeOK
  <2>7. GetArgs'
    BY <1>4, <2>1 DEF GetArgs, TypeOK
  <2>8. SendArgs'
    <3> SUFFICES ASSUME call = "send"
                 PROVE  SendArgs'
      BY <2>1 DEF SendArgs
    <3>1. args[1] # o /\ args[1] \in Objects
      BY <1>4, <2>1 DEF SendArgs, TypeOK
    <3>2. kind'[args[1]] = "Surreal" /\ ptrs[1] = ptr'[args[1]]
      BY <1>4, <2>1, <3>1 DEF SendArgs, TypeOK
    <3> ptrs[2] \in Pointers
      BY <1>4 DEF SendArgs, TypeOK
    <3>3. ptrs[2] # Null => heap'[ptrs[2]] = "ValueMut"
      BY <1>4, <2>1 DEF SendArgs, Releasable, Pointers
    <3>4. ptrs[2] # Null => \A x \in Objects : ptr'[x] = ptrs[2] => kind'[x] = "ValueMut"
      BY <1>4, <2>1 DEF SendArgs, TypeOK
    <3>5. QED
      BY <1>4, <2>1, <3>2, <3>3, <3>4 DEF SendArgs
  <2>9. QED
    BY <1>4, <2>1, <2>5, <2>6, <2>7, <2>8
<1>12. CASE UsePointer
  <2> DEFINE p == ptrs[done + 1]
  <2>1. /\ call # "none" /\ done + 1 \in 1 .. Len(args) /\ done' = done + 1
        /\ p \in Addresses /\ heap[p] = Wanted
        /\ heap' = IF call \in Moving THEN [heap EXCEPT ![p] = "free"] ELSE heap
        /\ UNCHANGED <<kind, ptr, held, call, args, ptrs, fault>>
    BY <1>12 DEF UsePointer, TypeOK
  <2>2. CASE call \in Moving
    <3>1. Emptied' = Emptied \cup {args[done + 1]}
      <4>1. done \in Nat
        BY DEF TypeOK
      <4>2. 1 .. done' = (1 .. done) \cup {done + 1}
        BY <2>1, <4>1
      <4>3. QED
        BY <2>1, <2>2, <4>2 DEF Emptied
    <3>2. ptr[args[done + 1]] = p
      BY <1>4, <2>1, <2>2 DEF MoveArgs
    <3>3. args[done + 1] \in Objects
      BY <2>1 DEF TypeOK
    <3>4. Owned'
      BY <1>4, <2>1, <2>2, <3>1, <3>2, <3>3 DEF Owned, TypeOK, Pointers
    <3>5. QED
      BY <1>4, <2>1, <2>2, <3>4 DEF MoveArgs, GetArgs, SendArgs, Moving
  <2>3. CASE call \notin Moving
    <3>1. Emptied = {} /\ Emptied' = {}
      BY <2>1, <2>3 DEF Emptied
    <3>2. Owned' /\ MoveArgs' /\ GetArgs'
      BY <1>4, <2>1, <2>3, <3>1 DEF Owned, MoveArgs, GetArgs
    <3>3. call = "send" /\ done = 0 => ptrs[1] # Null
      BY <2>1
    <3>4. done > 0 \/ done = 0
      BY DEF TypeOK
    <3>5. SendArgs'
      BY <1>4, <2>1, <2>3, <3>3, <3>4 DEF SendArgs
    <3>6. QED
      BY <1>4, <2>1, <3>2, <3>5
  <2>4. QED
    BY <2>2, <2>3
<1>13. CASE BadPointer \/ LookFails
  <2>1. call' = "none" /\ UNCHANGED <<heap, kind, ptr, held, fault>>
    BY <1>13 DEF BadPointer, LookFails
  <2>2. CASE call \in Looking
    <3>1. Emptied = {} /\ Emptied' = {}
      BY <2>1, <2>2 DEF Emptied, Looking, Moving
    <3>2. QED
      BY <1>4, <2>1, <3>1 DEF Owned, MoveArgs, GetArgs, SendArgs, Moving
  <2>3. CASE BadPointer /\ call \in Moving
    <3>1. done + 1 \in 1 .. Len(args)
      BY <2>3 DEF BadPointer, TypeOK
    <3>2. /\ ptrs[done + 1] = ptr[args[done + 1]] /\ ptrs[done + 1] # Null
          /\ kind[args[done + 1]] = Takes(call)
      BY <1>4, <2>3, <3>1 DEF MoveArgs
    <3>3. args[done + 1] \in Objects
      BY <3>1 DEF TypeOK
    <3>4. args[done + 1] \notin Emptied
      BY <1>4, <2>3, <3>1 DEF Emptied, MoveArgs, TypeOK
    <3>5. heap[ptrs[done + 1]] = Wanted
      BY <1>4, <2>3, <3>2, <3>3, <3>4 DEF Wanted
    <3>6. QED
      BY <2>3, <3>2, <3>5 DEF BadPointer
  <2>4. QED
    BY <1>13, <2>2, <2>3 DEF BadPointer, LookFails, Working, TypeOK
<1>14. CASE LookReturns
  <2>1. PICK new, at : Hands(new, at)
    BY <1>14, Returned
  <2>2. call \in Looking /\ call' = "none" /\ fault' = fault /\ heap' = heap
    BY <1>14 DEF LookReturns, Working
  <2>3. Emptied = {} /\ Emptied' = {}
    BY <2>2 DEF Emptied, Looking, Moving
  <2>4. \A x \in Objects : /\ x \in new => ptr'[x] \in boxed /\ kind'[x] = "Value"
                           /\ x \notin new => kind'[x] = kind[x] /\ ptr'[x] = ptr[x]
    BY <2>1 DEF Hands
  <2>5. \A x, y \in new : ptr'[x] = ptr'[y] => x = y
    BY <2>1 DEF Hands
  <2>6. \A a \in boxed : heap[a] = "Value"
    BY DEF AnyUse, Values
  <2>7. \A x \in Objects : ptr[x] # Null => ptr[x] \notin boxed
    BY <1>4, <2>3, <2>6 DEF AnyUse, Values
  <2>8. \A x \in Objects : ptr'[x] # Null => heap'[ptr'[x]] = kind'[x]
    BY <1>4, <2>2, <2>3, <2>4, <2>6
  <2>9. \A x, y \in Objects : ptr'[x] # Null /\ ptr'[x] = ptr'[y] => x = y
    BY <1>4, <2>4, <2>5, <2>7
  <2>10. QED
    BY <1>4, <2>2, <2>3, <2>8, <2>9 DEF Owned, MoveArgs, GetArgs, SendArgs, Moving
<1>15. CASE MoveReturns
  <2>1. PICK o \in Objects, a \in Addresses :
          /\ Wraps(o, a, Makes(call))
          /\ ptr' = [x \in Objects |-> IF x = o THEN a
                                       ELSE IF x \in ToSet(args) THEN Null ELSE ptr[x]]
          /\ held' = held \cup {o}
    BY <1>15 DEF MoveReturns
  <2>2. call \in Moving /\ done = Len(args) /\ call' = "none" /\ fault' = fault
    BY <1>15 DEF MoveReturns, TypeOK
  <2>3. Emptied' = {}
    BY <2>2 DEF Emptied, Moving
  <2>4. Emptied = ToSet(args)
    <3>1. args \in Seq(Objects) /\ done \in Nat
      BY DEF TypeOK
    <3>2. DOMAIN args = 1 .. done
      BY <2>2, <3>1
    <3>3. QED
      BY <2>2, <3>2 DEF Emptied, ToSet
  <2>5. \A x \in Objects : ptr'[x] # Null /\ x # o => ptr'[x] = ptr[x] /\ x \notin Emptied
    BY <2>1, <2>4
  <2>6. \A x \in Objects : ptr'[x] # Null /\ x # o =>
          ptr[x] # a /\ ptr[x] \in Addresses /\ heap[ptr[x]] = kind[x]
    <3> SUFFICES ASSUME NEW x \in Objects, ptr'[x] # Null, x # o
                 PROVE  ptr[x] # a /\ ptr[x] \in Addresses /\ heap[ptr[x]] = kind[x]
      OBVIOUS
    <3>1. ptr[x] # Null /\ heap[ptr[x]] = kind[x]
      BY <1>4, <2>5
    <3>2. kind[x] # "free"
      BY DEF TypeOK, Kinds
    <3>3. QED
      BY <2>1, <3>1, <3>2 DEF Wraps, TypeOK, Pointers
  <2>7. heap'[a] = kind'[o] /\ ptr'[o] = a
    BY <2>1 DEF Wraps, TypeOK
  <2>8. \A x \in Objects : ptr'[x] # Null => heap'[ptr'[x]] = kind'[x]
    BY <2>1, <2>5, <2>6, <2>7 DEF Wraps, TypeOK
  <2>9. \A x, y \in Objects : ptr'[x] # Null /\ ptr'[x] = ptr'[y] => x = y
    BY <1>4, <2>5, <2>6, <2>7
  <2>10. QED
    BY <1>4, <2>2, <2>3, <2>8, <2>9 DEF Owned, MoveArgs, GetArgs, SendArgs, Moving
<1>16. CASE UndefinedBehaviour
  <2>1. CASE call # "none" /\ done < Len(ptrs) /\ ptrs[done + 1] \in Addresses
             /\ heap[ptrs[done + 1]] # Wanted
    <3>1. done + 1 \in 1 .. Len(args)
      BY <2>1 DEF TypeOK
    <3>2. args[done + 1] \in Objects
      BY <3>1 DEF TypeOK
    <3>3. CASE call \in Moving
      <4>1. args[done + 1] \notin Emptied
        BY <1>4, <3>1, <3>3 DEF Emptied, MoveArgs, TypeOK
      <4>2. QED
        BY <1>4, <2>1, <3>1, <3>2, <3>3, <4>1 DEF MoveArgs, Wanted
    <3>4. CASE call = "get"
      <4>1. Emptied = {} /\ Wanted = "Value"
        BY <3>4 DEF Wanted, LooksFor, Emptied, Moving
      <4>2. done + 1 = 1
        <5>1. Len(args) = 1
          BY <1>4, <3>4 DEF GetArgs
        <5>2. QED
          BY <3>1, <5>1 DEF TypeOK
      <4>3. QED
        BY <1>4, <2>1, <3>2, <3>4, <4>1, <4>2 DEF GetArgs
    <3>5. CASE call = "send"
      <4>1. Emptied = {} /\ Wanted = IF done = 0 THEN "Surreal" ELSE "ValueMut"
        BY <3>5 DEF Emptied, Wanted, LooksFor, Moving, TypeOK
      <4>2. done = 0 \/ done = 1
        <5>1. Len(args) = 2
          BY <1>4, <3>5 DEF SendArgs
        <5>2. QED
          BY <3>1, <5>1 DEF TypeOK
      <4>3. QED
        BY <1>4, <2>1, <3>2, <3>5, <4>1, <4>2 DEF SendArgs
    <3>6. QED
      BY <2>1, <3>3, <3>4, <3>5 DEF TypeOK, Looking
  <2>2. CASE Working /\ ~Lent
    <3>1. Emptied = {} /\ call \in Looking /\ done = Len(args)
      BY <2>2 DEF Working, Looking, Emptied, Moving, TypeOK
    <3>2. /\ args[1] \in Objects /\ ptrs[1] # Null
          /\ kind[args[1]] = LooksFor(1) /\ ptrs[1] = ptr[args[1]]
      BY <1>4, <3>1 DEF GetArgs, SendArgs, LooksFor, Looking, TypeOK
    <3>3. QED
      BY <1>4, <2>2, <3>1, <3>2 DEF Lent
  <2>3. CASE \E s \in held : /\ call = "none" /\ kind[s] = "Surreal"
                             /\ ptr[s] # Null /\ heap[ptr[s]] # "Surreal"
    BY <1>4, <2>3 DEF Emptied, Moving, TypeOK
  <2>4. CASE \E o \in Objects \ Reachable : /\ kind[o] \in Releasable
                                            /\ ptr[o] # Null /\ heap[ptr[o]] # kind[o]
    <3>1. PICK o \in Objects \ Reachable : ptr[o] # Null /\ heap[ptr[o]] # kind[o]
      BY <2>4
    <3>2. o \notin Emptied
      BY SMTT(30) DEF Emptied, Reachable, ToSet, TypeOK
    <3>3. QED
      BY <1>4, <3>1, <3>2
  <2>5. QED
    BY <1>16, <2>1, <2>2, <2>3, <2>4 DEF UndefinedBehaviour
<1>17. CASE BoxResult
  <2>1. PICK a \in Addresses : heap[a] = "free" /\ heap' = [heap EXCEPT ![a] = "Value"]
    BY <1>17 DEF BoxResult
  <2>2. call \in Looking /\ UNCHANGED <<kind, ptr, held, call, args, ptrs, done, fault>>
    BY <1>17 DEF BoxResult, Working
  <2>3. Emptied = {} /\ Emptied' = {}
    BY <2>2 DEF Emptied, Looking, Moving
  <2>4. \A p \in Pointers : heap[p] # "free" /\ p # Null => heap'[p] = heap[p]
    BY <2>1 DEF Pointers, TypeOK
  <2>5. \A x \in Objects : ptr[x] # Null => heap'[ptr[x]] = kind[x]
    <3>1. SUFFICES ASSUME NEW x \in Objects, ptr[x] # Null
                   PROVE  heap'[ptr[x]] = kind[x]
      OBVIOUS
    <3>2. heap[ptr[x]] = kind[x] /\ kind[x] # "free" /\ ptr[x] \in Pointers
      BY <1>4, <2>3, <3>1 DEF TypeOK, Kinds
    <3>3. QED
      BY <2>4, <3>1, <3>2
  <2>6. SendArgs'
    <3>1. SUFFICES ASSUME call = "send"
                   PROVE  SendArgs'
      BY <2>2 DEF SendArgs
    <3>2. ptrs[2] \in Pointers
      BY <1>4, <3>1 DEF SendArgs, TypeOK
    <3>3. ptrs[2] # Null => heap'[ptrs[2]] = "ValueMut"
      BY <1>4, <2>4, <3>1, <3>2 DEF SendArgs
    <3>4. QED
      BY <1>4, <2>2, <3>1, <3>3 DEF SendArgs
  <2>7. QED
    BY <1>4, <2>2, <2>3, <2>5, <2>6 DEF Owned, MoveArgs, GetArgs
<1>18. QED
  BY <1>5, <1>6, <1>7, <1>8, <1>9, <1>10, <1>11, <1>12, <1>13, <1>14, <1>15, <1>16, <1>17 DEF Next

(* Inv holds in every reachable state.                                      *)
LEMMA Invariance == Spec => [](TypeOK /\ Inv)
<1>1. Init => Inv
  BY NativeHandlesAssumption
  DEF Init, Inv, Blank, Owned, Emptied, MoveArgs, GetArgs, SendArgs, Moving
<1>2. TypeOK /\ TypeOK' /\ AnyUse /\ Inv /\ [Next]_vars => Inv'
  BY InvStep
<1>3. QED
  BY <1>1, <1>2, AnyUseInvariance, PTL DEF Spec

(* An application that moves only what it still has, and keeps hold of what *)
(* a call works on, has no dangling pointer outside the moving call in      *)
(* progress and no two objects over one box, whatever the finalizer does    *)
(* and however addresses are used again.                                    *)
THEOREM Ownership == Spec => []Owned
<1>1. Inv => Owned
  BY DEF Inv, Owned
<1>2. QED
  BY <1>1, Invariance, PTL

(* Neither such an application nor the finalizer beside it reads or frees a *)
(* box that is gone or another object's, in either build.                   *)
THEOREM Safety == Spec => []NoBadPointer
<1>1. Inv => NoBadPointer
  BY DEF Inv, NoBadPointer
<1>2. QED
  BY <1>1, Invariance, PTL
=============================================================================
