------------------------------ MODULE Session ------------------------------
(***************************************************************************)
(* The session of a Surreal object and what the object remembers of it.    *)
(* The native instance refers to a session of the SDK, which has a         *)
(* namespace, a database and an authentication.  useNs(), useDb() and      *)
(* useDefaults() answer with the place the session is at afterwards, and   *)
(* the object stores it in two plain fields, one after the other; a        *)
(* RecordCredential without a place is sent to what the fields say.        *)
(* newSession() clones the SDK's session, but starts with empty fields.    *)
(*                                                                         *)
(* Several threads may share an object.  The server may refuse a request;  *)
(* its answer, or the Java object made of it, may also be lost after the   *)
(* request has done its work.                                              *)
(***************************************************************************)
EXTENDS Naturals

CONSTANTS Sessions, Threads, Namespaces, Databases, None

ASSUME SessionAssumption == None \notin Sessions \cup Namespaces \cup Databases

VARIABLES
  native,     \* the session of the SDK each Surreal refers to; None: no object yet
  at,         \* where each session of the SDK is; None: not connected
  authentic,  \* is anybody signed in there?
  namespace,  \* the field of each Surreal
  database,   \* the field of each Surreal
  pc,         \* where each thread stands
  op,         \* the operation it performs,
  on,         \* the Surreal it performs it on,
  ask,        \* the place in the arguments: None where they name none
  got,        \* the place read from the fields, or answered by the server
  told,       \* history: the last answer that arrived
  strayed     \* history: has the session moved since without an answer?

sdk == <<native, at, authentic>>
fields == <<namespace, database>>
thread == <<pc, op, on, ask, got>>
history == <<told, strayed>>
vars == <<sdk, fields, thread, history>>

(* Where a session or a credential can be: no database without a namespace *)
(* (UseNsUseDbTests.java:80-87).  Only a RecordCredential may name         *)
(* just a database.                                                        *)
Names == [ns : Namespaces \cup {None}, db : Databases \cup {None}]
Places == {p \in Names : p.ns = None => p.db = None}
Nowhere == [ns |-> None, db |-> None]

(* The operations whose answer goes into the fields, and those that use    *)
(* the fields at all.                                                      *)
Uses == {"useNs", "useDb", "useDefaults"}
Touching == Uses \cup {"connect", "record"}
Ops == Touching \cup {"signin", "invalidate"}

Init ==
  /\ native = [s \in Sessions |-> None]
  /\ at = [s \in Sessions |-> None]
  /\ authentic = [s \in Sessions |-> FALSE]
  /\ namespace = [s \in Sessions |-> None]
  /\ database = [s \in Sessions |-> None]
  /\ pc = [t \in Threads |-> "idle"]
  /\ op = [t \in Threads |-> "none"]
  /\ on = [t \in Threads |-> None]
  /\ ask = [t \in Threads |-> Nowhere]
  /\ got = [t \in Threads |-> Nowhere]
  /\ told = [s \in Sessions |-> Nowhere]
  /\ strayed = [s \in Sessions |-> FALSE]

Fields(s) == [ns |-> namespace[s], db |-> database[s]]

(* The thread returns or throws.                                           *)
Leaves(t) ==
  /\ pc' = [pc EXCEPT ![t] = "idle"]
  /\ op' = [op EXCEPT ![t] = "none"]
  /\ on' = [on EXCEPT ![t] = None]
  /\ ask' = [ask EXCEPT ![t] = Nowhere]
  /\ got' = [got EXCEPT ![t] = Nowhere]

Continues(t, l, p) ==
  /\ pc' = [pc EXCEPT ![t] = l]
  /\ got' = [got EXCEPT ![t] = p]
  /\ UNCHANGED <<op, on, ask>>
-----------------------------------------------------------------------------
(* new Surreal()                                                           *)
New(s) ==
  /\ native[s] = None
  /\ native' = [native EXCEPT ![s] = s]
  /\ UNCHANGED <<at, authentic, fields, thread, history>>

(* Mutant: both objects refer to one session.                              *)
SharedSession(s, n) ==
  /\ native[s] # None /\ native[n] = None /\ at[native[s]] # None
  /\ native' = [native EXCEPT ![n] = native[s]]
  /\ strayed' = [strayed EXCEPT ![n] = at[native[s]] # Nowhere]
  /\ UNCHANGED <<at, authentic, fields, thread, told>>

(* newSession(): a session of its own, at the place of the old one, which  *)
(* is connected.                                                           *)
NewSession(s, n) ==
  /\ native[s] # None /\ native[n] = None /\ at[native[s]] # None
  /\ native' = [native EXCEPT ![n] = n]
  /\ at' = [at EXCEPT ![n] = at[native[s]]]
  /\ authentic' = [authentic EXCEPT ![n] = authentic[native[s]]]
  /\ strayed' = [strayed EXCEPT ![n] = at[native[s]] # Nowhere]
  /\ UNCHANGED <<fields, thread, told>>

(* A thread enters a method of s and, except for a RecordCredential, the   *)
(* native method below it.                                                 *)
Call(t, s, o, p) ==
  /\ pc[t] = "idle" /\ native[s] # None
  /\ pc' = [pc EXCEPT ![t] = IF o = "record" THEN "readNs" ELSE "send"]
  /\ op' = [op EXCEPT ![t] = o]
  /\ on' = [on EXCEPT ![t] = s]
  /\ ask' = [ask EXCEPT ![t] = p]
  /\ UNCHANGED <<sdk, fields, got, history>>

(* The arguments an operation is called with.  "record" stands for signin()*)
(* and signup() with a RecordCredential that leaves something open;        *)
(* "signin" for all other credentials, whose place matters to the server   *)
(* only, and for authenticate().                                           *)
Arguments(o) ==
  CASE o = "useNs" -> {p \in Names : p.ns # None /\ p.db = None}
    [] o = "useDb" -> {p \in Names : p.ns = None /\ p.db # None}
    [] o = "record" -> {p \in Names : None \in {p.ns, p.db}}
    [] OTHER -> {Nowhere}

(* signup() and signin() of a RecordCredential: where it names no          *)
(* namespace or no database the field stands in, read one after the other. *)
ReadNs(t) ==
  /\ pc[t] = "readNs"
  /\ Continues(t, "readDb",
       [ask[t] EXCEPT !.ns = IF ask[t].ns = None THEN namespace[on[t]] ELSE @])
  /\ UNCHANGED <<sdk, fields, history>>

(* Mutant: the check for null is forgotten.                                *)
ReadDbUnchecked(t) ==
  /\ pc[t] = "readDb"
  /\ Continues(t, "send", [got[t] EXCEPT !.db = IF ask[t].db = None THEN database[on[t]] ELSE @])
  /\ UNCHANGED <<sdk, fields, history>>

ReadDb(t) ==
  /\ pc[t] = "readDb"
  /\ LET p == [got[t] EXCEPT !.db = IF ask[t].db = None THEN database[on[t]] ELSE @]
     IN  IF None \in {p.ns, p.db} THEN Leaves(t) ELSE Continues(t, "send", p)
  /\ UNCHANGED <<sdk, fields, history>>
-----------------------------------------------------------------------------
(* The native method: the request and its answer                           *)

(* The places to which a request with argument a takes a session from p.   *)
After(o, a, p) ==
  IF o = "connect" THEN {Nowhere}
  ELSE IF p = None THEN {}
  ELSE CASE o = "useNs" -> {[ns |-> a.ns, db |-> d] : d \in {p.db, None}}
         [] o = "useDb" -> IF p.ns = None THEN {} ELSE {[p EXCEPT !.db = a.db]}
         [] o = "record" -> {p, a}
         [] OTHER -> Places

(* Mutant: the session that is moved is a clone, dropped at the end of the *)
(* call.                                                                   *)
SwitchClone(t) ==
  LET s == on[t] IN
  /\ pc[t] = "send" /\ op[t] \in Uses \cup {"connect"}
  /\ \E p \in After(op[t], ask[t], at[native[s]]) :
       /\ at' = [at EXCEPT ![native[s]] = IF op[t] = "connect" THEN p ELSE @]
       /\ told' = [told EXCEPT ![s] = p]
       /\ Continues(t, "setNs", p)
  /\ strayed' = [strayed EXCEPT ![s] = FALSE]
  /\ UNCHANGED <<native, authentic, fields>>

(* connect(), useNs(), useDb() or useDefaults() succeeds.                  *)
Switch(t) ==
  LET s == on[t] IN
  /\ pc[t] = "send" /\ op[t] \in Uses \cup {"connect"}
  /\ \E p \in After(op[t], ask[t], at[native[s]]) :
       /\ at' = [at EXCEPT ![native[s]] = p]
       /\ told' = [told EXCEPT ![s] = p]
       /\ Continues(t, "setNs", p)
  /\ strayed' = [strayed EXCEPT ![s] = FALSE]
  /\ UNCHANGED <<native, authentic, fields>>

(* The session moves, but the answer is lost, or no NsDb can be made of it.*)
SwitchUntold(t) ==
  LET s == on[t] IN
  /\ pc[t] = "send" /\ op[t] \in Uses
  /\ \E p \in After(op[t], ask[t], at[native[s]]) :
       /\ at' = [at EXCEPT ![native[s]] = p]
       /\ strayed' = [strayed EXCEPT ![s] = @ \/ p # at[native[s]]]
  /\ Leaves(t)
  /\ UNCHANGED <<native, authentic, fields, told>>

(* signin(), signup() or authenticate() reaches the server, which may move *)
(* the session to the place of the credential.  Whether the Token can be   *)
(* made afterwards changes nothing.                                        *)
SignIn(t) ==
  LET s == on[t] IN
  /\ pc[t] = "send" /\ op[t] \in {"signin", "record"}
  /\ authentic' = [authentic EXCEPT ![native[s]] = TRUE]
  /\ \E p \in After(op[t], got[t], at[native[s]]) :
       /\ at' = [at EXCEPT ![native[s]] = p]
       /\ strayed' = [strayed EXCEPT ![s] = @ \/ p # at[native[s]]]
  /\ Leaves(t)
  /\ UNCHANGED <<native, fields, told>>

Invalidate(t) ==
  /\ pc[t] = "send" /\ op[t] = "invalidate" /\ at[native[on[t]]] # None
  /\ authentic' = [authentic EXCEPT ![native[on[t]]] = FALSE]
  /\ Leaves(t)
  /\ UNCHANGED <<native, at, fields, history>>

(* The request fails before it has done anything.                          *)
Refuse(t) ==
  /\ pc[t] = "send"
  /\ Leaves(t)
  /\ UNCHANGED <<sdk, fields, history>>
-----------------------------------------------------------------------------
(* Back in the method of Surreal                                           *)

SetNs(t) ==
  /\ pc[t] = "setNs"
  /\ namespace' = [namespace EXCEPT ![on[t]] = got[t].ns]
  /\ Continues(t, "setDb", got[t])
  /\ UNCHANGED <<sdk, database, history>>

(* Mutant: a database that is stored stays.                                *)
KeepDb(t) ==
  /\ pc[t] = "setDb"
  /\ database' = [database EXCEPT ![on[t]] = IF @ = None THEN got[t].db ELSE @]
  /\ Leaves(t)
  /\ UNCHANGED <<sdk, namespace, history>>

SetDb(t) ==
  /\ pc[t] = "setDb"
  /\ database' = [database EXCEPT ![on[t]] = got[t].db]
  /\ Leaves(t)
  /\ UNCHANGED <<sdk, namespace, history>>
-----------------------------------------------------------------------------
Steps(t) ==
  \/ ReadNs(t) \/ ReadDb(t)
  \/ Switch(t) \/ SwitchUntold(t) \/ SignIn(t) \/ Invalidate(t) \/ Refuse(t)
  \/ SetNs(t) \/ SetDb(t)

Next ==
  \/ \E s \in Sessions : New(s)
  \/ \E s, n \in Sessions : NewSession(s, n)
  \/ \E t \in Threads, s \in Sessions, o \in Ops : \E p \in Arguments(o) : Call(t, s, o, p)
  \/ \E t \in Threads : Steps(t)

Spec == Init /\ [][Next]_vars

(* The discipline the promises need: of the operations that use the fields *)
(* one at a time per object.  All others may overlap with it.              *)
Busy(s) == \E t \in Threads : on[t] = s /\ op[t] \in Touching

OneAtATime(t, s, o) == o \in Touching => ~Busy(s)

DisciplinedNext ==
  \/ \E s \in Sessions : New(s)
  \/ \E s, n \in Sessions : NewSession(s, n)
  \/ \E t \in Threads, s \in Sessions, o \in Ops : \E p \in Arguments(o) :
       OneAtATime(t, s, o) /\ Call(t, s, o, p)
  \/ \E t \in Threads : Steps(t)

DisciplinedSpec == Init /\ [][DisciplinedNext]_vars
-----------------------------------------------------------------------------
(* Properties                                                              *)

(* Every variable has its type; an object refers to a session of its own.  *)
TypeOK ==
  /\ native \in [Sessions -> Sessions \cup {None}]
  /\ at \in [Sessions -> Places \cup {None}]
  /\ authentic \in [Sessions -> BOOLEAN]
  /\ namespace \in [Sessions -> Namespaces \cup {None}]
  /\ database \in [Sessions -> Databases \cup {None}]
  /\ pc \in [Threads -> {"idle", "readNs", "readDb", "send", "setNs", "setDb"}]
  /\ op \in [Threads -> Ops \cup {"none"}]
  /\ on \in [Threads -> Sessions \cup {None}]
  /\ ask \in [Threads -> Names] /\ got \in [Threads -> Names]
  /\ told \in [Sessions -> Places]
  /\ strayed \in [Sessions -> BOOLEAN]

(* Unless an answer was lost or a sign-in moved the session, getNamespace()*)
(* and getDatabase() say where the session is: the fields are compared     *)
(* with the SDK's session itself, while no thread is about to use or set   *)
(* them.  Needs the discipline.                                            *)
FieldsAreCurrent ==
  \A s \in Sessions :
    native[s] # None /\ at[native[s]] # None /\ ~strayed[s] /\ ~Busy(s)
      => Fields(s) = at[native[s]]

(* A record user who names no place is signed up or in where the session   *)
(* is ("the current session values from useNs/useDb are used",             *)
(* Surreal.java:378), again unless it has strayed.  Needs the discipline.  *)
SignsInHere ==
  \A t \in Threads :
    LET s == on[t] IN
    pc[t] = "send" /\ op[t] = "record" /\ at[native[s]] # None /\ ~strayed[s]
      => /\ ask[t].ns = None => got[t].ns = at[native[s]].ns
         /\ ask[t].db = None => got[t].db = at[native[s]].db

(* What threads do with one object changes nothing of another: neither its *)
(* fields nor the place or the authentication of its session, also if one  *)
(* is the clone of the other.                                              *)
Independent ==
  [][\A s \in Sessions :
       native[s] # None /\ (\A t \in Threads : on[t] # s)
         => /\ native'[s] = native[s]
            /\ at'[native[s]] = at[native[s]]
            /\ authentic'[native[s]] = authentic[native[s]]
            /\ namespace'[s] = namespace[s] /\ database'[s] = database[s]]_vars

(* The two fields together follow the server's answers as one value: no    *)
(* namespace of one answer beside the database of another.  While a thread *)
(* stands between its two assignments, the new place counts.  Needs the    *)
(* discipline.                                                             *)
Shown(s) ==
  IF \E t \in Threads : pc[t] = "setDb" /\ on[t] = s
  THEN [Fields(s) EXCEPT !.db = got[CHOOSE t \in Threads : pc[t] = "setDb" /\ on[t] = s].db]
  ELSE Fields(s)

View == INSTANCE SessionView WITH
  Places <- Places \cup {None},
  at <- [s \in Sessions |-> IF native[s] = None THEN None ELSE at[native[s]]],
  shown <- [s \in Sessions |-> Shown(s)]

ViewSpec == View!ViewSpec
=============================================================================
