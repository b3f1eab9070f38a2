--------------------------- MODULE Session_proofs ---------------------------
(* Theorems about Session, for any objects, threads, namespaces and         *)
(* databases: first whatever the application does, then with one operation  *)
(* at a time on the fields of each object.                                  *)
EXTENDS Session, TLAPS

(* An object refers to its own session or to none, and before that there is *)
(* nothing to see of it.                                                    *)
Own ==
  /\ \A s \in Sessions : native[s] \in {s, None}
  /\ \A s \in Sessions : native[s] = None =>
       at[s] = None /\ told[s] = Nowhere /\ Fields(s) = Nowhere

(* What a thread in a method has to go by.                                  *)
Calls ==
  /\ \A t \in Threads : pc[t] = "idle" <=> on[t] = None
  /\ \A t \in Threads : pc[t] # "idle" =>
       native[on[t]] # None /\ op[t] \in Ops /\ ask[t] \in Arguments(op[t])
  /\ \A t \in Threads :
       /\ pc[t] \in {"readNs", "readDb"} => op[t] = "record"
       /\ pc[t] = "send" /\ op[t] = "record" => None \notin {got[t].ns, got[t].db}
       /\ pc[t] \in {"setNs", "setDb"} => op[t] \in Touching /\ got[t] \in Places

Inv == TypeOK /\ Own /\ Calls

(* The place a request leads to is one a session can be at.                 *)
LEMMA AfterPlaces ==
  ASSUME NEW o \in Ops, NEW a \in Names, NEW p \in Places \cup {None},
         o \in {"useNs", "record"} => a.ns # None
  PROVE  After(o, a, p) \subseteq Places
<1>1. Nowhere \in Places
  BY DEF Nowhere, Places, Names
<1>2. CASE o = "connect"
  BY <1>1, <1>2 DEF After
<1>3. CASE o # "connect" /\ p = None
  BY <1>3 DEF After
<1>4. CASE p # None /\ o = "useNs"
  <2>1. \A d \in {p.db, None} : [ns |-> a.ns, db |-> d] \in Places
    BY <1>4 DEF Places, Names
  <2>2. QED
    BY <1>4, <2>1 DEF After
<1>5. CASE p # None /\ o = "useDb"
  <2>1. p.ns # None => [p EXCEPT !.db = a.db] \in Places
    BY <1>5 DEF Places, Names
  <2>2. QED
    BY <1>5, <2>1 DEF After
<1>6. CASE p # None /\ o = "record"
  <2>1. a \in Places
    BY <1>6 DEF Places, Names
  <2>2. QED
    BY <1>6, <2>1 DEF After
<1>7. CASE p # None /\ o \in {"useDefaults", "signin", "invalidate"}
  BY <1>7 DEF After
<1>8. QED
  BY <1>2, <1>3, <1>4, <1>5, <1>6, <1>7 DEF Ops, Touching, Uses

(* The arguments of a call are places or parts of one.                      *)
LEMMA ArgumentsAreNames ==
  ASSUME NEW o \in Ops
  PROVE  /\ Arguments(o) \subseteq Names
         /\ o = "useNs" => \A p \in Arguments(o) : p.ns # None
<1>1. Nowhere \in Names
  BY DEF Nowhere, Names
<1>2. QED
  BY <1>1 DEF Arguments

(* What a request that succeeds finds: the object and its session, and      *)
(* where that may be afterwards.                                            *)
LEMMA Sending ==
  ASSUME Inv, NEW t \in Threads, pc[t] = "send"
  PROVE  /\ on[t] \in Sessions /\ native[on[t]] = on[t]
         /\ \A p \in After(op[t], ask[t], at[on[t]]) :
              op[t] \in Uses \cup {"connect"} => p \in Places
         /\ \A p \in After(op[t], got[t], at[on[t]]) :
              op[t] \in {"signin", "record"} => p \in Places
<1> USE DEF Inv
<1>1. on[t] \in Sessions /\ native[on[t]] = on[t]
  BY DEF TypeOK, Own, Calls
<1>2. op[t] \in Ops /\ ask[t] \in Names /\ got[t] \in Names /\ at[on[t]] \in Places \cup {None}
  BY <1>1 DEF Calls, TypeOK
<1>3. op[t] = "useNs" => ask[t].ns # None
  BY <1>2, ArgumentsAreNames DEF Calls
<1>4. op[t] = "record" => got[t].ns # None
  BY DEF Calls
<1>5. op[t] \in Uses \cup {"connect"} => After(op[t], ask[t], at[on[t]]) \subseteq Places
  BY <1>2, <1>3, AfterPlaces DEF Uses
<1>6. op[t] \in {"signin", "record"} => After(op[t], got[t], at[on[t]]) \subseteq Places
  BY <1>2, <1>4, AfterPlaces
<1>7. QED
  BY <1>1, <1>5, <1>6

(* A thread that returns or goes on keeps the types of what threads have.   *)
ThreadOK ==
  /\ pc \in [Threads -> {"idle", "readNs", "readDb", "send", "setNs", "setDb"}]
  /\ op \in [Threads -> Ops \cup {"none"}]
  /\ on \in [Threads -> Sessions \cup {None}]
  /\ ask \in [Threads -> Names] /\ got \in [Threads -> Names]

LEMMA LeavesType ==
  ASSUME ThreadOK, NEW t \in Threads, Leaves(t)
  PROVE  ThreadOK'
<1>1. Nowhere \in Names
  BY DEF Nowhere, Names
<1>2. QED
  BY <1>1 DEF ThreadOK, Leaves

LEMMA TypeStep == Inv /\ [Next]_vars => TypeOK'
<1> SUFFICES ASSUME Inv, [Next]_vars
             PROVE  TypeOK'
  OBVIOUS
<1> USE DEF Inv, TypeOK
<1> Nowhere \in Names /\ Nowhere \in Places /\ Places \subseteq Names
  BY DEF Nowhere, Names, Places
<1>1. CASE UNCHANGED vars
  BY <1>1 DEF vars, sdk, fields, thread, history
<1>2. ASSUME NEW s \in Sessions, New(s)
      PROVE  TypeOK'
  BY <1>2 DEF New, fields, thread, history
<1>3. ASSUME NEW s \in Sessions, NEW n \in Sessions, NewSession(s, n)
      PROVE  TypeOK'
  <2>1. native[s] = s
    BY <1>3 DEF NewSession, Own
  <2>2. QED
    BY <1>3, <2>1 DEF NewSession, fields, thread
<1>4. ASSUME NEW t \in Threads, NEW s \in Sessions, NEW o \in Ops, NEW p \in Arguments(o),
             Call(t, s, o, p)
      PROVE  TypeOK'
  <2>1. p \in Names
    BY ArgumentsAreNames
  <2>2. QED
    BY <1>4, <2>1 DEF Call, sdk, fields, history
<1>5. ASSUME NEW t \in Threads, ReadNs(t)
      PROVE  TypeOK'
  <2>1. on[t] \in Sessions
    BY <1>5 DEF ReadNs, Calls
  <2>2. [ask[t] EXCEPT !.ns = IF ask[t].ns = None THEN namespace[on[t]] ELSE @] \in Names
    BY <2>1 DEF Names
  <2>3. QED
    BY <1>5, <2>2 DEF ReadNs, Continues, sdk, fields, history
<1>6. ASSUME NEW t \in Threads, ReadDb(t)
      PROVE  TypeOK'
  <2>1. on[t] \in Sessions
    BY <1>6 DEF ReadDb, Calls
  <2>2. [got[t] EXCEPT !.db = IF ask[t].db = None THEN database[on[t]] ELSE @] \in Names
    BY <2>1 DEF Names
  <2>3. QED
    BY <1>6, <2>2 DEF ReadDb, Leaves, Continues, sdk, fields, history
<1>7. ASSUME NEW t \in Threads, Switch(t)
      PROVE  TypeOK'
  <2>1. on[t] \in Sessions /\ native[on[t]] = on[t]
    BY <1>7, Sending DEF Switch
  <2>2. PICK p \in After(op[t], ask[t], at[on[t]]) :
          /\ at' = [at EXCEPT ![on[t]] = p] /\ told' = [told EXCEPT ![on[t]] = p]
          /\ Continues(t, "setNs", p)
    BY <1>7, <2>1 DEF Switch
  <2>3. p \in Places
    BY <1>7, Sending DEF Switch
  <2>4. QED
    BY <1>7, <2>2, <2>3 DEF Switch, Continues, fields
<1>8. ASSUME NEW t \in Threads, SwitchUntold(t) \/ SignIn(t)
      PROVE  TypeOK'
  <2>1. on[t] \in Sessions /\ native[on[t]] = on[t]
    BY <1>8, Sending DEF SwitchUntold, SignIn
  <2>2. PICK p \in Places : /\ at' = [at EXCEPT ![on[t]] = p]
                            /\ strayed' = [strayed EXCEPT ![on[t]] = @ \/ p # at[on[t]]]
    BY <1>8, <2>1, Sending DEF SwitchUntold, SignIn
  <2>3. ThreadOK'
    BY <1>8, LeavesType DEF SwitchUntold, SignIn, ThreadOK
  <2>4. at' \in [Sessions -> Places \cup {None}] /\ authentic' \in [Sessions -> BOOLEAN]
    BY <1>8, <2>2 DEF SwitchUntold, SignIn
  <2>5. strayed' \in [Sessions -> BOOLEAN]
    BY <2>2
  <2>6. native' = native /\ namespace' = namespace /\ database' = database /\ told' = told
    BY <1>8 DEF SwitchUntold, SignIn, fields
  <2>7. QED
    BY <2>3, <2>4, <2>5, <2>6 DEF ThreadOK
<1>9. ASSUME NEW t \in Threads, Invalidate(t) \/ Refuse(t)
      PROVE  TypeOK'
  <2>1. ThreadOK'
    BY <1>9, LeavesType DEF Invalidate, Refuse, ThreadOK
  <2>2. authentic' \in [Sessions -> BOOLEAN]
    BY <1>9 DEF Invalidate, Refuse, sdk
  <2>3. /\ native' = native /\ at' = at /\ namespace' = namespace /\ database' = database
        /\ told' = told /\ strayed' = strayed
    BY <1>9 DEF Invalidate, Refuse, sdk, fields, history
  <2>4. QED
    BY <2>1, <2>2, <2>3 DEF ThreadOK
<1>10. ASSUME NEW t \in Threads, SetNs(t) \/ SetDb(t)
       PROVE  TypeOK'
  <2>1. ThreadOK'
    BY <1>10, LeavesType DEF SetNs, SetDb, Continues, ThreadOK
  <2>2. got[t].ns \in Namespaces \cup {None} /\ got[t].db \in Databases \cup {None}
    BY DEF Names
  <2>3. namespace' \in [Sessions -> Namespaces \cup {None}]
    BY <1>10, <2>2 DEF SetNs, SetDb
  <2>4. database' \in [Sessions -> Databases \cup {None}]
    BY <1>10, <2>2 DEF SetNs, SetDb
  <2>5. native' = native /\ at' = at /\ authentic' = authentic /\ told' = told /\ strayed' = strayed
    BY <1>10 DEF SetNs, SetDb, sdk, history
  <2>6. QED
    BY <2>1, <2>3, <2>4, <2>5 DEF ThreadOK
<1>11. QED
  BY <1>1, <1>2, <1>3, <1>4, <1>5, <1>6, <1>7, <1>8, <1>9, <1>10 DEF Next, Steps

LEMMA OwnStep == Inv /\ TypeOK' /\ [Next]_vars => Own'
<1> SUFFICES ASSUME Inv, TypeOK', [Next]_vars
             PROVE  Own'
  OBVIOUS
<1> USE DEF Inv, TypeOK, Own, Fields
<1>1. CASE UNCHANGED vars
  BY <1>1 DEF vars, sdk, fields, history
<1>2. ASSUME NEW s \in Sessions, New(s)
      PROVE  Own'
  BY <1>2, SessionAssumption DEF New, fields, history
<1>3. ASSUME NEW s \in Sessions, NEW n \in Sessions, NewSession(s, n)
      PROVE  Own'
  BY <1>3, SessionAssumption DEF NewSession, fields
<1>4. ASSUME NEW t \in Threads, NEW s \in Sessions, NEW o \in Ops, NEW p \in Arguments(o),
             Call(t, s, o, p)
      PROVE  Own'
  BY <1>4 DEF Call, sdk, fields, history
<1>5. ASSUME NEW t \in Threads, ReadNs(t) \/ ReadDb(t) \/ Invalidate(t) \/ Refuse(t)
      PROVE  Own'
  BY <1>5 DEF ReadNs, ReadDb, Invalidate, Refuse, sdk, fields, history
<1>6. ASSUME NEW t \in Threads, Switch(t) \/ SwitchUntold(t) \/ SignIn(t)
      PROVE  Own'
  <2>1. /\ native[on[t]] # None /\ on[t] \in Sessions
        /\ native' = native /\ fields' = fields
    BY <1>6, Sending DEF Switch, SwitchUntold, SignIn, Calls
  <2>2. \A s \in Sessions : s # on[t] => at'[s] = at[s] /\ told'[s] = told[s]
    BY <1>6, Sending DEF Switch, SwitchUntold, SignIn
  <2>3. QED
    BY <2>1, <2>2 DEF fields
<1>7. ASSUME NEW t \in Threads, SetNs(t) \/ SetDb(t)
      PROVE  Own'
  <2>1. native[on[t]] # None
    BY <1>7 DEF SetNs, SetDb, Calls
  <2>2. QED
    BY <1>7, <2>1 DEF SetNs, SetDb, sdk, history
<1>8. QED
  BY <1>1, <1>2, <1>3, <1>4, <1>5, <1>6, <1>7 DEF Next, Steps

LEMMA CallsStep == Inv /\ TypeOK' /\ [Next]_vars => Calls'
<1> SUFFICES ASSUME Inv, TypeOK', [Next]_vars
             PROVE  Calls'
  OBVIOUS
<1> USE SessionAssumption DEF Inv, TypeOK, Calls
<1>1. CASE UNCHANGED vars
  BY <1>1 DEF vars, sdk, thread
<1>2. ASSUME NEW s \in Sessions, New(s)
      PROVE  Calls'
  <2>1. \A t \in Threads : pc[t] # "idle" => native'[on[t]] # None
    BY <1>2 DEF New
  <2>2. QED
    BY <1>2, <2>1 DEF New, thread
<1>3. ASSUME NEW s \in Sessions, NEW n \in Sessions, NewSession(s, n)
      PROVE  Calls'
  <2>1. \A t \in Threads : pc[t] # "idle" => native'[on[t]] # None
    BY <1>3 DEF NewSession
  <2>2. QED
    BY <1>3, <2>1 DEF NewSession, thread
<1>4. ASSUME NEW t \in Threads, NEW s \in Sessions, NEW o \in Ops, NEW p \in Arguments(o),
             Call(t, s, o, p)
      PROVE  Calls'
  <2>1. pc[t] = "idle" /\ on' = [on EXCEPT ![t] = s] /\ op' = [op EXCEPT ![t] = o]
        /\ ask' = [ask EXCEPT ![t] = p] /\ got' = got /\ native' = native /\ native[s] # None
        /\ pc' = [pc EXCEPT ![t] = IF o = "record" THEN "readNs" ELSE "send"]
    BY <1>4 DEF Call, sdk
  <2>2. QED
    BY <2>1
<1>5. ASSUME NEW t \in Threads, Leaves(t), native' = native
      PROVE  Calls'
  BY <1>5 DEF Leaves
<1>6. ASSUME NEW t \in Threads, ReadNs(t)
      PROVE  Calls'
  BY <1>6 DEF ReadNs, Continues, sdk
<1>7. ASSUME NEW t \in Threads, ReadDb(t)
      PROVE  Calls'
  <2>1. CASE Leaves(t)
    BY <1>5, <1>7, <2>1 DEF ReadDb, sdk
  <2>2. CASE ~Leaves(t)
    <3>1. PICK p : Continues(t, "send", p) /\ None \notin {p.ns, p.db}
      BY <1>7, <2>2 DEF ReadDb
    <3>2. QED
      BY <1>7, <3>1 DEF ReadDb, Continues, sdk
  <2>3. QED
    BY <2>1, <2>2
<1>8. ASSUME NEW t \in Threads, Switch(t)
      PROVE  Calls'
  <2>1. PICK p \in Places : Continues(t, "setNs", p)
    BY <1>8, Sending DEF Switch
  <2>2. QED
    BY <1>8, <2>1 DEF Switch, Continues, Touching, Ops
<1>9. ASSUME NEW t \in Threads, SwitchUntold(t) \/ SignIn(t) \/ Invalidate(t) \/ Refuse(t) \/ SetDb(t)
      PROVE  Calls'
  BY <1>5, <1>9 DEF SwitchUntold, SignIn, Invalidate, Refuse, SetDb, sdk
<1>10. ASSUME NEW t \in Threads, SetNs(t)
       PROVE  Calls'
  BY <1>10 DEF SetNs, Continues, sdk
<1>11. QED
  BY <1>1, <1>2, <1>3, <1>4, <1>6, <1>7, <1>8, <1>9, <1>10 DEF Next, Steps

LEMMA Invariance == Spec => []Inv
<1>1. Init => Inv
  <2>1. Nowhere \in Names /\ Nowhere \in Places
    BY DEF Nowhere, Names, Places
  <2>2. QED
    BY <2>1, SessionAssumption DEF Init, Inv, TypeOK, Own, Calls, Fields, Nowhere
<1>2. Inv /\ [Next]_vars => Inv'
  BY TypeStep, OwnStep, CallsStep DEF Inv
<1>3. QED
  BY <1>1, <1>2, PTL DEF Spec

(* Whatever threads do to the objects, every field, place and argument has *)
(* its type: a session is never in a database without a namespace.          *)
THEOREM Typing == Spec => []TypeOK
<1>1. Inv => TypeOK
  BY DEF Inv
<1>2. QED
  BY <1>1, Invariance, PTL

(* A session that no thread is using stays as it is, however it came about. *)
THEOREM Independence == Spec => Independent
<1> DEFINE Unmoved(s) ==
      /\ native'[s] = native[s]
      /\ at'[native[s]] = at[native[s]]
      /\ authentic'[native[s]] = authentic[native[s]]
      /\ namespace'[s] = namespace[s] /\ database'[s] = database[s]
<1>1. ASSUME Inv, [Next]_vars, NEW s \in Sessions, native[s] # None,
             \A t \in Threads : on[t] # s
      PROVE  Unmoved(s)
  <2> USE DEF Inv, TypeOK
  <2>1. native[s] = s
    BY <1>1 DEF Own
  <2>2. CASE UNCHANGED vars
    BY <2>2 DEF vars, sdk, fields
  <2>3. ASSUME NEW x \in Sessions, New(x)
        PROVE  Unmoved(s)
    BY <1>1, <2>3 DEF New, fields
  <2>4. ASSUME NEW x \in Sessions, NEW n \in Sessions, NewSession(x, n)
        PROVE  Unmoved(s)
    BY <1>1, <2>1, <2>4 DEF NewSession, fields
  <2>5. ASSUME NEW t \in Threads, NEW x \in Sessions, NEW o \in Ops, NEW p \in Arguments(o),
               Call(t, x, o, p)
        PROVE  Unmoved(s)
    BY <2>5 DEF Call, sdk, fields
  <2>6. ASSUME NEW t \in Threads, ReadNs(t) \/ ReadDb(t) \/ Refuse(t)
        PROVE  Unmoved(s)
    BY <2>6 DEF ReadNs, ReadDb, Refuse, sdk, fields
  <2>7. ASSUME NEW t \in Threads, Switch(t) \/ SwitchUntold(t) \/ SignIn(t) \/ Invalidate(t)
        PROVE  Unmoved(s)
    <3>1. on[t] \in Sessions /\ native[on[t]] = on[t] /\ on[t] # s
      BY <1>1, <2>7, Sending DEF Switch, SwitchUntold, SignIn, Invalidate
    <3>2. \/ at' = at
          \/ \E p : at' = [at EXCEPT ![on[t]] = p]
      BY <2>7, <3>1 DEF Switch, SwitchUntold, SignIn, Invalidate
    <3>3. \/ authentic' = authentic
          \/ authentic' = [authentic EXCEPT ![on[t]] = TRUE]
          \/ authentic' = [authentic EXCEPT ![on[t]] = FALSE]
      BY <2>7, <3>1 DEF Switch, SwitchUntold, SignIn, Invalidate
    <3>4. UNCHANGED <<native, namespace, database>>
      BY <2>7 DEF Switch, SwitchUntold, SignIn, Invalidate, fields
    <3>5. at'[s] = at[s]
      BY <1>1, <3>1, <3>2
    <3>6. authentic'[s] = authentic[s]
      BY <1>1, <3>1, <3>3
    <3>7. QED
      BY <2>1, <3>4, <3>5, <3>6
  <2>8. ASSUME NEW t \in Threads, SetNs(t) \/ SetDb(t)
        PROVE  Unmoved(s)
    <3>1. on[t] # s
      BY <1>1
    <3>2. UNCHANGED <<native, at, authentic>>
      BY <2>8 DEF SetNs, SetDb, sdk
    <3>3. namespace' = namespace \/ namespace' = [namespace EXCEPT ![on[t]] = got[t].ns]
      BY <2>8 DEF SetNs, SetDb
    <3>4. database' = database \/ database' = [database EXCEPT ![on[t]] = got[t].db]
      BY <2>8 DEF SetNs, SetDb
    <3>5. namespace'[s] = namespace[s] /\ database'[s] = database[s]
      BY <1>1, <3>1, <3>3, <3>4
    <3>6. QED
      BY <3>2, <3>5
  <2>9. QED
    BY <1>1, <2>2, <2>3, <2>4, <2>5, <2>6, <2>7, <2>8 DEF Next, Steps
<1>2. Inv /\ [Next]_vars =>
        [\A s \in Sessions :
           native[s] # None /\ (\A t \in Threads : on[t] # s) => Unmoved(s)]_vars
  BY <1>1
<1>3. QED
  BY <1>2, Invariance, PTL DEF Spec, Independent
-----------------------------------------------------------------------------
(* With the discipline.  An object whose fields nobody is about to set      *)
(* shows the last answer, and what stands in for an open place of a         *)
(* credential is what the fields still say.                                 *)
OneBusy ==
  \A t, u \in Threads :
    on[t] # None /\ on[t] = on[u] /\ op[t] \in Touching /\ op[u] \in Touching => t = u

Setting == {t \in Threads : pc[t] \in {"setNs", "setDb"}}

Follows ==
  /\ \A s \in Sessions : (\A t \in Setting : on[t] # s) => Fields(s) = told[s]
  /\ \A t \in Setting : told[on[t]] = got[t]
  /\ \A t \in Threads : pc[t] = "setDb" => namespace[on[t]] = got[t].ns

Stays == \A s \in Sessions : at[s] # None /\ ~strayed[s] => told[s] = at[s]

FilledIn ==
  \A t \in Threads :
    LET s == on[t] IN
    /\ pc[t] = "readDb" =>
         got[t].ns = IF ask[t].ns = None THEN namespace[s] ELSE ask[t].ns
    /\ pc[t] = "send" /\ op[t] = "record" =>
         /\ ask[t].ns = None => got[t].ns = namespace[s]
         /\ ask[t].db = None => got[t].db = database[s]

DisciplinedInv == OneBusy /\ Follows /\ Stays /\ FilledIn

LEMMA DisciplinedStep ==
  Inv /\ Inv' /\ DisciplinedInv /\ [DisciplinedNext]_vars => DisciplinedInv'
<1> SUFFICES ASSUME Inv, Inv', DisciplinedInv, [DisciplinedNext]_vars
             PROVE  DisciplinedInv'
  OBVIOUS
<1> TypeOK /\ TypeOK' /\ Own /\ Own' /\ Calls /\ Calls' /\ OneBusy /\ Follows /\ Stays /\ FilledIn
  BY DEF Inv, DisciplinedInv
<1> USE SessionAssumption
<1>1. CASE UNCHANGED vars
  BY <1>1 DEF vars, sdk, fields, thread, history,
       DisciplinedInv, OneBusy, Setting, Follows, Fields, Stays, FilledIn
<1>2. ASSUME UNCHANGED <<thread, fields, told>>, Stays'
      PROVE  DisciplinedInv'
  BY <1>2 DEF thread, fields, DisciplinedInv, OneBusy, Setting, Follows, Fields, FilledIn
<1>3. ASSUME NEW s \in Sessions, New(s)
      PROVE  DisciplinedInv'
  <2>1. Stays'
    BY <1>3 DEF New, history, Stays
  <2>2. QED
    BY <1>2, <1>3, <2>1 DEF New, history
<1>4. ASSUME NEW s \in Sessions, NEW n \in Sessions, NewSession(s, n)
      PROVE  DisciplinedInv'
  <2>1. told[n] = Nowhere /\ native[s] = s /\ told' = told
    BY <1>4 DEF NewSession, Own
  <2>2. at' = [at EXCEPT ![n] = at[s]] /\ strayed' = [strayed EXCEPT ![n] = at[s] # Nowhere]
    BY <1>4, <2>1 DEF NewSession
  <2>3. Stays'
    BY <2>1, <2>2 DEF Stays, TypeOK
  <2>4. QED
    BY <1>2, <1>4, <2>3 DEF NewSession
<1>5. ASSUME NEW t \in Threads, NEW s \in Sessions, NEW o \in Ops, NEW p \in Arguments(o),
             OneAtATime(t, s, o), Call(t, s, o, p)
      PROVE  DisciplinedInv'
  <2>1. /\ pc[t] = "idle" /\ on' = [on EXCEPT ![t] = s] /\ op' = [op EXCEPT ![t] = o]
        /\ ask' = [ask EXCEPT ![t] = p] /\ got' = got
        /\ pc' = [pc EXCEPT ![t] = IF o = "record" THEN "readNs" ELSE "send"]
        /\ UNCHANGED <<at, namespace, database, told, strayed>>
    BY <1>5 DEF Call, sdk, fields, history
  <2>2. OneBusy'
    BY <1>5, <2>1 DEF OneBusy, OneAtATime, Busy, TypeOK
  <2>3. Setting' = Setting /\ t \notin Setting
    BY <2>1 DEF Setting, TypeOK
  <2>4. Follows'
    BY <2>1, <2>3 DEF Follows, Setting, Fields, TypeOK
  <2>5. Stays' /\ FilledIn'
    BY <2>1 DEF Stays, FilledIn, TypeOK
  <2>6. QED
    BY <2>2, <2>4, <2>5 DEF DisciplinedInv
<1>6. ASSUME NEW t \in Threads, Leaves(t), UNCHANGED <<fields, told>>, t \notin Setting, Stays'
      PROVE  DisciplinedInv'
  <2>1. OneBusy'
    BY <1>6 DEF OneBusy, Leaves, TypeOK
  <2>2. Setting' = Setting
    BY <1>6 DEF Setting, Leaves, TypeOK
  <2>3. Follows'
    BY <1>6, <2>2 DEF Follows, Setting, Leaves, Fields, fields, TypeOK
  <2>4. FilledIn'
    BY <1>6 DEF FilledIn, Leaves, fields, TypeOK
  <2>5. QED
    BY <1>6, <2>1, <2>3, <2>4 DEF DisciplinedInv
<1>7. ASSUME NEW t \in Threads, NEW p, Continues(t, "readDb", p) \/ Continues(t, "send", p),
             UNCHANGED <<sdk, fields, history>>, t \notin Setting, FilledIn'
      PROVE  DisciplinedInv'
  <2>1. OneBusy'
    BY <1>7 DEF OneBusy, Continues
  <2>2. Setting' = Setting
    BY <1>7 DEF Setting, Continues, TypeOK
  <2>3. Follows'
    BY <1>7, <2>2 DEF Follows, Setting, Continues, Fields, fields, history, TypeOK
  <2>4. Stays'
    BY <1>7 DEF Stays, sdk, history
  <2>5. QED
    BY <1>7, <2>1, <2>3, <2>4 DEF DisciplinedInv
<1>8. ASSUME NEW t \in Threads, ReadNs(t)
      PROVE  DisciplinedInv'
  <2>1. FilledIn'
    BY <1>8 DEF ReadNs, Continues, FilledIn, TypeOK, fields, Names
  <2>2. QED
    BY <1>7, <1>8, <2>1 DEF ReadNs, Setting
<1>9. ASSUME NEW t \in Threads, ReadDb(t)
      PROVE  DisciplinedInv'
  <2>1. CASE Leaves(t)
    BY <1>6, <1>9, <2>1 DEF ReadDb, Setting, Stays, sdk, history
  <2>2. CASE ~Leaves(t)
    <3> DEFINE p == [got[t] EXCEPT !.db = IF ask[t].db = None THEN database[on[t]] ELSE @]
    <3>1. Continues(t, "send", p)
      BY <1>9, <2>2 DEF ReadDb
    <3>2. p.ns = got[t].ns /\ (ask[t].db = None => p.db = database[on[t]])
      BY DEF TypeOK, Names
    <3>3. FilledIn'
      BY <1>9, <3>1, <3>2 DEF ReadDb, Continues, FilledIn, TypeOK, fields
    <3>4. QED
      BY <1>7, <1>9, <3>1, <3>3 DEF ReadDb, Setting
  <2>3. QED
    BY <2>1, <2>2
<1>10. ASSUME NEW t \in Threads, Switch(t)
       PROVE  DisciplinedInv'
  <2>1. /\ on[t] \in Sessions /\ native[on[t]] = on[t]
        /\ op[t] \in Touching /\ pc[t] = "send"
    BY <1>10, Sending DEF Inv, Switch, Touching
  <2>2. PICK p \in Places :
          /\ at' = [at EXCEPT ![on[t]] = p] /\ told' = [told EXCEPT ![on[t]] = p]
          /\ Continues(t, "setNs", p)
    BY <1>10, <2>1, Sending DEF Inv, Switch
  <2>3. /\ strayed' = [strayed EXCEPT ![on[t]] = FALSE] /\ UNCHANGED <<namespace, database>>
    BY <1>10 DEF Switch, fields
  <2>4. \A u \in Threads : u # t /\ on[u] = on[t] => op[u] \notin Touching
    BY <2>1 DEF OneBusy, TypeOK
  <2>5. OneBusy'
    BY <2>2 DEF OneBusy, Continues
  <2>6. Setting' = Setting \cup {t}
    BY <2>2 DEF Setting, Continues, TypeOK
  <2>7. Follows'
    <3>1. \A u \in Setting : u # t /\ on[u] # on[t]
      BY <2>1, <2>4 DEF Setting, Calls
    <3>2. \A u \in Setting' : told'[on[u]] = got'[u]
      BY <2>1, <2>2, <2>6, <3>1 DEF Follows, Continues, TypeOK
    <3>3. \A u \in Threads : pc'[u] = "setDb" => namespace'[on'[u]] = got'[u].ns
      BY <2>2, <2>3 DEF Follows, Continues, TypeOK
    <3>4. \A s \in Sessions : (\A u \in Setting' : on[u] # s) => Fields(s)' = told'[s]
      BY <2>1, <2>2, <2>3, <2>6 DEF Follows, Fields, TypeOK
    <3>5. QED
      BY <2>2, <3>2, <3>3, <3>4 DEF Follows, Continues
  <2>8. Stays'
    BY <2>1, <2>2, <2>3 DEF Stays, TypeOK
  <2>9. FilledIn'
    BY <2>2, <2>3 DEF FilledIn, Continues, TypeOK
  <2>10. QED
    BY <2>5, <2>7, <2>8, <2>9 DEF DisciplinedInv
<1>11. ASSUME NEW t \in Threads, SwitchUntold(t) \/ SignIn(t)
       PROVE  DisciplinedInv'
  <2>1. on[t] \in Sessions /\ native[on[t]] = on[t] /\ t \notin Setting
    BY <1>11, Sending DEF Inv, SwitchUntold, SignIn, Setting
  <2>2. PICK p : /\ at' = [at EXCEPT ![on[t]] = p]
                 /\ strayed' = [strayed EXCEPT ![on[t]] = @ \/ p # at[on[t]]]
    BY <1>11, <2>1 DEF SwitchUntold, SignIn
  <2>3. Leaves(t) /\ UNCHANGED <<fields, told>>
    BY <1>11 DEF SwitchUntold, SignIn
  <2>4. /\ \A s \in Sessions \ {on[t]} : at'[s] = at[s] /\ strayed'[s] = strayed[s]
        /\ at'[on[t]] = p
    BY <2>1, <2>2 DEF TypeOK
  <2>5. strayed'[on[t]] = (strayed[on[t]] \/ p # at[on[t]])
    BY <2>1, <2>2, ZenonT(30) DEF TypeOK
  <2>6. \A s \in Sessions : at'[s] # None /\ ~strayed'[s] => at'[s] = at[s] /\ ~strayed[s]
    BY <2>4, <2>5
  <2>7. Stays'
    BY <2>3, <2>6 DEF Stays
  <2>8. QED
    BY <1>6, <2>1, <2>3, <2>7
<1>12. ASSUME NEW t \in Threads, Invalidate(t) \/ Refuse(t)
       PROVE  DisciplinedInv'
  <2>1. Leaves(t) /\ UNCHANGED <<at, fields, history>> /\ t \notin Setting
    BY <1>12 DEF Invalidate, Refuse, Setting, sdk
  <2>2. Stays'
    BY <2>1 DEF Stays, history
  <2>3. QED
    BY <1>6, <2>1, <2>2 DEF history
<1>13. ASSUME NEW t \in Threads, SetNs(t)
       PROVE  DisciplinedInv'
  <2>1. /\ t \in Setting /\ on[t] \in Sessions /\ op[t] \in Touching
        /\ namespace' = [namespace EXCEPT ![on[t]] = got[t].ns]
        /\ Continues(t, "setDb", got[t]) /\ UNCHANGED <<at, database, told, strayed>>
    BY <1>13 DEF SetNs, Setting, Calls, TypeOK, sdk, history
  <2>2. \A u \in Threads : u # t /\ on[u] = on[t] => op[u] \notin Touching
    BY <2>1 DEF OneBusy, TypeOK
  <2>3. Setting' = Setting /\ got' = got
    BY <2>1 DEF Setting, Continues, TypeOK
  <2>4. OneBusy'
    BY <2>1 DEF OneBusy, Continues
  <2>5. Follows'
    <3>1. \A s \in Sessions : s # on[t] => Fields(s)' = Fields(s)
      BY <2>1 DEF Fields, TypeOK
    <3>2. \A u \in Threads : pc'[u] = "setDb" /\ u # t => on[u] # on[t]
      BY <2>1, <2>2 DEF Calls, Continues, TypeOK
    <3>3. \A u \in Threads : pc'[u] = "setDb" => namespace'[on[u]] = got[u].ns
      BY <2>1, <3>2 DEF Follows, Continues, TypeOK
    <3>4. QED
      BY <2>1, <2>3, <3>1, <3>3 DEF Follows, Continues
  <2>6. Stays'
    BY <2>1 DEF Stays
  <2>7. FilledIn'
    <3>1. \A u \in Threads : u # t /\ (pc[u] = "readDb" \/ (pc[u] = "send" /\ op[u] = "record"))
            => namespace'[on[u]] = namespace[on[u]]
      BY <2>1, <2>2 DEF Calls, Touching, TypeOK
    <3>2. QED
      BY <2>1, <2>3, <3>1 DEF FilledIn, Continues, TypeOK
  <2>8. QED
    BY <2>4, <2>5, <2>6, <2>7 DEF DisciplinedInv
<1>14. ASSUME NEW t \in Threads, SetDb(t)
       PROVE  DisciplinedInv'
  <2>1. /\ t \in Setting /\ pc[t] = "setDb" /\ on[t] \in Sessions /\ op[t] \in Touching
        /\ database' = [database EXCEPT ![on[t]] = got[t].db]
        /\ Leaves(t) /\ UNCHANGED <<at, namespace, told, strayed>>
    BY <1>14 DEF SetDb, Setting, Calls, TypeOK, sdk, history
  <2>2. \A u \in Threads : u # t /\ on[u] = on[t] => op[u] \notin Touching
    BY <2>1 DEF OneBusy, TypeOK
  <2>3. Setting' = Setting \ {t}
    BY <2>1 DEF Setting, Leaves, TypeOK
  <2>4. OneBusy'
    BY <2>1 DEF OneBusy, Leaves, TypeOK
  <2>5. Follows'
    <3>1. \A s \in Sessions : s # on[t] => Fields(s)' = Fields(s)
      BY <2>1 DEF Fields, TypeOK
    <3>2. got[t] \in Names /\ told[on[t]] = got[t] /\ namespace[on[t]] = got[t].ns
      BY <2>1 DEF Follows, TypeOK
    <3>3. got[t] = [ns |-> got[t].ns, db |-> got[t].db]
      BY <3>2 DEF Names
    <3>4. \A s \in Sessions : s = on[t] => Fields(s)' = told'[s]
      BY <2>1, <3>2, <3>3 DEF Fields, TypeOK
    <3>5. \A u \in Setting' : on'[u] = on[u] /\ got'[u] = got[u]
      BY <2>1, <2>3 DEF Leaves, Setting, TypeOK
    <3>6. \A s \in Sessions : (\A u \in Setting' : on'[u] # s) => Fields(s)' = told'[s]
      BY <2>1, <2>3, <3>1, <3>4, <3>5 DEF Follows
    <3>7. \A u \in Threads : pc'[u] = "setDb" => pc[u] = "setDb" /\ u \in Setting'
      BY <2>1 DEF Leaves, Setting, TypeOK
    <3>8. QED
      BY <2>1, <2>3, <3>5, <3>6, <3>7 DEF Follows
  <2>6. Stays'
    BY <2>1 DEF Stays
  <2>7. FilledIn'
    <3>1. \A u \in Threads : u # t /\ (pc[u] = "readDb" \/ (pc[u] = "send" /\ op[u] = "record"))
            => database'[on[u]] = database[on[u]]
      BY <2>1, <2>2 DEF Calls, Touching, TypeOK
    <3>2. QED
      BY <2>1, <3>1 DEF FilledIn, Leaves, TypeOK
  <2>8. QED
    BY <2>4, <2>5, <2>6, <2>7 DEF DisciplinedInv
<1>15. QED
  BY <1>1, <1>3, <1>4, <1>5, <1>8, <1>9, <1>10, <1>11, <1>12, <1>13, <1>14 DEF DisciplinedNext, Steps

LEMMA DisciplinedInvariance == DisciplinedSpec => [](Inv /\ DisciplinedInv)
<1>1. DisciplinedNext => Next
  BY DEF DisciplinedNext, Next
<1>2. DisciplinedSpec => Spec
  BY <1>1, PTL DEF DisciplinedSpec, Spec
<1>3. Init => DisciplinedInv
  BY DEF Init, DisciplinedInv, OneBusy, Setting, Follows, Fields, Stays, FilledIn, Nowhere
<1>4. QED
  BY <1>2, <1>3, DisciplinedStep, Invariance, PTL DEF DisciplinedSpec

(* As long as the operations on the fields of an object are made one at a   *)
(* time, its getters say where its session is, unless that moved untold.    *)
THEOREM Current == DisciplinedSpec => []FieldsAreCurrent
<1>1. ASSUME Inv, DisciplinedInv, NEW s \in Sessions,
             native[s] # None, at[native[s]] # None, ~strayed[s], ~Busy(s)
      PROVE  Fields(s) = at[native[s]]
  <2>1. native[s] = s
    BY <1>1 DEF Inv, Own
  <2>2. \A t \in Setting : on[t] # s
    BY <1>1 DEF Setting, Busy, Inv, Calls
  <2>3. QED
    BY <1>1, <2>1, <2>2 DEF DisciplinedInv, Follows, Stays
<1>2. Inv /\ DisciplinedInv => FieldsAreCurrent
  BY <1>1 DEF FieldsAreCurrent
<1>3. QED
  BY <1>2, DisciplinedInvariance, PTL

(* With the same discipline a record user without a place of its own is     *)
(* signed up or in at the place of the session.                             *)
THEOREM RightPlace == DisciplinedSpec => []SignsInHere
<1>1. ASSUME Inv, DisciplinedInv, NEW t \in Threads, pc[t] = "send", op[t] = "record",
             at[native[on[t]]] # None, ~strayed[on[t]]
      PROVE  /\ ask[t].ns = None => got[t].ns = at[native[on[t]]].ns
             /\ ask[t].db = None => got[t].db = at[native[on[t]]].db
  <2>1. on[t] \in Sessions /\ native[on[t]] = on[t]
    BY <1>1, Sending
  <2>2. \A u \in Setting : on[u] # on[t]
    <3>1. \A u \in Setting : op[u] \in Touching /\ on[u] # None /\ u # t
      BY <1>1 DEF Setting, Inv, Calls
    <3>2. QED
      BY <1>1, <3>1 DEF DisciplinedInv, OneBusy, Touching, Setting
  <2>3. Fields(on[t]) = at[on[t]]
    BY <1>1, <2>1, <2>2 DEF DisciplinedInv, Follows, Stays
  <2>4. QED
    BY <1>1, <2>1, <2>3 DEF DisciplinedInv, FilledIn, Fields
<1>2. Inv /\ DisciplinedInv => SignsInHere
  BY <1>1 DEF SignsInHere
<1>3. QED
  BY <1>2, DisciplinedInvariance, PTL

(* What an object shows while a thread is between or before its two         *)
(* assignments, and when no thread is.                                      *)
LEMMA ShowsTold ==
  ASSUME Inv, DisciplinedInv, NEW s \in Sessions
  PROVE  /\ (\A t \in Threads : on[t] = s => pc[t] # "setNs") => Shown(s) = told[s]
         /\ (\E t \in Threads : on[t] = s /\ pc[t] = "setNs") => Shown(s) = Fields(s)
<1> Inv /\ TypeOK /\ Calls /\ OneBusy /\ Follows
  BY DEF Inv, DisciplinedInv
<1>1. \A t, u \in Threads : t \in Setting /\ u \in Setting /\ on[t] = on[u] => t = u
  BY DEF Setting, Calls, OneBusy
<1>2. CASE \E t \in Threads : pc[t] = "setDb" /\ on[t] = s
  <2>1. PICK t \in Threads : pc[t] = "setDb" /\ on[t] = s
    BY <1>2
  <2>2. \A u \in Threads : pc[u] = "setDb" /\ on[u] = s => u = t
    BY <1>1, <2>1 DEF Setting
  <2>3. (CHOOSE u \in Threads : pc[u] = "setDb" /\ on[u] = s) = t
    BY <2>1, <2>2
  <2>4. Shown(s) = [Fields(s) EXCEPT !.db = got[t].db]
    BY <1>2, <2>3 DEF Shown
  <2>5. told[s] = got[t] /\ namespace[s] = got[t].ns /\ got[t] \in Names
    BY <2>1 DEF Follows, Setting, TypeOK
  <2>6. got[t] = [ns |-> got[t].ns, db |-> got[t].db]
    BY <2>5 DEF Names
  <2>7. Shown(s) = told[s]
    BY <2>4, <2>5, <2>6 DEF Fields
  <2>8. \A u \in Threads : on[u] = s => pc[u] # "setNs"
    BY <1>1, <2>1 DEF Setting
  <2>9. QED
    BY <2>7, <2>8
<1>3. CASE ~ \E t \in Threads : pc[t] = "setDb" /\ on[t] = s
  <2>1. Shown(s) = Fields(s)
    BY <1>3 DEF Shown
  <2>2. (\A t \in Threads : on[t] = s => pc[t] # "setNs") => Fields(s) = told[s]
    BY <1>3 DEF Follows, Setting
  <2>3. QED
    BY <2>1, <2>2
<1>4. QED
  BY <1>2, <1>3

SettingNs(s) == \E t \in Threads : on[t] = s /\ pc[t] = "setNs"

ShowsRight ==
  \A s \in Sessions : Shown(s) = IF SettingNs(s) THEN Fields(s) ELSE told[s]

LEMMA AlwaysShowsRight == Inv /\ DisciplinedInv => ShowsRight
BY ShowsTold DEF ShowsRight, SettingNs

(* Of one object at most the place changes, and what it shows only when a   *)
(* thread has stored a namespace.                                           *)
LEMMA ViewStep ==
  Inv /\ Inv' /\ DisciplinedInv /\ ShowsRight /\ ShowsRight' /\ [DisciplinedNext]_vars
    => [View!ViewNext]_(View!view)
<1> SUFFICES ASSUME Inv, Inv', DisciplinedInv, ShowsRight, ShowsRight', [DisciplinedNext]_vars
             PROVE  [View!ViewNext]_(View!view)
  OBVIOUS
<1> TypeOK /\ TypeOK' /\ Own /\ Own' /\ Calls /\ OneBusy /\ Follows
  BY DEF Inv, DisciplinedInv
<1> DEFINE place == [s \in Sessions |-> IF native[s] = None THEN None ELSE at[native[s]]]
           shows == [s \in Sessions |-> Shown(s)]
<1>1. place = at /\ place' = at'
  BY DEF TypeOK, Own
<1>2. ASSUME UNCHANGED <<told, fields>>, \A s \in Sessions : SettingNs(s)' = SettingNs(s)
      PROVE  shows' = shows
  BY <1>2 DEF ShowsRight, fields, Fields
<1>3. ASSUME at' = at, told' = told, shows' = shows
      PROVE  [View!ViewNext]_(View!view)
  BY <1>1, <1>3 DEF View!view
<1>4. ASSUME NEW s \in Sessions, NEW p \in Places \cup {None}, at' = [at EXCEPT ![s] = p],
             told' = told, shows' = shows
      PROVE  View!ViewNext
  BY <1>1, <1>4 DEF View!ViewNext, View!Stray
<1>5. CASE UNCHANGED vars
  <2>1. UNCHANGED <<at, told, fields>> /\ \A s \in Sessions : SettingNs(s)' = SettingNs(s)
    BY <1>5 DEF vars, sdk, thread, history, SettingNs
  <2>2. QED
    BY <1>2, <1>3, <2>1
<1>6. ASSUME NEW s \in Sessions, New(s)
      PROVE  [View!ViewNext]_(View!view)
  <2>1. UNCHANGED <<at, told, fields>> /\ \A x \in Sessions : SettingNs(x)' = SettingNs(x)
    BY <1>6 DEF New, thread, history, SettingNs
  <2>2. QED
    BY <1>2, <1>3, <2>1
<1>7. ASSUME NEW s \in Sessions, NEW n \in Sessions, NewSession(s, n)
      PROVE  [View!ViewNext]_(View!view)
  <2>1. native[s] = s /\ at' = [at EXCEPT ![n] = at[native[s]]]
    BY <1>7 DEF NewSession, Own
  <2>2. UNCHANGED <<told, fields>> /\ \A x \in Sessions : SettingNs(x)' = SettingNs(x)
    BY <1>7 DEF NewSession, thread, SettingNs
  <2>3. at[native[s]] \in Places \cup {None}
    BY <2>1 DEF TypeOK
  <2>4. QED
    BY <1>2, <1>4, <2>1, <2>2, <2>3
<1>8. ASSUME NEW t \in Threads, NEW s \in Sessions, NEW o \in Ops, NEW p \in Arguments(o),
             Call(t, s, o, p)
      PROVE  [View!ViewNext]_(View!view)
  <2>1. /\ pc[t] = "idle" /\ on' = [on EXCEPT ![t] = s]
        /\ pc' = [pc EXCEPT ![t] = IF o = "record" THEN "readNs" ELSE "send"]
        /\ UNCHANGED <<at, told, fields>>
    BY <1>8 DEF Call, sdk, history
  <2>2. \A x \in Sessions : SettingNs(x)' = SettingNs(x)
    BY <2>1 DEF SettingNs, TypeOK
  <2>3. QED
    BY <1>2, <1>3, <2>1, <2>2
<1>9. ASSUME NEW t \in Threads, Leaves(t), pc[t] # "setNs"
      PROVE  \A x \in Sessions : SettingNs(x)' = SettingNs(x)
  BY <1>9 DEF Leaves, SettingNs, TypeOK
<1>10. ASSUME NEW t \in Threads, ReadNs(t) \/ ReadDb(t) \/ Invalidate(t) \/ Refuse(t)
       PROVE  [View!ViewNext]_(View!view)
  <2>1. UNCHANGED <<at, told, fields>>
    BY <1>10 DEF ReadNs, ReadDb, Invalidate, Refuse, sdk, history
  <2>2. CASE Leaves(t)
    <3>1. pc[t] # "setNs"
      BY <1>10 DEF ReadNs, ReadDb, Invalidate, Refuse
    <3>2. QED
      BY <1>2, <1>3, <1>9, <2>1, <2>2, <3>1
  <2>3. CASE ~Leaves(t)
    <3>1. on' = on /\ pc[t] # "setNs" /\ \E l \in {"readDb", "send"} : pc' = [pc EXCEPT ![t] = l]
      BY <1>10, <2>3 DEF ReadNs, ReadDb, Invalidate, Refuse, Continues
    <3>2. \A x \in Sessions : SettingNs(x)' = SettingNs(x)
      BY <3>1 DEF SettingNs, TypeOK
    <3>3. QED
      BY <1>2, <1>3, <2>1, <3>2
  <2>4. QED
    BY <2>2, <2>3
<1>11. ASSUME NEW t \in Threads, Switch(t)
       PROVE  [View!ViewNext]_(View!view)
  <2>1. on[t] \in Sessions /\ op[t] \in Touching /\ pc[t] = "send" /\ native[on[t]] = on[t]
    BY <1>11, Sending DEF Switch, Touching
  <2>2. PICK p \in Places :
          /\ at' = [at EXCEPT ![on[t]] = p] /\ told' = [told EXCEPT ![on[t]] = p]
          /\ Continues(t, "setNs", p)
    BY <1>11, <2>1, Sending DEF Switch
  <2>3. UNCHANGED fields
    BY <1>11 DEF Switch
  <2>4. \A u \in Setting : on[u] # on[t]
    BY <2>1 DEF OneBusy, Setting, Calls, TypeOK
  <2>5. SettingNs(on[t])' /\ Fields(on[t]) = told[on[t]] /\ ~SettingNs(on[t])
    BY <2>1, <2>2, <2>4 DEF SettingNs, Setting, Continues, Follows, TypeOK
  <2>6. \A s \in Sessions : Fields(s)' = Fields(s)
    BY <2>3 DEF Fields, fields
  <2>7. \A s \in Sessions : s = on[t] => Shown(s)' = Shown(s)
    BY <2>2, <2>5, <2>6 DEF ShowsRight, Continues
  <2>8. \A s \in Sessions : s # on[t] => SettingNs(s)' = SettingNs(s) /\ told'[s] = told[s]
    BY <2>2 DEF SettingNs, Continues, TypeOK
  <2>9. shows' = shows
    BY <2>6, <2>7, <2>8 DEF ShowsRight
  <2>10. \A s \in Sessions : s = on[t] => View!Tell(s)
    BY <1>1, <2>1, <2>2, <2>9 DEF View!Tell
  <2>11. \E s \in Sessions : View!Tell(s)
    BY <2>1, <2>10
  <2>12. QED
    BY <2>11 DEF View!ViewNext
<1>12. ASSUME NEW t \in Threads, SwitchUntold(t) \/ SignIn(t)
       PROVE  [View!ViewNext]_(View!view)
  <2>1. on[t] \in Sessions /\ native[on[t]] = on[t]
    BY <1>12, Sending DEF SwitchUntold, SignIn
  <2>2. PICK p \in Places : at' = [at EXCEPT ![on[t]] = p]
    BY <1>12, <2>1, Sending DEF SwitchUntold, SignIn
  <2>3. Leaves(t) /\ pc[t] # "setNs" /\ UNCHANGED <<told, fields>>
    BY <1>12 DEF SwitchUntold, SignIn
  <2>4. QED
    <3>1. shows' = shows
      BY <1>2, <1>9, <2>3
    <3>2. QED
      BY <1>4, <2>1, <2>2, <2>3, <3>1
<1>13. ASSUME NEW t \in Threads, SetNs(t)
       PROVE  [View!ViewNext]_(View!view)
  <2>1. /\ pc[t] = "setNs" /\ on[t] \in Sessions
        /\ namespace' = [namespace EXCEPT ![on[t]] = got[t].ns]
        /\ Continues(t, "setDb", got[t]) /\ UNCHANGED <<at, database, told>>
    BY <1>13 DEF SetNs, Calls, TypeOK, sdk, history
  <2>2. \A u \in Threads : u # t /\ on[u] = on[t] => pc[u] # "setNs"
    BY <2>1 DEF OneBusy, Calls, TypeOK
  <2>3. \A s \in Sessions : s = on[t] => ~SettingNs(s)'
    BY <2>1, <2>2 DEF SettingNs, Continues, TypeOK
  <2>4. \A s \in Sessions : s # on[t] =>
          SettingNs(s)' = SettingNs(s) /\ Fields(s)' = Fields(s)
    BY <2>1 DEF SettingNs, Continues, Fields, TypeOK
  <2>5. shows' = [shows EXCEPT ![on[t]] = told[on[t]]]
    BY <2>1, <2>3, <2>4 DEF ShowsRight
  <2>6. View!Show(on[t])
    BY <1>1, <2>1, <2>5 DEF View!Show
  <2>7. QED
    BY <2>1, <2>6 DEF View!ViewNext
<1>14. ASSUME NEW t \in Threads, SetDb(t)
       PROVE  [View!ViewNext]_(View!view)
  <2>1. /\ pc[t] = "setDb" /\ on[t] \in Sessions
        /\ database' = [database EXCEPT ![on[t]] = got[t].db]
        /\ Leaves(t) /\ UNCHANGED <<at, namespace, told>>
    BY <1>14 DEF SetDb, Calls, TypeOK, sdk, history
  <2>2. \A s \in Sessions : SettingNs(s)' = SettingNs(s)
    BY <1>9, <2>1
  <2>3. ~SettingNs(on[t])
    BY <2>1 DEF OneBusy, Calls, SettingNs, TypeOK
  <2>4. \A s \in Sessions : s # on[t] => Fields(s)' = Fields(s)
    BY <2>1 DEF Fields, TypeOK
  <2>5. shows' = shows
    BY <2>1, <2>2, <2>3, <2>4 DEF ShowsRight
  <2>6. QED
    BY <1>3, <2>1, <2>5
<1>15. QED
  BY <1>5, <1>6, <1>7, <1>8, <1>10, <1>11, <1>12, <1>13, <1>14 DEF DisciplinedNext, Steps

(* The pair of getters implements SessionView: it only ever shows answers,  *)
(* each as a whole.                                                         *)
THEOREM Refinement == DisciplinedSpec => ViewSpec
<1>1. Init => View!ViewInit
  <2>1. ASSUME Init, NEW s \in Sessions
        PROVE  Shown(s) = Nowhere
    <3>1. \A t \in Threads : pc[t] # "setDb"
      BY <2>1 DEF Init
    <3>2. Shown(s) = Fields(s)
      BY <3>1 DEF Shown
    <3>3. QED
      BY <2>1, <3>2 DEF Init, Fields, Nowhere
  <2>2. QED
    BY <2>1 DEF Init, View!ViewInit
<1>2. QED
  BY <1>1, AlwaysShowsRight, DisciplinedInvariance, ViewStep, PTL
     DEF DisciplinedSpec, ViewSpec, View!ViewSpec
=============================================================================
