------------------------------- MODULE Errors -------------------------------
(***************************************************************************)
(* How an error of the SDK becomes a Java exception.  An error has a kind  *)
(* and may have a cause, which may be an error of the SDK again.  The      *)
(* exceptions are built from the last cause outwards; each takes calls     *)
(* into the JVM that can fail, with or without leaving an exception of the *)
(* JVM's own pending, after which no further call succeeds.                *)
(***************************************************************************)
EXTENDS Naturals, Sequences

CONSTANTS Kinds,     \* kinds of error a server can answer with
          MaxCauses  \* bound: links below the error itself

ASSUME ErrorsAssumption == MaxCauses \in Nat

(* Kinds with an exception class of their own.                             *)
Typed == {"Validation", "Configuration", "Thrown", "Query", "Serialization",
          "NotAllowed", "NotFound", "AlreadyExists", "Internal"}

(* An exception in Java.  The classes of its own are named like the kind;  *)
(* a kind the client does not know is handed on as it is.                  *)
ServerException(k) ==
  [class |-> IF k \in Typed THEN k ELSE "ServerException",
   kind |-> IF k \in Typed \cup {"Connection"} THEN k ELSE "UNKNOWN",
   raw |-> IF k \in Typed \cup {"Connection"} THEN "" ELSE k]

Plain(class) == [class |-> class, kind |-> "", raw |-> ""]

Exceptions ==
  {ServerException(k) : k \in Kinds \cup {"Connection"}} \cup
  {Plain(c) : c \in {"SurrealException", "NullPointerException",
                     "NoSuchElementException", "Error"}}

(* A link of the chain: its kind, how the calls into the JVM go that build *)
(* its exception, and whether it is an error of the SDK at all.            *)
Link(k, j) == [kind |-> k, jni |-> j, surreal |-> TRUE]
Foreign == [kind |-> "Other", jni |-> "ok", surreal |-> FALSE]
Calling == {"ok", "fails", "pends"}

(* The chains an error of kind k may have; the client's own errors have no *)
(* cause.                                                                  *)
Causes == {Link(l, i) : l \in Kinds, i \in Calling} \cup {Foreign}

Below == UNION {[1 .. n -> Causes] : n \in 0 .. MaxCauses}

Chains(k) ==
  {<<Link(k, j)>> \o causes : j \in Calling, causes \in IF k \in Kinds THEN Below ELSE {<<>>}}

(* Mutant: the exceptions of the causes are not attached.                  *)
Causeless(chain) ==
  IF chain[1].jni = "ok" THEN <<ServerException(chain[1].kind)>> ELSE <<>>

(* The exceptions from the one at the front of chain to its last cause;    *)
(* empty if the first cannot be built.                                     *)
BuildServerException(chain) ==
  LET built[i \in 1 .. Len(chain)] ==
        LET cause == IF i < Len(chain) /\ chain[i + 1].surreal THEN built[i + 1] ELSE <<>>
        IN  IF chain[i].jni = "ok" THEN <<ServerException(chain[i].kind)>> \o cause ELSE <<>>
  IN  built[1]

(* The chain as far as it is walked: up to a cause of another library.     *)
Walked(chain) ==
  {i \in 1 .. Len(chain) : \A j \in 2 .. i : chain[j].surreal}

(* exception(): what is thrown, with its causes.  What the JVM has pending *)
(* stays; an exception that cannot be built becomes a flat one.            *)
Exception(chain) ==
  IF \E i \in Walked(chain) : chain[i].jni = "pends" THEN <<Plain("Error")>>
  ELSE IF BuildServerException(chain) = <<>> THEN <<Plain("SurrealException")>>
  ELSE BuildServerException(chain)
=============================================================================
