----------------------------- MODULE HostObjects ----------------------------
(***************************************************************************)
(* What a component meets in a simulated host: a message, the mocked       *)
(* client and the router of src/http.rs, and the virtual environment of    *)
(* src/deployment.rs.  They share no state, so a behaviour is that of one  *)
(* of them.                                                                *)
(***************************************************************************)
EXTENDS HttpRouter

CONSTANTS
    Key, ContentLength, ContentType,  \* header names, in lower case
    Spelling, Lower,                  \* ways to write a name
    Reply, None,                      \* responses, and no response
    Path, Data,                       \* virtual files
    MaxLength, MaxHeaders,            \* bounds of a message
    MaxSent,                          \* bound of a client
    MaxFiles                          \* bound of an environment

ASSUME HeaderAssumption ==
    /\ {ContentLength, ContentType} \subseteq Key /\ ContentLength # ContentType
    /\ Lower \in Spelling
    /\ MaxLength \in Nat /\ MaxHeaders \in Nat \ {0, 1}
ASSUME ClientAssumption ==
    /\ NotFound \notin Reply /\ None \notin Reply /\ NotFound # None
    /\ MaxSent \in Nat
ASSUME EnvironmentAssumption == None \notin Data /\ MaxFiles \in Nat

VARIABLES
    subject,                \* the object a behaviour is about
    headers, body,          \* the message
    mocks, history, sent,   \* the client
    files                   \* the environment

Message == INSTANCE HttpHeaders
Client == INSTANCE HttpClient
Environment == INSTANCE VirtualEnvironment

messageVars == <<headers, body>>
clientVars == <<mocks, history, sent>>
vars == <<subject, messageVars, clientVars, routerVars, files>>

Init ==
    /\ subject \in {"message", "client", "router", "environment"}
    /\ Message!Init /\ Client!Init /\ RouterInit /\ Environment!Init

Next ==
    /\ \/ subject = "message" /\ Message!Next /\ UNCHANGED <<clientVars, routerVars, files>>
       \/ subject = "client" /\ Client!Next /\ UNCHANGED <<messageVars, routerVars, files>>
       \/ subject = "router" /\ RouterNext /\ UNCHANGED <<messageVars, clientVars, files>>
       \/ /\ subject = "environment" /\ Environment!Next
          /\ UNCHANGED <<messageVars, clientVars, routerVars>>
    /\ UNCHANGED subject

Spec == Init /\ [][Next]_vars

-----------------------------------------------------------------------------
(***************************************************************************)
(* Properties: what each object promises.                                  *)
(***************************************************************************)

\* Every variable of the objects has its type.
TypeOK == Message!TypeOK /\ Client!TypeOK /\ RouterTypeOK /\ Environment!TypeOK

\* The header list is a map from keys to lists of values.
ImplementsHeaderMap == Message!ImplementsHeaderMap

\* The objects have their types, and the client's request history is what was
\* answered, in order.
ObjectsSound == TypeOK /\ Client!HistoryIsAnswered

\* What a path of the environment reads is changed only by writing to it.
ReadsKept == Environment!ReadsKept
=============================================================================
